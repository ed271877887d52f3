----------------------------- MODULE Authorities -----------------------------
(* The certificate authorities of one organization, the keys the provider     *)
(* holds for them, and an enrolment endpoint bound to one of them.            *)
(* A console request reads without locks, talks to the key provider, which no *)
(* ROLLBACK takes back, and writes and COMMITs in its last step.              *)
EXTENDS Naturals, FiniteSets

CONSTANTS
    CAs,            \* certificate_authority rows, numbered as they are created
    Keys,           \* key versions, numbered as the provider makes them
    Requests,       \* console requests under way
    None,
    Operations,     \* the choices of operations a behaviour is about
    MaxEra          \* bound: changes of the endpoint

ASSUME AuthoritiesAssumption ==
    /\ {1, 2} \subseteq CAs \intersect Keys /\ CAs \union Keys \subseteq Nat \ {0}
    /\ None \notin CAs \union Keys /\ None \notin {"active", "inactive", "retired", "root", "issuing"}
    /\ MaxEra \in Nat

VARIABLES
    menu,           \* the operations the behaviour is about
    cas,            \* the rows, with the last purpose recorded of each
    keys,           \* the provider's key versions
    endpoint,       \* an enrolment endpoint and the CA it is bound to
    requests,       \* console requests between two of their steps
    stranded        \* keys whose cleanup, or whose transaction, was lost

authoritiesVars == <<menu, cas, keys, endpoint, requests, stranded>>

CATypeRoot == "root"
CATypeIssuing == "issuing"
Statuses == {"active", "inactive", "retired"}
NoRequest == [op |-> "none", ca |-> None, key |-> None, type |-> None, status |-> None, era |-> 0]
NoCA == [status |-> "absent", type |-> None, parent |-> None, key |-> None, said |-> "nothing"]
NoKey == [state |-> "none", imported |-> FALSE, fits |-> FALSE]

(* Types; and an endpoint that is enabled is bound to a CA.                *)
AuthoritiesTypeOK ==
    /\ menu \in Operations
    /\ cas \in [CAs -> [status : Statuses \union {"absent", "deleted"},
                        type : {CATypeRoot, CATypeIssuing, None}, parent : CAs \union {None},
                        key : Keys \union {None},
                        said : Statuses \union {"nothing", "created", "rotated", "deleted"}]]
    /\ keys \in [Keys -> [state : {"none", "pending", "enabled", "failed", "destroyed"},
                          imported : BOOLEAN, fits : BOOLEAN]]
    /\ endpoint \in [ca : CAs \union {None}, kind : {"scep", "acme", "est", None},
                     enabled : BOOLEAN, era : 0..MaxEra]
    /\ endpoint.enabled => endpoint.ca # None
    /\ requests \in [Requests ->
         [op : {"none", "create", "sign", "insert", "status", "destroy", "mark"},
          ca : CAs \union {None}, key : Keys \union {None},
          type : {CATypeRoot, CATypeIssuing, None}, status : Statuses \union {None},
          era : 0..MaxEra]]
    /\ stranded \subseteq Keys

(* A fresh organization, or one with a root and an issuing CA.                *)
AuthoritiesInit ==
    /\ menu \in Operations
    /\ LET made == IF menu \intersect {"create", "import"} = {} THEN 2 ELSE 0 IN
       /\ cas = [a \in CAs |->
            IF a > made THEN NoCA
            ELSE [status |-> "active", type |-> IF a = 1 THEN CATypeRoot ELSE CATypeIssuing,
                  parent |-> IF a = 1 THEN None ELSE 1, key |-> a, said |-> "created"]]
       /\ keys = [k \in Keys |-> IF k > made THEN NoKey
                                 ELSE [state |-> "enabled", imported |-> FALSE, fits |-> TRUE]]
    /\ endpoint = [ca |-> None, kind |-> None, enabled |-> FALSE, era |-> 0]
    /\ requests = [r \in Requests |-> NoRequest]
    /\ stranded = {}

----------------------------------------------------------------------------
(* What the statements and the provider do.                                  *)

Earliest(i, S) == i \in S /\ \A j \in S : i <= j
NewCA(a) == Earliest(a, {b \in CAs : cas[b].status = "absent"})
NewKey(k) == Earliest(k, {j \in Keys : keys[j].state = "none"})
CA(a) == a \in CAs /\ cas[a].status \notin {"absent", "deleted"}
RootCA == {a \in CAs : CA(a) /\ cas[a].type = CATypeRoot}
ActiveChildCount(a) == Cardinality({b \in CAs : CA(b) /\ cas[b].parent = a})
KeyInfo(k) == k \in Keys /\ keys[k].state = "enabled"

(* certificate_authority_one_root_per_org_idx, and the key names are unique.  *)
CreateCA(type, k) ==
    /\ type = CATypeRoot => RootCA = {}
    /\ \A a \in CAs : cas[a].key # k

UpdateCAStatus(a) == CA(a)
MarkCADeleted(a) == CA(a)

EnabledSCEPEndpointCount(a) == endpoint.enabled /\ endpoint.ca = a /\ endpoint.kind = "scep"
EnabledACMEEndpointCount(a) == endpoint.enabled /\ endpoint.ca = a /\ endpoint.kind = "acme"
EnabledESTEndpointCount(a) == endpoint.enabled /\ endpoint.ca = a /\ endpoint.kind = "est"
(* Fault: EST came later and was not added.                                   *)
FaultCheckEndpointBindings(a) == ~EnabledSCEPEndpointCount(a) /\ ~EnabledACMEEndpointCount(a)
checkEndpointBindings(a) ==
    ~EnabledSCEPEndpointCount(a) /\ ~EnabledACMEEndpointCount(a) /\ ~EnabledESTEndpointCount(a)

CreateSigningKey(k) ==
    NewKey(k) /\ keys' = [keys EXCEPT ![k] = [state |-> "enabled", imported |-> FALSE, fits |-> TRUE]]
DestroyKeyVersion(k) == keys' = [keys EXCEPT ![k].state = "destroyed"]
(* Best effort: the provider may refuse.                                      *)
(* Fault: the key is left behind.                                             *)
FaultDestroyOnError(k) == UNCHANGED <<keys, stranded>>
destroyOnError(k) ==
    \/ DestroyKeyVersion(k) /\ UNCHANGED stranded
    \/ stranded' = stranded \union {k} /\ UNCHANGED keys

Begin(r, req) == requests[r].op = "none"
                 /\ requests' = [requests EXCEPT ![r] = [req EXCEPT !.era = endpoint.era]]
Proceed(r, op) == requests' = [requests EXCEPT ![r].op = op]
End(r) == requests' = [requests EXCEPT ![r] = NoRequest]
manager(r, op) == requests[r].op = op

----------------------------------------------------------------------------
(* Creation, and rotation, which creates the replacement and retires the CA   *)
(* it replaces in one transaction.                                            *)

create(r, type, parent) ==
    /\ "create" \in menu
    /\ IF type = CATypeRoot THEN RootCA = {} /\ parent = None
       ELSE CA(parent) /\ KeyInfo(cas[parent].key)
    /\ \E k \in Keys :
         /\ CreateSigningKey(k)
         /\ Begin(r, [NoRequest EXCEPT !.op = "sign", !.key = k, !.type = type,
                                      !.ca = parent])
    /\ UNCHANGED <<menu, cas, endpoint, stranded>>

rotate(r, old) ==
    /\ "rotate" \in menu
    /\ CA(old) /\ checkEndpointBindings(old)
    /\ cas[old].type = CATypeIssuing /\ cas[old].parent # None
    /\ CA(cas[old].parent) /\ KeyInfo(cas[cas[old].parent].key)
    /\ \E k \in Keys :
         /\ CreateSigningKey(k)
         /\ Begin(r, [NoRequest EXCEPT !.op = "sign", !.key = k, !.type = CATypeIssuing,
                                      !.ca = old, !.status = "retired"])
    /\ UNCHANGED <<menu, cas, endpoint, stranded>>

Rotating(r) == requests[r].status = "retired"
ParentOf(r) == IF Rotating(r) THEN cas[requests[r].ca].parent ELSE requests[r].ca
SignerKey(r) == IF ParentOf(r) = None THEN requests[r].key ELSE cas[ParentOf(r)].key

CreateCertificate(r) ==
    /\ manager(r, "sign")
    /\ IF KeyInfo(SignerKey(r)) THEN Proceed(r, "insert") /\ UNCHANGED <<keys, stranded>>
       ELSE destroyOnError(requests[r].key) /\ End(r)
    /\ UNCHANGED <<menu, cas, endpoint>>

RecordCAEvent(rows, old, new, said) == [rows EXCEPT ![old].said = said]

RotateIssuingCA(rows, old, new) ==
    IF UpdateCAStatus(old)
    THEN RecordCAEvent([rows EXCEPT ![old].status = "retired"], old, new, "rotated")
    ELSE rows

(* A rotated CA that is gone meanwhile: the caller is told so, and COMMITs    *)
(* its replacement all the same.                                              *)
Unreplaced(r, k) == UNCHANGED <<keys, stranded>>

InsertCA(r) ==
    LET k == requests[r].key  old == requests[r].ca IN
    /\ manager(r, "insert") /\ End(r)
    /\ IF CreateCA(requests[r].type, k)
       THEN \E a \in CAs :
              /\ NewCA(a)
              /\ LET rows == [cas EXCEPT ![a] =
                       [status |-> "active", type |-> requests[r].type, parent |-> ParentOf(r),
                        key |-> k, said |-> "created"]]
                 IN cas' = IF Rotating(r) THEN RotateIssuingCA(rows, old, a) ELSE rows
              /\ IF Rotating(r) /\ ~UpdateCAStatus(old) THEN Unreplaced(r, k)
                 ELSE UNCHANGED <<keys, stranded>>
       ELSE destroyOnError(k) /\ UNCHANGED cas
    /\ UNCHANGED <<menu, endpoint>>

----------------------------------------------------------------------------
(* Status and deletion.                                                      *)

status(r, a, new) ==
    /\ "status" \in menu
    /\ CA(a) /\ cas[a].status # "retired"
    /\ new # "active" => checkEndpointBindings(a)
    /\ Begin(r, [NoRequest EXCEPT !.op = "status", !.ca = a, !.status = new])
    /\ UNCHANGED <<menu, cas, keys, endpoint, stranded>>

caStatusPurpose(a, new) == new

SetCAStatus(r) ==
    LET a == requests[r].ca  new == requests[r].status IN
    /\ manager(r, "status") /\ End(r)
    /\ cas' = IF UpdateCAStatus(a)
              THEN [cas EXCEPT ![a].status = new, ![a].said = caStatusPurpose(a, new)] ELSE cas
    /\ UNCHANGED <<menu, keys, endpoint, stranded>>

delete(r, a) ==
    /\ "delete" \in menu
    /\ CA(a) /\ checkEndpointBindings(a) /\ ActiveChildCount(a) = 0
    /\ Begin(r, [NoRequest EXCEPT !.op = "destroy", !.ca = a])
    /\ UNCHANGED <<menu, cas, keys, endpoint, stranded>>

(* The provider may refuse, and the request ends there.                       *)
deleteDestroy(r) ==
    /\ manager(r, "destroy")
    /\ \/ DestroyKeyVersion(cas[requests[r].ca].key) /\ Proceed(r, "mark")
       \/ End(r) /\ UNCHANGED keys
    /\ UNCHANGED <<menu, cas, endpoint, stranded>>

DeleteCA(r) ==
    LET a == requests[r].ca IN
    /\ manager(r, "mark") /\ End(r)
    /\ cas' = IF MarkCADeleted(a)
              THEN [cas EXCEPT ![a].status = "deleted", ![a].said = "deleted"] ELSE cas
    /\ UNCHANGED <<menu, keys, endpoint, stranded>>

(* COMMIT fails, or the server stops: what was written is lost, what the      *)
(* provider did is not.                                                       *)
LoseTransaction(r) ==
    /\ requests[r].op # "none" /\ End(r)
    /\ stranded' = stranded \union
         (IF requests[r].op = "mark" THEN {cas[requests[r].ca].key}
          ELSE {requests[r].key} \ {None})
    /\ UNCHANGED <<menu, cas, keys, endpoint>>

----------------------------------------------------------------------------
(* The endpoint, one statement at a time.                                    *)

Changed(e) == /\ endpoint.era < MaxEra /\ endpoint' = [e EXCEPT !.era = endpoint.era + 1]
              /\ UNCHANGED <<menu, cas, keys, requests, stranded>>

(* The RA certificate of a SCEP endpoint is issued by an active issuing CA.   *)
CreateSCEPEndpoint(a) ==
    /\ endpoint.ca = None /\ CA(a) /\ cas[a].status = "active" /\ cas[a].type = CATypeIssuing
    /\ KeyInfo(cas[a].key)
    /\ Changed([endpoint EXCEPT !.ca = a, !.kind = "scep"])

(* The others need no more than the row the foreign key names.                *)
CreateACMEEndpoint(a) ==
    /\ endpoint.ca = None /\ cas[a].status # "absent"
    /\ Changed([endpoint EXCEPT !.ca = a, !.kind = "acme"])
CreateESTEndpoint(a) ==
    /\ endpoint.ca = None /\ cas[a].status # "absent"
    /\ Changed([endpoint EXCEPT !.ca = a, !.kind = "est"])

EnableBoundEndpoint(on) ==
    /\ endpoint.ca # None /\ endpoint.enabled # on /\ Changed([endpoint EXCEPT !.enabled = on])
DeleteBoundEndpoint ==
    /\ endpoint.ca # None
    /\ Changed([endpoint EXCEPT !.ca = None, !.kind = None, !.enabled = FALSE])

Console(r) ==
    \/ \E type \in {CATypeRoot, CATypeIssuing}, p \in CAs \union {None} : create(r, type, p)
    \/ \E a \in CAs : rotate(r, a) \/ delete(r, a) \/ \E new \in Statuses : status(r, a, new)
    \/ CreateCertificate(r) \/ InsertCA(r) \/ SetCAStatus(r)
    \/ deleteDestroy(r) \/ DeleteCA(r) \/ LoseTransaction(r)

Binding ==
    \/ \E a \in CAs : CreateSCEPEndpoint(a) \/ CreateACMEEndpoint(a) \/ CreateESTEndpoint(a)
    \/ \E on \in BOOLEAN : EnableBoundEndpoint(on)
    \/ DeleteBoundEndpoint

AuthoritiesNext == (\E r \in Requests : Console(r)) \/ ("bind" \in menu /\ Binding)

AuthoritiesSpec == AuthoritiesInit /\ [][AuthoritiesNext]_authoritiesVars

----------------------------------------------------------------------------
(* Properties.                                                               *)

(* An organization has one root that is not deleted, whoever creates or       *)
(* imports one at the same time (the check in CreateCA and the index).        *)
OneLiveRoot == Cardinality(RootCA) <= 1

(* No two CAs sign with one key version, whatever the import job is retried.  *)
OneCAPerKey ==
    \A a, b \in CAs : cas[a].key = cas[b].key /\ cas[a].key # None => a = b

(* The last purpose in the signing audit says what the CA's status is: no     *)
(* status change goes unrecorded or is recorded of another CA.                *)
StatusIsRecorded ==
    \A a \in CAs :
        CASE cas[a].status = "active" -> cas[a].said \in {"created", "active"}
          [] cas[a].status = "retired" -> cas[a].said \in {"retired", "rotated"}
          [] cas[a].status = "absent" -> cas[a].said = "nothing"
          [] OTHER -> cas[a].said = cas[a].status

(* While an endpoint stands enabled for all of a request, the request does    *)
(* not take its CA out of service.                                            *)
BoundIsKept ==
    \A a \in CAs, r \in Requests :
      /\ requests[r].op # "none" /\ requests'[r].op = "none"
      /\ requests[r].era = endpoint.era /\ endpoint.enabled /\ endpoint.ca = a
      /\ cas[a].status = "active" /\ requests[r].ca = a
      => cas'[a].status = "active"

(* What a request decided about a CA is still so when it commits: there is    *)
(* one root, the CA serves the endpoints it was kept for, and the audit says  *)
(* what was done.                                                             *)
DecisionsHold ==
    [][/\ BoundIsKept
       /\ OneLiveRoot'
       /\ StatusIsRecorded']_authoritiesVars
=============================================================================

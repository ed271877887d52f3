---------------------------- MODULE EstEnrollment ----------------------------
(* One EST endpoint: the Basic credentials it accepts, the certificates it    *)
(* issued with the enrollment rows that say to whom, and requests that enrol  *)
(* and re-enrol while an administrator rotates credentials, changes the       *)
(* policy, pauses the endpoint or deletes it.  There is no client certificate *)
(* to authenticate a renewal with; the enrollment rows stand in for it.       *)
EXTENDS Naturals, FiniteSets

CONSTANTS
    Clients,        \* EST requests under way
    Creds,          \* est_credential rows, numbered as they are minted
    Usernames, Subjects, PublicKeys,
    Issues,         \* certificates, numbered as they are issued
    Topics,         \* what a behaviour may be about
    Absent

ASSUME EstAssumption ==
    /\ Creds \subseteq Nat /\ Issues \subseteq Nat
    /\ PublicKeys \subseteq Nat /\ Subjects \subseteq Nat
    /\ Absent \notin Creds \union Usernames \union Subjects \union PublicKeys
    /\ Absent \notin {"enroll", "reenroll"}

VARIABLES
    topic,
    est,            \* the endpoint's row
    credentials,    \* est_credential
    issued,         \* certificate with its est_enrollment row
    refused,        \* est_enrollment rows of refusals
    clients         \* requests between two of their steps

estVars == <<topic, est, credentials, issued, refused, clients>>

NoClient == [at |-> "idle", op |-> Absent, cred |-> Absent, subject |-> Absent,
             key |-> Absent, same |-> FALSE]

(* Types; and one live credential for a username (the index of its table). *)
EstTypeOK ==
    /\ topic \in Topics
    /\ est \in [row : {"live", "deleted"}, enabled : BOOLEAN, same : BOOLEAN, always : BOOLEAN]
    /\ credentials \in [Creds -> [state : {"none", "live", "lapsed", "revoked", "deleted"},
                                  name : Usernames \union {Absent}]]
    /\ issued \in [Issues -> [state : {"none", "fresh", "due", "over"},
                              op : {"enroll", "reenroll", Absent}, row : BOOLEAN,
                              cred : Creds \union {Absent}, subject : Subjects \union {Absent},
                              key : PublicKeys \union {Absent}]]
    /\ \A c, d \in {k \in Creds : credentials[k].state \in {"live", "lapsed"}} :
         credentials[c].name = credentials[d].name => c = d
    /\ refused \subseteq Creds
    /\ clients \in [Clients ->
         [at : {"idle", "known", "checked", "refused", "turned away"},
          op : {"enroll", "reenroll", Absent}, cred : Creds \union {Absent},
          subject : Subjects \union {Absent}, key : PublicKeys \union {Absent}, same : BOOLEAN]]

EstInit ==
    /\ topic \in Topics
    /\ \E same \in BOOLEAN : 
         /\ same => topic = "keys"
         /\ est = [row |-> "live", enabled |-> TRUE, same |-> same, always |-> same]
    /\ credentials = [c \in Creds |-> [state |-> "none", name |-> Absent]]
    /\ issued = [i \in Issues |-> [state |-> "none", op |-> Absent, row |-> FALSE, cred |-> Absent,
                                   subject |-> Absent, key |-> Absent]]
    /\ refused = {}
    /\ clients = [c \in Clients |-> NoClient]

----------------------------------------------------------------------------
(* The statements.                                                           *)

First(i, S) == i \in S /\ \A j \in S : i <= j
Alive(i) == issued[i].state \in {"fresh", "due"}
NameOf(c) == credentials[c].name

(* est_credential_endpoint_username_key: one row that is not revoked.         *)
CreateCredential(n) == \A c \in Creds : credentials[c].state \in {"live", "lapsed"} => NameOf(c) # n

(* The row a username stands for.                                             *)
CredentialByUsername(n) == {c \in Creds : credentials[c].state \in {"live", "lapsed"} /\ NameOf(c) = n}

(* What this credential, or an earlier one of its name, was issued for the    *)
(* subject.                                                                   *)
(* Fault: any live certificate of the subject will do.                        *)
FaultRenewableCertificate(c, s) ==
    {i \in Issues : Alive(i) /\ issued[i].row /\ issued[i].subject = s}
RenewableCertificate(c, s) ==
    {i \in Issues : /\ Alive(i) /\ issued[i].row /\ issued[i].subject = s
                    /\ issued[i].cred # Absent
                    /\ (issued[i].cred = c \/ NameOf(issued[i].cred) = NameOf(c))}

samePublicKey(i, k) == issued[i].key = k

(* The foreign keys of an enrollment row: its endpoint and its credential.    *)
CreateEnrollment(c) == est.row = "live" /\ credentials[c].state # "deleted"

EndClient(r) == clients' = [clients EXCEPT ![r] = NoClient]

----------------------------------------------------------------------------
(* A request.                                                                *)

(* The endpoint and its policy are read once; the password belongs to one     *)
(* credential, live or not.  Bound: more than one key, one subject, one       *)
(* request at a time only where the behaviour is about that.                  *)
AuthenticateEst(r, c, op, s, k) ==
    /\ clients[r].at = "idle" /\ est.row = "live" /\ est.enabled
    /\ topic # "keys" => First(k, PublicKeys)
    /\ topic # "subjects" => First(s, Subjects)
    /\ topic = "closing" \/ \A q \in Clients : clients[q].at = "idle"
    /\ credentials[c].state \notin {"none", "deleted"}
    /\ \E found \in CredentialByUsername(NameOf(c)) \union {Absent} :
         /\ found = Absent => CredentialByUsername(NameOf(c)) = {}
         /\ clients' = [clients EXCEPT ![r] =
              IF found = c /\ credentials[c].state = "live"
              THEN [at |-> "known", op |-> op, cred |-> c, subject |-> s, key |-> k, same |-> est.same]
              ELSE [NoClient EXCEPT !.at = "turned away", !.cred = c]]
    /\ UNCHANGED <<topic, est, credentials, issued, refused>>

unauthorized(r) ==
    /\ clients[r].at = "turned away" /\ EndClient(r)
    /\ UNCHANGED <<topic, est, credentials, issued, refused>>

(* Which of several certificates expires last depends on the validity the     *)
(* policy had when each was issued.                                           *)
Reenroll(r) ==
    LET req == clients[r]  own == RenewableCertificate(req.cred, req.subject) IN
    /\ req.at = "known" /\ req.op = "reenroll"
    /\ \/ own = {} /\ clients' = [clients EXCEPT ![r].at = "refused"]
       \/ \E i \in own :
            LET allowed == issued[i].state = "due" /\ (req.same => samePublicKey(i, req.key)) IN
            clients' = [clients EXCEPT ![r].at = IF allowed THEN "checked" ELSE "refused"]
    /\ UNCHANGED <<topic, est, credentials, issued, refused>>

(* Names, the pin, usages and the CA's profile may refuse too.                *)
checkNames(r) ==
    /\ clients[r].at = "known" /\ clients[r].op = "enroll"
    /\ \E verdict \in {"checked", "refused"} : clients' = [clients EXCEPT ![r].at = verdict]
    /\ UNCHANGED <<topic, est, credentials, issued, refused>>

(* The certificate, its enrollment row, the last-seen stamp and COMMIT.       *)
(* Bound: one certificate fewer where the behaviour is about names.           *)
enroll(r) ==
    LET req == clients[r] IN
    /\ req.at = "checked" /\ EndClient(r)
    /\ IF CreateEnrollment(req.cred)
       THEN \E i \in Issues :
              /\ First(i, {j \in Issues : issued[j].state = "none"})
              /\ topic = "names" => \E j \in Issues : i < j
              /\ issued' = [issued EXCEPT ![i] =
                   [state |-> "fresh", op |-> req.op, row |-> TRUE, cred |-> req.cred,
                    subject |-> req.subject, key |-> req.key]]
       ELSE UNCHANGED issued
    /\ UNCHANGED <<topic, est, credentials, refused>>

(* A statement, the last-seen stamp too, or COMMIT fails.                     *)
RollBack(r) ==
    /\ clients[r].at \in {"known", "checked"} /\ EndClient(r)
    /\ UNCHANGED <<topic, est, credentials, issued, refused>>

(* On a transaction of its own, after the request's was rolled back; what     *)
(* goes wrong here is swallowed.                                              *)
RecordFailure(r) ==
    LET req == clients[r] IN
    /\ req.at = "refused" /\ EndClient(r)
    /\ \/ CreateEnrollment(req.cred) /\ topic = "closing"
          /\ refused' = refused \union {req.cred}
       \/ UNCHANGED refused
    /\ UNCHANGED <<topic, est, credentials, issued>>

----------------------------------------------------------------------------
(* The administrator, and time.                                              *)

createCredential(c, n) ==
    /\ First(c, {d \in Creds : credentials[d].state = "none"})
    /\ topic = "names" \/ c = 1
    /\ est.row = "live" /\ CreateCredential(n)
    /\ credentials' = [credentials EXCEPT ![c] = [state |-> "live", name |-> n]]
    /\ UNCHANGED <<topic, est, issued, refused, clients>>

revokeEstCredential(c) ==
    /\ credentials[c].state \in {"live", "lapsed"}
    /\ credentials' = [credentials EXCEPT ![c].state = "revoked"]
    /\ UNCHANGED <<topic, est, issued, refused, clients>>

setEstEnabled(on) ==
    /\ topic = "closing" /\ est.row = "live" /\ est' = [est EXCEPT !.enabled = on]
    /\ UNCHANGED <<topic, credentials, issued, refused, clients>>

updateEstPolicy(same) ==
    /\ topic = "keys" /\ est.row = "live" /\ est' = [est EXCEPT !.same = same, !.always = @ /\ same]
    /\ UNCHANGED <<topic, credentials, issued, refused, clients>>

(* Credentials and enrollment rows go with the endpoint, certificates stay.   *)
deleteEndpoint ==
    /\ topic = "closing" /\ est.row = "live" /\ est' = [est EXCEPT !.row = "deleted"]
    /\ credentials' = [c \in Creds |->
         IF credentials[c].state = "none" THEN credentials[c]
         ELSE [credentials[c] EXCEPT !.state = "deleted"]]
    /\ issued' = [i \in Issues |-> [issued[i] EXCEPT !.row = FALSE]]
    /\ refused' = {}
    /\ UNCHANGED <<topic, clients>>

Usable(c) ==
    /\ topic = "closing" /\ credentials[c].state = "live"
    /\ credentials' = [credentials EXCEPT ![c].state = "lapsed"]
    /\ UNCHANGED <<topic, est, issued, refused, clients>>

(* The renewal window opens, then the certificate expires or is revoked (one  *)
(* revoked before its window opens renews nothing either way).                *)
Age(i) ==
    /\ Alive(i)
    /\ issued' = [issued EXCEPT ![i].state = IF @ = "fresh" THEN "due" ELSE "over"]
    /\ UNCHANGED <<topic, est, credentials, refused, clients>>

EstAdmin ==
    \/ \E c \in Creds : \/ revokeEstCredential(c) \/ Usable(c)
                        \/ \E n \in Usernames : createCredential(c, n)
    \/ \E on \in BOOLEAN : setEstEnabled(on) \/ updateEstPolicy(on)
    \/ deleteEndpoint

EstNext ==
    \/ \E r \in Clients :
         \/ \E c \in Creds, op \in {"enroll", "reenroll"}, s \in Subjects, k \in PublicKeys :
              AuthenticateEst(r, c, op, s, k)
         \/ unauthorized(r) \/ Reenroll(r) \/ checkNames(r) \/ enroll(r) \/ RollBack(r)
         \/ RecordFailure(r)
    \/ EstAdmin
    \/ \E i \in Issues : Age(i)

EstSpec == EstInit /\ [][EstNext]_estVars

----------------------------------------------------------------------------
(* Properties.                                                               *)

(* Nobody renews what another enrolled: behind every renewed certificate, over*)
(* however many renewals and rotated passwords, is one that the same username *)
(* enrolled for the same subject (RenewableCertificate, repo.go).             *)
RenewalIsOwn ==
    \A i \in Issues :
        issued[i].op = "reenroll" =>
        \E j \in Issues : /\ j < i /\ issued[j].op = "enroll"
                          /\ issued[j].subject = issued[i].subject
                          /\ NameOf(issued[j].cred) = NameOf(issued[i].cred)

(* Under a policy that always required the same key, a renewal is of a key    *)
(* enrolled by that username for that subject.                                *)
KeyIsKept ==
    est.always => \A i \in Issues :
        issued[i].op = "reenroll" =>
        \E j \in Issues : /\ j < i /\ issued[j].op = "enroll" /\ issued[j].key = issued[i].key
                          /\ issued[j].subject = issued[i].subject
                          /\ NameOf(issued[j].cred) = NameOf(issued[i].cred)

(* A credential that is live is accepted whatever became of earlier ones of   *)
(* its name: rotating a password locks nobody out.                            *)
LiveIsAccepted ==
    \A r \in Clients :
      clients[r].at = "idle" /\ clients'[r].at = "turned away"
      => credentials[clients'[r].cred].state # "live"

(* Once the endpoint is deleted nothing more is issued through it, not even   *)
(* to a request that was authorized before.                                   *)
DeletedIssuesNothing ==
    est.row = "deleted" => \A i \in Issues : issued[i].state = "none" => issued'[i].state = "none"

(* Without a client certificate an identity is a username and its enrollment  *)
(* rows: they carry it over rotated passwords and renewals, and not beyond    *)
(* the endpoint (service.go, repo.go).                                        *)
IdentityIsKept ==
    [][/\ RenewalIsOwn'
       /\ KeyIsKept'
       /\ LiveIsAccepted
       /\ DeletedIssuesNothing
       /\ EstTypeOK']_estVars
=============================================================================

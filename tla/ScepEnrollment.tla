--------------------------- MODULE ScepEnrollment ---------------------------
(* SCEP enrolment: PKIOperation of several devices at one endpoint, each in  *)
(* a database transaction of its own (READ COMMITTED), beside the console    *)
(* and the certificate's other owners.  A message is what authorization and  *)
(* the replay check tell apart: its transaction id, CSR, signing key and the *)
(* credential it presents.                                                   *)
EXTENDS Naturals, FiniteSets

CONSTANTS
    Requests,       \* requests in flight
    Txs,            \* SCEP transaction ids, chosen by the devices
    CSRs, Keys,     \* CSR digests, and digests of the key that signed the message
    Challenges,     \* one-time challenge passwords the endpoint has minted
    Static, Intune, \* the shared secret; a password only Microsoft can judge
    Certs,          \* serial numbers of the issuing CA
    Foreign,        \* those it issued before, for another endpoint
    Switches,       \* the methods an administrator turns on and off
    MaxFailures,    \* bound on failed transactions (crash, database error)
    None, Free

ASSUME ScepAssumption ==
    /\ None \notin Txs \union CSRs \union Keys \union Challenges \union Certs \union {Static, Intune}
    /\ Certs \intersect (Challenges \union {Static, Intune}) = {}
    /\ Challenges \intersect {Static, Intune} = {} /\ Static # Intune
    /\ Free \notin Requests /\ Foreign \subseteq Certs
    /\ MaxFailures \in Nat

VARIABLES
    enabled,        \* scep_endpoint.enabled
    methods,        \* enabled scep_auth_method rows
    lapsed,         \* challenges past expires_at
    used,           \* scep_challenge.used_at is set
    status,         \* scep_transaction.status, "none" without a row
    csrOf, keyOf, certOf,   \* its csr_digest, signer_key_digest, certificate_id
    recorded,       \* certificate rows
    revoked,        \* of those, the revoked
    pc,             \* where each request is
    tx, csr, key, password,     \* its message
    source,         \* the method that authorized it
    leaf,           \* the certificate it has signed or found
    orgLock,        \* the organization's advisory lock
    rowLock,        \* the row lock on each challenge
    txLock,         \* the row lock on each transaction id
    signed,         \* serials the CA key has signed
    wasted,         \* of those, what failed transactions left behind
    bought,         \* the credential each recorded certificate was issued for
    answers,        \* <<message, certificate>> told to devices
    failures

Credentials == Challenges \union {Static, Intune} \union Certs
Methods == {"one_time", "static", "intune"}

config == <<enabled, methods>>
rows == <<status, csrOf, keyOf, certOf>>
tables == <<used, rows, recorded, revoked>>
message == <<tx, csr, key, password>>
locks == <<orgLock, rowLock, txLock>>
history == <<signed, wasted, bought, answers>>
vars == <<config, lapsed, tables, pc, message, source, leaf, locks, history, failures>>

(* Types: rows, locks with one holder or none, the messages.              *)
TypeOK ==
    /\ enabled \in BOOLEAN /\ methods \subseteq Methods
    /\ lapsed \subseteq Challenges /\ used \subseteq Challenges
    /\ status \in [Txs -> {"none", "failed", "issued"}]
    /\ csrOf \in [Txs -> CSRs \union {None}] /\ keyOf \in [Txs -> Keys \union {None}]
    /\ certOf \in [Txs -> Certs \union {None}]
    /\ recorded \subseteq Certs /\ revoked \subseteq recorded
    /\ pc \in [Requests -> {"idle", "check", "lock", "lookup", "authorize", "issue", "notify",
                            "record", "commit", "replay", "reject", "report"}]
    /\ tx \in [Requests -> Txs \union {None}] /\ csr \in [Requests -> CSRs \union {None}]
    /\ key \in [Requests -> Keys \union {None}]
    /\ password \in [Requests -> Credentials \union {None}]
    /\ source \in [Requests -> Methods \union {"renewal", "none"}]
    /\ leaf \in [Requests -> Certs \union {None}]
    /\ orgLock \in Requests \union {Free}
    /\ rowLock \in [Challenges -> Requests \union {Free}]
    /\ txLock \in [Txs -> Requests \union {Free}]
    /\ signed \subseteq Certs /\ wasted \subseteq signed
    /\ bought \in [Certs -> Credentials \union {None}]
    /\ answers \subseteq Txs \X CSRs \X Keys \X Certs
    /\ failures \in 0 .. MaxFailures

Init ==
    /\ enabled = TRUE /\ methods = Methods
    /\ lapsed = {} /\ used = {}
    /\ status = [t \in Txs |-> "none"]
    /\ csrOf = [t \in Txs |-> None] /\ keyOf = [t \in Txs |-> None]
    /\ certOf = [t \in Txs |-> None]
    /\ recorded = Foreign /\ revoked = {}
    /\ pc = [p \in Requests |-> "idle"]
    /\ tx = [p \in Requests |-> None] /\ csr = [p \in Requests |-> None]
    /\ key = [p \in Requests |-> None] /\ password = [p \in Requests |-> None]
    /\ source = [p \in Requests |-> "none"] /\ leaf = [p \in Requests |-> None]
    /\ orgLock = Free
    /\ rowLock = [c \in Challenges |-> Free] /\ txLock = [t \in Txs |-> Free]
    /\ signed = Foreign /\ wasted = {} /\ bought = [c \in Certs |-> None] /\ answers = {}
    /\ failures = 0

-----------------------------------------------------------------------------
(* The console and the clock.                                                *)

(* Turning the endpoint on asks for an enabled method; turning it off, for   *)
(* nothing.                                                                  *)
SetEnabled ==
    /\ Switches # {}
    /\ enabled \/ methods # {}
    /\ enabled' = ~enabled
    /\ UNCHANGED <<methods, lapsed, tables, pc, message, source, leaf, locks, history, failures>>

SetMethodEnabled(m) ==
    /\ m \in Switches
    /\ methods' = IF m \in methods THEN methods \ {m} ELSE methods \union {m}
    /\ UNCHANGED <<enabled, lapsed, tables, pc, message, source, leaf, locks, history, failures>>

Lapse(c) ==
    /\ lapsed' = lapsed \union {c}
    /\ UNCHANGED <<config, tables, pc, message, source, leaf, locks, history, failures>>

(* From the console or the Intune sync, which do not take PKIOperation's     *)
(* lock.                                                                     *)
RevokeCertificate(c) ==
    /\ c \in recorded
    /\ revoked' = revoked \union {c}
    /\ UNCHANGED <<config, lapsed, used, rows, recorded, pc, message, source, leaf, locks,
                   history, failures>>

-----------------------------------------------------------------------------
(* PKIOperation.                                                             *)

(* A renewal is signed with a certificate the device holds.                  *)
Receive(p, t, r, k, w) ==
    /\ pc[p] = "idle"
    /\ enabled
    /\ w \in Certs => w \in recorded
    /\ pc' = [pc EXCEPT ![p] = "check"]
    /\ tx' = [tx EXCEPT ![p] = t] /\ csr' = [csr EXCEPT ![p] = r]
    /\ key' = [key EXCEPT ![p] = k] /\ password' = [password EXCEPT ![p] = w]
    /\ UNCHANGED <<config, lapsed, tables, source, leaf, locks, history, failures>>

(* Signature, key, names and extended key usages.                            *)
CheckRequest(p) ==
    /\ pc[p] = "check"
    /\ pc' \in {[pc EXCEPT ![p] = "lock"], [pc EXCEPT ![p] = "reject"]}
    /\ UNCHANGED <<config, lapsed, tables, message, source, leaf, locks, history, failures>>


LockOrganization(p) ==
    /\ pc[p] = "lock"
    /\ orgLock = Free
    /\ orgLock' = p
    /\ pc' = [pc EXCEPT ![p] = "lookup"]
    /\ UNCHANGED <<config, lapsed, tables, message, source, leaf, rowLock, txLock, history,
                   failures>>


SameMessage(p) == csrOf[tx[p]] = csr[p] /\ keyOf[tx[p]] = key[p]

(* Fault: retries are not recognised.                                        *)
FaultTransaction(p) ==
    /\ pc[p] = "lookup"
    /\ pc' = [pc EXCEPT ![p] = "authorize"]
    /\ UNCHANGED <<config, lapsed, tables, message, source, leaf, locks, history, failures>>

Transaction(p) ==
    /\ pc[p] = "lookup"
    /\ IF status[tx[p]] # "issued"
       THEN pc' = [pc EXCEPT ![p] = "authorize"] /\ UNCHANGED leaf
       ELSE IF SameMessage(p)
       THEN pc' = [pc EXCEPT ![p] = "replay"] /\ leaf' = [leaf EXCEPT ![p] = certOf[tx[p]]]
       ELSE pc' = [pc EXCEPT ![p] = "reject"] /\ UNCHANGED leaf
    /\ UNCHANGED <<config, lapsed, tables, message, source, locks, history, failures>>

(* Fault: a challenge is checked and not marked.                             *)
FaultUsable(c) == c \notin lapsed

(* ChallengeForUpdate waits for the row; UseChallenge asks again.            *)
Usable(c) == c \notin used /\ c \notin lapsed

IssuedHere(c) == \E t \in Txs : status[t] = "issued" /\ certOf[t] = c

(* Fault: the signer of a renewal need only be known.                        *)
FaultRenewable(c) == c \in recorded

Renewable(c) == c \in recorded \ revoked /\ IssuedHere(c)

(* The method whose turn it is and that accepts the credential.              *)
Accepts(p) ==
    CASE password[p] \in Certs -> IF Renewable(password[p]) THEN "renewal" ELSE "none"
      [] password[p] \in Challenges /\ "one_time" \in methods ->
            IF Usable(password[p]) THEN "one_time" ELSE "none"
      [] password[p] = Static /\ "static" \in methods -> "static"
      [] password[p] = Intune /\ "intune" \in methods -> "intune"
      [] OTHER -> "none"

Authorize(p) ==
    /\ pc[p] = "authorize"
    /\ Accepts(p) # "none"
    /\ Accepts(p) = "one_time" => rowLock[password[p]] = Free
    /\ source' = [source EXCEPT ![p] = Accepts(p)]
    /\ rowLock' = [c \in Challenges |-> IF Accepts(p) = "one_time" /\ c = password[p]
                                        THEN p ELSE rowLock[c]]
    /\ pc' = [pc EXCEPT ![p] = "issue"]
    /\ UNCHANGED <<config, lapsed, tables, message, leaf, orgLock, txLock, history, failures>>

(* No method accepts it, or it does not fit what the challenge or the old    *)
(* certificate is pinned to.                                                 *)
Unauthorized(p) ==
    /\ pc[p] = "authorize"
    /\ pc' = [pc EXCEPT ![p] = "reject"]
    /\ UNCHANGED <<config, lapsed, tables, message, source, leaf, locks, history, failures>>

(* Fault: Intune is asked first and its refusal comes after the signature.   *)
FaultIssue(p, c) ==
    /\ pc[p] = "issue" /\ c \notin signed
    /\ signed' = signed \union {c}
    /\ leaf' = [leaf EXCEPT ![p] = c]
    /\ pc' \in {[pc EXCEPT ![p] = "record"], [pc EXCEPT ![p] = "reject"]}
    /\ UNCHANGED <<config, lapsed, tables, message, source, locks, wasted, bought, answers,
                   failures>>

Issue(p, c) ==
    /\ pc[p] = "issue"
    /\ c \notin signed
    /\ signed' = signed \union {c}
    /\ leaf' = [leaf EXCEPT ![p] = c]
    /\ pc' = [pc EXCEPT ![p] = IF source[p] = "intune" THEN "notify" ELSE "record"]
    /\ UNCHANGED <<config, lapsed, tables, message, source, locks, wasted, bought, answers,
                   failures>>

(* The CA or its key refuses; Intune is told.                                *)
IssueRefused(p) ==
    /\ pc[p] = "issue"
    /\ pc' = [pc EXCEPT ![p] = "reject"]
    /\ UNCHANGED <<config, lapsed, tables, message, source, leaf, locks, history, failures>>

NotifySuccess(p) ==
    /\ pc[p] = "notify"
    /\ pc' = [pc EXCEPT ![p] = "record"]
    /\ UNCHANGED <<config, lapsed, tables, message, source, leaf, locks, history, failures>>

(* INSERT ... ON CONFLICT: one writer of a transaction id waits for another. *)
CreateTransaction(p) ==
    /\ pc[p] = "record"
    /\ txLock[tx[p]] = Free
    /\ txLock' = [txLock EXCEPT ![tx[p]] = p]
    /\ pc' = [pc EXCEPT ![p] = "commit"]
    /\ UNCHANGED <<config, lapsed, tables, message, source, leaf, orgLock, rowLock, history,
                   failures>>

(* Fault: the organization is locked for the session, not the transaction.   *)
FaultRelease(p) ==
    /\ UNCHANGED orgLock
    /\ rowLock' = [c \in Challenges |-> IF rowLock[c] = p THEN Free ELSE rowLock[c]]
    /\ txLock' = [t \in Txs |-> IF txLock[t] = p THEN Free ELSE txLock[t]]

Release(p) ==
    /\ orgLock' = IF orgLock = p THEN Free ELSE orgLock
    /\ rowLock' = [c \in Challenges |-> IF rowLock[c] = p THEN Free ELSE rowLock[c]]
    /\ txLock' = [t \in Txs |-> IF txLock[t] = p THEN Free ELSE txLock[t]]

Forget(p) ==
    /\ source' = [source EXCEPT ![p] = "none"] /\ leaf' = [leaf EXCEPT ![p] = None]

End(p) ==
    /\ pc' = [pc EXCEPT ![p] = "idle"]
    /\ tx' = [tx EXCEPT ![p] = None] /\ csr' = [csr EXCEPT ![p] = None]
    /\ key' = [key EXCEPT ![p] = None] /\ password' = [password EXCEPT ![p] = None]
    /\ Release(p) /\ Forget(p)

Answered(p) == answers' = answers \union {<<tx[p], csr[p], key[p], leaf[p]>>}

(* The transaction that signed: challenge, certificate and transaction row   *)
(* together, and only then the response.                                     *)
Commit(p) ==
    /\ pc[p] = "commit"
    /\ used' = IF source[p] = "one_time" THEN used \union {password[p]} ELSE used
    /\ recorded' = recorded \union {leaf[p]}
    /\ bought' = [bought EXCEPT ![leaf[p]] = password[p]]
    /\ IF status[tx[p]] = "issued"
       THEN UNCHANGED rows
       ELSE /\ status' = [status EXCEPT ![tx[p]] = "issued"]
            /\ csrOf' = [csrOf EXCEPT ![tx[p]] = csr[p]]
            /\ keyOf' = [keyOf EXCEPT ![tx[p]] = key[p]]
            /\ certOf' = [certOf EXCEPT ![tx[p]] = leaf[p]]
    /\ Answered(p)
    /\ End(p)
    /\ UNCHANGED <<config, lapsed, revoked, signed, wasted, failures>>

(* A retry is answered with what its transaction was issued.                 *)
Replay(p) ==
    /\ pc[p] = "replay"
    /\ Answered(p)
    /\ End(p)
    /\ UNCHANGED <<config, lapsed, tables, signed, wasted, bought, failures>>

Rollback(p) ==
    /\ pc[p] = "reject"
    /\ pc' = [pc EXCEPT ![p] = "report"]
    /\ Release(p) /\ Forget(p)
    /\ UNCHANGED <<config, lapsed, tables, message, history, failures>>

FailedRow(t) ==
    /\ status' = [status EXCEPT ![t] = "failed"]
    /\ csrOf' = [csrOf EXCEPT ![t] = None] /\ keyOf' = [keyOf EXCEPT ![t] = None]
    /\ certOf' = [certOf EXCEPT ![t] = None]

(* Fault: the upsert overwrites whatever it finds.                           *)
FaultRecordFailure(p) ==
    /\ pc[p] = "report"
    /\ txLock[tx[p]] = Free
    /\ FailedRow(tx[p])
    /\ End(p)
    /\ UNCHANGED <<config, lapsed, used, recorded, revoked, history, failures>>

(* In a transaction of its own, without the organization's lock.             *)
RecordFailure(p) ==
    /\ pc[p] = "report"
    /\ txLock[tx[p]] = Free
    /\ IF status[tx[p]] = "issued" THEN UNCHANGED rows ELSE FailedRow(tx[p])
    /\ End(p)
    /\ UNCHANGED <<config, lapsed, used, recorded, revoked, history, failures>>

(* A database error, a failed call of Intune or COMMIT, a crash: nothing is  *)
(* kept but what was said to others.                                         *)
Fail(p) ==
    /\ pc[p] # "idle"
    /\ failures < MaxFailures
    /\ failures' = failures + 1
    /\ wasted' = IF pc[p] \in {"notify", "record", "commit"} THEN wasted \union {leaf[p]} ELSE wasted
    /\ End(p)
    /\ UNCHANGED <<config, lapsed, tables, signed, bought, answers>>

-----------------------------------------------------------------------------
PKIOperation(p) ==
    \/ CheckRequest(p) \/ LockOrganization(p) \/ Transaction(p) \/ Authorize(p)
    \/ Unauthorized(p) \/ IssueRefused(p) \/ NotifySuccess(p) \/ CreateTransaction(p)
    \/ Commit(p) \/ Replay(p) \/ Rollback(p) \/ RecordFailure(p)
    \/ \E c \in Certs : Issue(p, c)

Next ==
    \/ SetEnabled
    \/ \E m \in Methods : SetMethodEnabled(m)
    \/ \E c \in Challenges : Lapse(c)
    \/ \E c \in Certs : RevokeCertificate(c)
    \/ \E p \in Requests : PKIOperation(p) \/ Fail(p)
    \/ \E p \in Requests, t \in Txs, r \in CSRs, k \in Keys, w \in Credentials :
          Receive(p, t, r, k, w)

Spec == Init /\ [][Next]_vars

(* Handlers run on, and PostgreSQL grants a lock to whoever waits again and  *)
(* again.  Nobody is obliged to send a request.                              *)
Fairness == \A p \in Requests : SF_vars(PKIOperation(p))

FairSpec == Spec /\ Fairness

-----------------------------------------------------------------------------
(* What must hold.                                                           *)

Signing(p) == pc[p] \in {"issue", "notify", "record", "commit"}

(* service.go: "concurrent retries cannot both sign": who is about to sign,  *)
(* or has signed and not committed, is alone on its transaction id, and the  *)
(* id has no certificate yet.                                                *)
SignsAlone ==
    \A p \in Requests : Signing(p) =>
        /\ status[tx[p]] # "issued"
        /\ \A q \in Requests \ {p} : Signing(q) => tx[q] # tx[p]

(* The certificates the endpoint issued and its issued transactions are in   *)
(* one-to-one correspondence: renewal and Intune's revocations find every    *)
(* certificate by its transaction, and no retry adds another.                *)
OneCertificatePerTransaction ==
    /\ recorded \ Foreign = {certOf[t] : t \in {u \in Txs : status[u] = "issued"}}
    /\ \A t, u \in Txs : status[t] = "issued" /\ certOf[t] = certOf[u] => t = u

(* What was signed, and Intune was told of, is on record or on its way       *)
(* there; only a transaction that failed has ever lost a certificate.        *)
SignedIsKept ==
    signed \ wasted \subseteq recorded \union {leaf[p] : p \in Requests}

(* A challenge is spent exactly when a certificate was issued for it, and    *)
(* for one certificate: no failure after UseChallenge burns it.              *)
ChallengeSpentOnce ==
    /\ \A w \in Challenges : w \in used <=> \E c \in recorded : bought[c] = w
    /\ \A c, d \in recorded : bought[c] = bought[d] /\ bought[c] \in Challenges => c = d

(* docs/scep.md: "Identical transaction retries return the original          *)
(* certificate" and no other message with that transaction id gets any.      *)
RetryGetsTheSame == \A a, b \in answers : a[1] = b[1] => a = b

(* docs/scep.md: "a recorded success is never overwritten by a later         *)
(* failure", though RecordFailure runs outside PKIOperation's lock.          *)
SuccessStays ==
    \A t \in Txs : status[t] = "issued" =>
       /\ status'[t] = "issued"
       /\ <<csrOf'[t], keyOf'[t], certOf'[t]>> = <<csrOf[t], keyOf[t], certOf[t]>>

(* A chain of renewals starts with a certificate of this endpoint.           *)
RenewedHere == \A c \in recorded : bought[c] \notin Foreign

(* Every request ends, whoever waits for whom.                               *)
RequestEnds == \A p \in Requests : pc[p] # "idle" ~> pc[p] = "idle"

(* Enrolments of the organization are issued one at a time and a transaction  *)
(* id has one certificate (LockOrganization, repo.go).                        *)
OneCertificateEach ==
    /\ SignsAlone
    /\ OneCertificatePerTransaction
    /\ TypeOK

(* The rows and the answers implement the abstract transaction: whatever is    *)
(* retried, refused or fails, an id is granted once and for good.             *)
Promise == INSTANCE ScepTransaction WITH status <- status, answers <- answers
ImplementsPromise == Promise!Spec

(* A device that retries gets what the first answer was, also after a         *)
(* failure was recorded beside it (service.go, PKIOperation and               *)
(* RecordFailure).                                                            *)
RetriesAgree ==
    /\ ImplementsPromise
    /\ [][/\ RetryGetsTheSame'
          /\ SuccessStays]_vars
=============================================================================

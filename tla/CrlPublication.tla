--------------------------- MODULE CrlPublication ---------------------------
(* Revoking certificates of one issuing CA and publishing its CRL and OCSP   *)
(* responses.  A revocation publishes in its own transaction; the hourly     *)
(* worker and any relying party's fetch may publish too, and the Intune sync *)
(* revokes a batch in one transaction.  All of them go through one advisory  *)
(* lock.  Reads see committed rows and the reader's own writes.              *)
EXTENDS Naturals, FiniteSets

CONSTANTS
    Certs,          \* certificates the CA has issued
    Admins,         \* console requests: revoke one certificate
    Syncs,          \* Intune syncs: revoke a batch
    Workers,        \* the renewal worker, and the console's republish
    Fetches,        \* requests for the public CRL
    Responders,     \* OCSP requests
    MaxNumber,      \* CRL numbers are counted up to this one
    MaxFailures,    \* bound on failed transactions
    None, Free

Publishers == Admins \union Syncs \union Workers \union Fetches

ASSUME CrlAssumption ==
    /\ \A S, T \in {Admins, Syncs, Workers, Fetches} : S # T => S \intersect T \subseteq {}
    /\ Free \notin Publishers /\ None \notin Certs
    /\ MaxNumber \in Nat /\ MaxFailures \in Nat

VARIABLES
    revoked,        \* certificates with status revoked
    number,         \* crl_publication.crl_number, 0 before the first CRL
    entries,        \* the serials in crl_der
    age,            \* how far next_update is: "fresh", "due" (an hour), "past"
    lastError,      \* last_error is set
    cooling,        \* last_attempt_at is less than crlRetryCooldown ago
    cache,          \* ocsp_response_cache: certificate_status by serial
    certLock,       \* row lock of each certificate
    crlLock,        \* LockCRL
    kmsUp,          \* the KMS signs
    pc,
    batch,          \* what a revoker has still to revoke
    current,        \* the certificate it is revoking
    mine,           \* its uncommitted revocations
    purged,         \* cache rows it has deleted
    wrote,          \* its uncommitted write of crl_publication
    newNumber, newEntries,
    seen,           \* the status an OCSP request read, or None
    asked,          \* the certificate it asks about
    late,           \* it began after that certificate's revocation committed
    told,           \* certificates an administrator was told are revoked
    failures

publication == <<number, entries, age, lastError, cooling>>
locks == <<certLock, crlLock>>
work == <<batch, current, mine, purged>>
draft == <<wrote, newNumber, newEntries>>
ocsp == <<cache, seen, asked, late>>
vars == <<revoked, publication, locks, kmsUp, pc, work, draft, ocsp, told, failures>>

(* Types: the publication, locks with one holder or none, the publishers. *)
TypeOK ==
    /\ revoked \subseteq Certs /\ entries \subseteq Certs
    /\ number \in 0 .. MaxNumber
    /\ age \in {"fresh", "due", "past"}
    /\ lastError \in BOOLEAN /\ cooling \in BOOLEAN /\ kmsUp \in BOOLEAN
    /\ cache \in [Certs -> {"none", "issued", "revoked"}]
    /\ certLock \in [Certs -> Publishers \union {Free}]
    /\ crlLock \in Publishers \union {Free}
    /\ pc \in [Publishers -> {"idle", "next", "row", "read", "lock", "publish", "commit"}]
    /\ batch \in [Publishers -> SUBSET Certs]
    /\ current \in [Publishers -> Certs \union {None}]
    /\ mine \in [Publishers -> SUBSET Certs] /\ purged \in [Publishers -> SUBSET Certs]
    /\ wrote \in [Publishers -> {"none", "crl", "error", "both"}]
    /\ newNumber \in [Publishers -> 0 .. MaxNumber]
    /\ newEntries \in [Publishers -> SUBSET Certs]
    /\ seen \in [Responders -> {"issued", "revoked", None}]
    /\ asked \in [Responders -> Certs \union {None}]
    /\ late \subseteq Responders
    /\ told \subseteq Certs
    /\ failures \in 0 .. MaxFailures

Init ==
    /\ revoked = {} /\ number = 0 /\ entries = {}
    /\ age = "past" /\ lastError = FALSE /\ cooling = FALSE
    /\ cache = [c \in Certs |-> "none"]
    /\ certLock = [c \in Certs |-> Free] /\ crlLock = Free
    /\ kmsUp = TRUE
    /\ pc = [p \in Publishers |-> "idle"]
    /\ batch = [p \in Publishers |-> {}]
    /\ current = [p \in Publishers |-> None]
    /\ mine = [p \in Publishers |-> {}] /\ purged = [p \in Publishers |-> {}]
    /\ wrote = [p \in Publishers |-> "none"]
    /\ newNumber = [p \in Publishers |-> 0] /\ newEntries = [p \in Publishers |-> {}]
    /\ seen = [o \in Responders |-> None] /\ asked = [o \in Responders |-> None]
    /\ late = {}
    /\ told = {}
    /\ failures = 0

-----------------------------------------------------------------------------
(* Time and the KMS.                                                         *)

Age ==
    /\ number > 0
    /\ \/ age = "fresh" /\ age' = "due"
       \/ age = "due" /\ age' = "past"
    /\ UNCHANGED <<revoked, number, entries, lastError, cooling, locks, kmsUp, pc, work,
                   draft, ocsp, told, failures>>

(* Five minutes without an attempt.                                          *)
Cool ==
    /\ cooling
    /\ cooling' = FALSE
    /\ UNCHANGED <<revoked, number, entries, age, lastError, locks, kmsUp, pc, work, draft,
                   ocsp, told, failures>>

KmsChange ==
    /\ kmsUp' = ~kmsUp
    /\ UNCHANGED <<revoked, publication, locks, pc, work, draft, ocsp, told, failures>>

-----------------------------------------------------------------------------
(* Who publishes, and why.                                                   *)

(* pki.Service.Revoke for one certificate, or the sync for a batch.          *)
StartRevoking(p, S) ==
    /\ pc[p] = "idle"
    /\ \/ p \in Admins /\ Cardinality(S) = 1
       \/ p \in Syncs /\ S # {}
    /\ pc' = [pc EXCEPT ![p] = "next"]
    /\ batch' = [batch EXCEPT ![p] = S]
    /\ UNCHANGED <<revoked, publication, locks, kmsUp, current, mine, purged, draft, ocsp,
                   told, failures>>

(* A certificate found revoked needs nothing; the sync goes on to the next.  *)
NextCertificate(p, c) ==
    /\ pc[p] = "next" /\ c \in batch[p]
    /\ batch' = [batch EXCEPT ![p] = @ \ {c}]
    /\ IF c \in revoked
       THEN UNCHANGED <<pc, current>>
       ELSE /\ pc' = [pc EXCEPT ![p] = "row"]
            /\ current' = [current EXCEPT ![p] = c]
    /\ UNCHANGED <<revoked, publication, locks, kmsUp, mine, purged, draft, ocsp, told,
                   failures>>

(* The conditional UPDATE waits for the row; the OCSP response goes with it. *)
RevokeCertificate(p) ==
    /\ pc[p] = "row"
    /\ certLock[current[p]] = Free
    /\ current[p] \notin revoked
    /\ certLock' = [certLock EXCEPT ![current[p]] = p]
    /\ mine' = [mine EXCEPT ![p] = @ \union {current[p]}]
    /\ purged' = [purged EXCEPT ![p] =
                     IF cache[current[p]] = "none" THEN @ ELSE @ \union {current[p]}]
    /\ pc' = [pc EXCEPT ![p] = "lock"]
    /\ UNCHANGED <<revoked, publication, crlLock, kmsUp, batch, current, draft, ocsp,
                   told, failures>>

(* The row it waited for is revoked by now: sql.ErrNoRows.                   *)
AlreadyRevoked(p) ==
    /\ pc[p] = "row"
    /\ certLock[current[p]] = Free
    /\ current[p] \in revoked
    /\ pc' = [pc EXCEPT ![p] = "next"]
    /\ current' = [current EXCEPT ![p] = None]
    /\ UNCHANGED <<revoked, publication, locks, kmsUp, batch, mine, purged, draft, ocsp,
                   told, failures>>

(* Fault: a failed publication waits until the CRL is due.                   *)
FaultForgotten == number = 0 \/ age # "fresh"

(* Fault: a CRL is renewed only once it has expired.                         *)
FaultOverdue == number = 0 \/ lastError \/ age = "past"

(* The worker's test.                                                        *)
NeedsRenewal == number = 0 \/ lastError \/ age # "fresh"

(* EnsureFreshCRL: an error less than five minutes old is not retried.       *)
MustPublish == IF lastError THEN ~cooling ELSE number = 0 \/ age # "fresh"

StartRenewal(p) ==
    /\ p \in Workers /\ pc[p] = "idle"
    /\ NeedsRenewal
    /\ pc' = [pc EXCEPT ![p] = "lock"]
    /\ UNCHANGED <<revoked, publication, locks, kmsUp, work, draft, ocsp, told, failures>>

(* The console's republish asks no questions.                                *)
StartRepublish(p) ==
    /\ p \in Workers /\ pc[p] = "idle"
    /\ pc' = [pc EXCEPT ![p] = "lock"]
    /\ UNCHANGED <<revoked, publication, locks, kmsUp, work, draft, ocsp, told, failures>>

(* A fetch that is served what is there changes nothing and is left out.     *)
StartFetch(p) ==
    /\ p \in Fetches /\ pc[p] = "idle"
    /\ MustPublish
    /\ pc' = [pc EXCEPT ![p] = "lock"]
    /\ UNCHANGED <<revoked, publication, locks, kmsUp, work, draft, ocsp, told, failures>>

-----------------------------------------------------------------------------
(* PublishCRL.                                                               *)

(* Fault: the lock is left out.                                              *)
FaultLockCRL(p) ==
    /\ pc[p] = "lock"
    /\ pc' = [pc EXCEPT ![p] = "publish"]
    /\ UNCHANGED <<revoked, publication, locks, kmsUp, work, draft, ocsp, told, failures>>

LockCRL(p) ==
    /\ pc[p] = "lock"
    /\ crlLock \in {Free, p}
    /\ crlLock' = p
    /\ pc' = [pc EXCEPT ![p] = "publish"]
    /\ UNCHANGED <<revoked, publication, certLock, kmsUp, work, draft, ocsp, told, failures>>

(* Where the caller goes on after PublishCRL returned.                       *)
Resume(p) == IF p \in Admins \union Syncs THEN "next" ELSE "commit"


Listed(p) == revoked \union mine[p]

HasCrl(p) == wrote[p] \in {"crl", "both"}

NumberSeen(p) == IF HasCrl(p) THEN newNumber[p] ELSE number

NextNumber(p) == IF NumberSeen(p) < MaxNumber THEN NumberSeen(p) + 1 ELSE MaxNumber

(* Fault: the CRL is saved outside the transaction of the revocation.        *)
FaultPublishCRL(p) ==
    /\ pc[p] = "publish"
    /\ kmsUp
    /\ number' = NextNumber(p) /\ entries' = Listed(p)
    /\ age' = "fresh" /\ lastError' = FALSE /\ cooling' = TRUE
    /\ current' = [current EXCEPT ![p] = None]
    /\ pc' = [pc EXCEPT ![p] = Resume(p)]
    /\ UNCHANGED <<revoked, locks, kmsUp, batch, mine, purged, draft, ocsp, told, failures>>

PublishCRL(p) ==
    /\ pc[p] = "publish"
    /\ kmsUp
    /\ wrote' = [wrote EXCEPT ![p] = "crl"]
    /\ newEntries' = [newEntries EXCEPT ![p] = Listed(p)]
    /\ newNumber' = [newNumber EXCEPT ![p] = NextNumber(p)]
    /\ current' = [current EXCEPT ![p] = None]
    /\ pc' = [pc EXCEPT ![p] = Resume(p)]
    /\ UNCHANGED <<revoked, publication, locks, kmsUp, batch, mine, purged, ocsp, told,
                   failures>>

(* Fault: a failed publication leaves no trace.                              *)
FaultNoted(p) == UNCHANGED wrote

(* SaveCRLError, beside a CRL this transaction may have saved before.        *)
Noted(p) == wrote' = [wrote EXCEPT ![p] = IF HasCrl(p) THEN "both" ELSE "error"]

(* The KMS does not sign: the error is saved and, but for a fetch, swallowed. *)
PublishFails(p) ==
    /\ pc[p] = "publish"
    /\ ~kmsUp
    /\ Noted(p)
    /\ current' = [current EXCEPT ![p] = None]
    /\ pc' = [pc EXCEPT ![p] = IF p \in Fetches THEN "next" ELSE Resume(p)]
    /\ UNCHANGED <<revoked, publication, locks, kmsUp, batch, mine, purged, newNumber,
                   newEntries, ocsp, told, failures>>

-----------------------------------------------------------------------------
(* The end of a transaction.                                                 *)

End(p) ==
    /\ pc' = [pc EXCEPT ![p] = "idle"]
    /\ batch' = [batch EXCEPT ![p] = {}]
    /\ current' = [current EXCEPT ![p] = None]
    /\ mine' = [mine EXCEPT ![p] = {}] /\ purged' = [purged EXCEPT ![p] = {}]
    /\ wrote' = [wrote EXCEPT ![p] = "none"]
    /\ newNumber' = [newNumber EXCEPT ![p] = 0]
    /\ newEntries' = [newEntries EXCEPT ![p] = {}]
    /\ certLock' = [c \in Certs |-> IF certLock[c] = p THEN Free ELSE certLock[c]]
    /\ crlLock' = IF crlLock = p THEN Free ELSE crlLock

Done(p) ==
    \/ pc[p] = "commit"
    \/ pc[p] = "next" /\ batch[p] = {} /\ p \notin Fetches

Commit(p) ==
    /\ Done(p)
    /\ revoked' = revoked \union mine[p]
    /\ cache' = [c \in Certs |-> IF c \in purged[p] THEN "none" ELSE cache[c]]
    /\ IF HasCrl(p)
       THEN number' = newNumber[p] /\ entries' = newEntries[p] /\ age' = "fresh"
       ELSE UNCHANGED <<number, entries, age>>
    /\ IF wrote[p] = "none"
       THEN UNCHANGED <<lastError, cooling>>
       ELSE lastError' = (wrote[p] # "crl") /\ cooling' = TRUE
    /\ told' = IF p \in Admins THEN told \union mine[p] ELSE told
    /\ End(p)
    /\ UNCHANGED <<kmsUp, seen, asked, late, failures>>

(* publicContext rolls back when EnsureFreshCRL returns an error, and with   *)
(* it what SaveCRLError wrote.                                               *)
FetchFails(p) ==
    /\ p \in Fetches /\ pc[p] = "next"
    /\ End(p)
    /\ UNCHANGED <<revoked, publication, kmsUp, ocsp, told, failures>>

Fail(p) ==
    /\ pc[p] # "idle"
    /\ failures < MaxFailures
    /\ failures' = failures + 1
    /\ End(p)
    /\ UNCHANGED <<revoked, publication, kmsUp, ocsp, told>>

(* Who holds what p waits for.                                               *)
WaitsFor(p, q) ==
    \/ pc[p] = "row" /\ certLock[current[p]] = q /\ p # q
    \/ pc[p] = "lock" /\ crlLock = q /\ p # q

(* PostgreSQL ends a deadlock by failing one waiter's statement.  When that  *)
(* is LockCRL, Revoke ignores it, the console answers that the certificate   *)
(* is revoked, and the COMMIT of the failed transaction is a rollback.       *)
DeadlockVictim(p) ==
    /\ \E q \in Publishers : WaitsFor(p, q) /\ WaitsFor(q, p)
    /\ told' = IF p \in Admins /\ pc[p] = "lock" THEN told \union mine[p] ELSE told
    /\ End(p)
    /\ UNCHANGED <<revoked, publication, kmsUp, ocsp, failures>>

-----------------------------------------------------------------------------
(* OCSP: the status is read first; a cached response is used, and a new one  *)
(* signed and stored, for that status.                                       *)


StatusOf(c) == IF c \in revoked THEN "revoked" ELSE "issued"

OCSPRead(o, c) ==
    /\ asked[o] = None
    /\ asked' = [asked EXCEPT ![o] = c]
    /\ seen' = [seen EXCEPT ![o] = StatusOf(c)]
    /\ late' = IF c \in revoked THEN late \union {o} ELSE late
    /\ UNCHANGED <<revoked, publication, locks, kmsUp, pc, work, draft, cache, told, failures>>

(* Fault: the cache is asked for the serial alone.                           *)
FaultCached(o) == IF cache[asked[o]] = "none" THEN {} ELSE {cache[asked[o]]}

(* CachedOCSP: the stored responses that match the status that was read.     *)
Cached(o) == IF cache[asked[o]] = seen[o] THEN {cache[asked[o]]} ELSE {}

(* What o may be answered: a cached response if there is one, or (none, or   *)
(* none that lasts another hour) a new one.                                  *)
Answers(o) == IF asked[o] = None THEN {} ELSE Cached(o) \union {seen[o]}

OCSPRespond(o, answer) ==
    /\ asked[o] # None
    /\ \/ answer \in Cached(o) /\ UNCHANGED cache
       \/ /\ answer = seen[o]
          /\ kmsUp
          /\ \A p \in Publishers : asked[o] \notin purged[p]
          /\ cache' = [cache EXCEPT ![asked[o]] = answer]
    /\ seen' = [seen EXCEPT ![o] = None]
    /\ asked' = [asked EXCEPT ![o] = None]
    /\ late' = late \ {o}
    /\ UNCHANGED <<revoked, publication, locks, kmsUp, pc, work, draft, told, failures>>

(* The KMS does not sign, or the transaction fails: tryLater.                *)
OCSPFail(o) ==
    /\ asked[o] # None
    /\ seen' = [seen EXCEPT ![o] = None]
    /\ asked' = [asked EXCEPT ![o] = None]
    /\ late' = late \ {o}
    /\ UNCHANGED <<revoked, publication, locks, kmsUp, pc, work, draft, cache, told, failures>>

-----------------------------------------------------------------------------
Publish(p) == LockCRL(p) \/ PublishCRL(p) \/ PublishFails(p) \/ Commit(p) \/ FetchFails(p)

Revoke(p) == RevokeCertificate(p) \/ AlreadyRevoked(p) \/ DeadlockVictim(p)
             \/ \E c \in Certs : NextCertificate(p, c)

Next ==
    \/ Age \/ Cool \/ KmsChange
    \/ \E p \in Publishers, S \in SUBSET Certs : StartRevoking(p, S)
    \/ \E p \in Publishers : StartRenewal(p) \/ StartRepublish(p) \/ StartFetch(p)
    \/ \E p \in Publishers : Publish(p) \/ Revoke(p) \/ Fail(p)
    \/ \E o \in Responders, answer \in {"issued", "revoked"} : OCSPRespond(o, answer)
    \/ \E o \in Responders : OCSPFail(o) \/ \E c \in Certs : OCSPRead(o, c)

Spec == Init /\ [][Next]_vars

(* Handlers and the worker run on, and locks are granted first come, first   *)
(* served, so that one who waits again and again is served; the worker's     *)
(* hour comes.  Nothing is assumed of administrators, fetches or the KMS.    *)
Fairness ==
    \A p \in Publishers : SF_vars(Publish(p) \/ Revoke(p)) /\ WF_vars(StartRenewal(p))

FairSpec == Spec /\ Fairness

-----------------------------------------------------------------------------
(* What must hold.                                                           *)

(* service.go: "PublishCRL records the error and the renewal worker retries  *)
(* it": a committed revocation is in the committed CRL, or the row says that *)
(* a publication failed.                                                     *)
MissingIsNoted == revoked \subseteq entries \/ lastError

(* A CRL never names a certificate whose revocation was rolled back, nor one *)
(* that another transaction may still roll back.                             *)
EntriesAreRevoked == entries \subseteq revoked

(* A serial once on the CRL stays on it, whichever publisher commits last.   *)
EntriesStay == entries \subseteq entries'

(* Relying parties order CRLs by number: a CRL that differs has a greater    *)
(* one (up to the bound), also when a slow publisher commits after a quick.  *)
NumberGrows ==
    /\ number' >= number
    /\ entries' # entries /\ number < MaxNumber => number' > number

(* An OCSP request that began after the revocation committed is not told     *)
(* good, although a response signed before may still be in the cache.        *)
NoGoodAfterRevocation == \A o \in late : Answers(o) \subseteq {"revoked"}

(* With the KMS back for good, every revocation reaches the CRL: the hourly  *)
(* worker is enough, whatever fetches do.                                    *)
RevocationIsListed ==
    <>[]kmsUp => \A c \in Certs : c \in revoked ~> c \in entries

(* And a CRL that is due or past its next update is renewed by the worker.   *)
CRLIsRenewed == <>[]kmsUp => (age # "fresh" ~> age = "fresh")

(* service.go: "Revocation is permanent even when KMS publication is         *)
(* temporarily down": what the console calls revoked is revoked.             *)
ToldRevokedIsRevoked == told \subseteq revoked

(* Lists and numbers only grow, whoever publishes (PublishCRL,                *)
(* revocation.go).                                                            *)
ListsGrow ==
    [][/\ EntriesStay
       /\ NumberGrows
       /\ TypeOK']_vars
=============================================================================

------------------------------ MODULE AcmeOrder ------------------------------
(* Finalizing ACME orders.  Several requests run at once, each in a database *)
(* transaction of its own (READ COMMITTED); the hourly sweep runs beside     *)
(* them in another.  The tables hold committed rows: a transaction's writes  *)
(* stay in its own record until it commits, its row locks until it ends.     *)
EXTENDS Naturals, FiniteSets

CONSTANTS
    Requests,       \* HTTP requests in flight
    Orders,         \* order identifiers NewOrder may mint
    Accounts,       \* accounts of the endpoint
    Certs,          \* serial numbers signLeaf may draw
    MaxFailures,    \* bound on failed transactions (crash, database error)
    NoCert, Refusal, NoOrder, NoAccount, Free, Sweeper

ASSUME AcmeOrderAssumption ==
    /\ NoCert \notin Certs /\ Refusal \notin Certs /\ NoCert # Refusal
    /\ NoOrder \notin Orders /\ NoAccount \notin Accounts
    /\ Free \notin Requests /\ Sweeper \notin Requests /\ Free # Sweeper
    /\ MaxFailures \in Nat

VARIABLES
    status,         \* acme_order.status, "absent" before NewOrder
    owner,          \* acme_order.acme_account_id
    cert,           \* acme_order.certificate_id
    expired,        \* orders whose expires_at has passed
    authorized,     \* orders whose acme_authorization rows are still valid
    recorded,       \* certificate rows: the order each serial was issued for
    signed,         \* serials the CA key has signed, whether kept or not
    caActive,       \* the endpoint's issuing CA is active
    pc,             \* where each request is
    named,          \* the order in its URL
    caller,         \* the account that signed it
    pending,        \* its uncommitted write: a serial, FailOrder's, or none
    orgLock,        \* holder of the organization's advisory lock
    rowLock,        \* holder of the lock on each order row
    sweeping,       \* the sweep's transaction is open
    horizon,        \* orders that had expired when it began
    todo,           \* rows its UPDATE has still to visit
    hits,           \* rows it has locked and will retire
    told,           \* what finalize has answered about each order
    failures        \* failed transactions so far

order == <<status, owner, cert>>
tables == <<order, authorized, recorded>>
request == <<named, caller, pending>>
locks == <<orgLock, rowLock>>
sweep == <<sweeping, horizon, todo, hits>>
vars == <<tables, expired, signed, caActive, pc, request, locks, sweep, told, failures>>

(* Types: rows, locks with one holder or none, the sweep and the requests.*)
TypeOK ==
    /\ status \in [Orders -> {"absent", "ready", "valid", "invalid"}]
    /\ owner \in [Orders -> Accounts \union {NoAccount}]
    /\ cert \in [Orders -> Certs \union {NoCert}]
    /\ expired \subseteq Orders /\ authorized \subseteq Orders
    /\ recorded \in [Certs -> Orders \union {NoOrder}]
    /\ signed \subseteq Certs
    /\ caActive \in BOOLEAN
    /\ pc \in [Requests -> {"idle", "lock", "select", "check", "issue",
                            "reply", "commit", "reject"}]
    /\ named \in [Requests -> Orders \union {NoOrder}]
    /\ caller \in [Requests -> Accounts \union {NoAccount}]
    /\ pending \in [Requests -> Certs \union {NoCert, Refusal}]
    /\ orgLock \in Requests \union {Free}
    /\ rowLock \in [Orders -> Requests \union {Free, Sweeper}]
    /\ sweeping \in BOOLEAN
    /\ horizon \subseteq Orders /\ todo \subseteq Orders /\ hits \subseteq Orders
    /\ told \in [Orders -> SUBSET {"valid", "refused"}]
    /\ failures \in 0 .. MaxFailures

Init ==
    /\ status = [o \in Orders |-> "absent"]
    /\ owner = [o \in Orders |-> NoAccount]
    /\ cert = [o \in Orders |-> NoCert]
    /\ expired = {} /\ authorized = {} /\ signed = {}
    /\ recorded = [c \in Certs |-> NoOrder]
    /\ caActive = TRUE
    /\ pc = [p \in Requests |-> "idle"]
    /\ named = [p \in Requests |-> NoOrder]
    /\ caller = [p \in Requests |-> NoAccount]
    /\ pending = [p \in Requests |-> NoCert]
    /\ orgLock = Free
    /\ rowLock = [o \in Orders |-> Free]
    /\ sweeping = FALSE /\ horizon = {} /\ todo = {} /\ hits = {}
    /\ told = [o \in Orders |-> {}]
    /\ failures = 0

-----------------------------------------------------------------------------
(* Outside the finalize path.                                                *)

(* The order and its authorizations, created valid, in one transaction no    *)
(* other can see into before it commits.                                     *)
NewOrder(o, a) ==
    /\ status[o] = "absent"
    /\ status' = [status EXCEPT ![o] = "ready"]
    /\ owner' = [owner EXCEPT ![o] = a]
    /\ authorized' = authorized \union {o}
    /\ UNCHANGED <<cert, expired, recorded, signed, caActive, pc, request, locks, sweep, told, failures>>

(* Seven days pass for an order; its authorizations expire with it.          *)
Expire(o) ==
    /\ status[o] # "absent"
    /\ expired' = expired \union {o}
    /\ UNCHANGED <<tables, signed, caActive, pc, request, locks, sweep, told, failures>>

SetCAStatus ==
    /\ caActive' = ~caActive
    /\ UNCHANGED <<tables, expired, signed, pc, request, locks, sweep, told, failures>>

-----------------------------------------------------------------------------
(* Finalize.                                                                 *)

(* Any account may name any order: the URL is the client's to write.         *)
Receive(p, o, a) ==
    /\ pc[p] = "idle"
    /\ status[o] # "absent"
    /\ pc' = [pc EXCEPT ![p] = "lock"]
    /\ named' = [named EXCEPT ![p] = o]
    /\ caller' = [caller EXCEPT ![p] = a]
    /\ UNCHANGED <<tables, expired, signed, caActive, pending, locks, sweep, told, failures>>

LockOrganization(p) ==
    /\ pc[p] = "lock"
    /\ orgLock = Free
    /\ orgLock' = p
    /\ pc' = [pc EXCEPT ![p] = "select"]
    /\ UNCHANGED <<tables, expired, signed, caActive, request, rowLock, sweep, told, failures>>

(* Fault: a finalize that succeeded is not recognised when it is repeated.   *)
FaultVerdict(p) ==
    IF owner[named[p]] # caller[p] \/ named[p] \in expired THEN "reject" ELSE "check"

(* What the locked row says to do: a repeat of a finalize that succeeded is  *)
(* answered with its result, anything not ready or too late is refused.      *)
Verdict(p) ==
    IF owner[named[p]] # caller[p] THEN "reject"
    ELSE IF status[named[p]] = "valid" THEN "reply"
    ELSE IF status[named[p]] # "ready" \/ named[p] \in expired THEN "reject"
    ELSE "check"

(* Fault: a plain SELECT, which neither waits for the row nor locks it.      *)
FaultOrderForUpdate(p) ==
    /\ pc[p] = "select"
    /\ pc' = [pc EXCEPT ![p] = Verdict(p)]
    /\ UNCHANGED <<tables, expired, signed, caActive, request, locks, sweep, told, failures>>

(* SELECT ... FOR UPDATE waits for the row, then reads what was committed.   *)
OrderForUpdate(p) ==
    /\ pc[p] = "select"
    /\ rowLock[named[p]] = Free
    /\ rowLock' = [rowLock EXCEPT ![named[p]] = p]
    /\ pc' = [pc EXCEPT ![p] = Verdict(p)]
    /\ UNCHANGED <<tables, expired, signed, caActive, request, orgLock, sweep, told, failures>>

(* The CSR's key, names and subject, against the authorizations: the request *)
(* carries whatever CSR its client made.                                     *)
CheckRequest(p) ==
    /\ pc[p] = "check"
    /\ \/ named[p] \in authorized /\ pc' = [pc EXCEPT ![p] = "issue"]
       \/ pc' = [pc EXCEPT ![p] = "reject"]
    /\ UNCHANGED <<tables, expired, signed, caActive, request, locks, sweep, told, failures>>

(* Fault: the last check of the CSR comes after the signature.               *)
FaultIssue(p, c) ==
    /\ pc[p] = "issue" /\ caActive /\ c \notin signed
    /\ signed' = signed \union {c}
    /\ \/ /\ pc' = [pc EXCEPT ![p] = "reply"]
          /\ pending' = [pending EXCEPT ![p] = c]
       \/ pc' = [pc EXCEPT ![p] = "reject"] /\ UNCHANGED pending
    /\ UNCHANGED <<tables, expired, caActive, named, caller, locks, sweep, told, failures>>

(* The CA signs, the certificate row and the completed order are written.    *)
Issue(p, c) ==
    /\ pc[p] = "issue"
    /\ caActive
    /\ c \notin signed
    /\ signed' = signed \union {c}
    /\ pc' = [pc EXCEPT ![p] = "reply"]
    /\ pending' = [pending EXCEPT ![p] = c]
    /\ UNCHANGED <<tables, expired, caActive, named, caller, locks, sweep, told, failures>>

(* The CA is not active, its policy refuses the CSR or the KMS call fails:   *)
(* FailOrder writes the reason on the order.                                 *)
IssueRefused(p) ==
    /\ pc[p] = "issue"
    /\ pc' = [pc EXCEPT ![p] = "reject"]
    /\ pending' = [pending EXCEPT ![p] = Refusal]
    /\ UNCHANGED <<tables, expired, signed, caActive, named, caller, locks, sweep, told, failures>>

(* The response is written before the transaction commits.                   *)
Reply(p) ==
    /\ pc[p] = "reply"
    /\ pc' = [pc EXCEPT ![p] = "commit"]
    /\ told' = [told EXCEPT ![named[p]] = @ \union {"valid"}]
    /\ UNCHANGED <<tables, expired, signed, caActive, request, locks, sweep, failures>>

(* Fault: a session lock where the transaction lock was meant.               *)
FaultUnlock(p) ==
    /\ rowLock' = [o \in Orders |-> IF rowLock[o] = p THEN Free ELSE rowLock[o]]
    /\ UNCHANGED orgLock

(* Both locks belong to the transaction and end with it.                     *)
Unlock(p) ==
    /\ orgLock' = IF orgLock = p THEN Free ELSE orgLock
    /\ rowLock' = [o \in Orders |-> IF rowLock[o] = p THEN Free ELSE rowLock[o]]

EndRequest(p) ==
    /\ pc' = [pc EXCEPT ![p] = "idle"]
    /\ named' = [named EXCEPT ![p] = NoOrder]
    /\ caller' = [caller EXCEPT ![p] = NoAccount]
    /\ pending' = [pending EXCEPT ![p] = NoCert]
    /\ Unlock(p)

Commit(p) ==
    /\ pc[p] = "commit"
    /\ \/ /\ pending[p] \in Certs
          /\ status' = [status EXCEPT ![named[p]] = "valid"]
          /\ cert' = [cert EXCEPT ![named[p]] = pending[p]]
          /\ recorded' = [recorded EXCEPT ![pending[p]] = named[p]]
       \/ pending[p] = NoCert /\ UNCHANGED <<status, cert, recorded>>
    /\ EndRequest(p)
    /\ UNCHANGED <<owner, authorized, expired, signed, caActive, sweep, told, failures>>

(* An error from dispatch: the transaction is discarded, FailOrder with it,  *)
(* and the problem document is sent.                                         *)
Reject(p) ==
    /\ pc[p] = "reject"
    /\ told' = IF pending[p] = Refusal
               THEN [told EXCEPT ![named[p]] = @ \union {"refused"}] ELSE told
    /\ EndRequest(p)
    /\ UNCHANGED <<tables, expired, signed, caActive, sweep, failures>>

(* A crash, a database error or a failed COMMIT: the transaction is gone.    *)
Fail(p) ==
    /\ pc[p] # "idle"
    /\ failures < MaxFailures
    /\ failures' = failures + 1
    /\ EndRequest(p)
    /\ UNCHANGED <<tables, expired, signed, caActive, sweep, told>>

-----------------------------------------------------------------------------
(* The sweep: one transaction for the organization, one row lock at a time.  *)

(* LOCALTIMESTAMP is fixed when the transaction starts.                      *)
SweepStart ==
    /\ ~sweeping
    /\ \E o \in expired : status[o] = "ready" \/ o \in authorized
    /\ sweeping' = TRUE
    /\ horizon' = expired
    /\ todo' = {o \in expired : status[o] = "ready"}
    /\ UNCHANGED <<tables, expired, signed, caActive, pc, request, locks, hits, told, failures>>

(* Fault: the predicate is not tested again on the row the UPDATE waited for. *)
FaultStillReady(o) == TRUE

StillReady(o) == status[o] = "ready"

(* Fault: FOR UPDATE SKIP LOCKED, for a sweep that never waits.              *)
FaultSweepOrder(o) ==
    /\ sweeping /\ o \in todo
    /\ todo' = todo \ {o}
    /\ IF rowLock[o] = Free /\ StillReady(o)
       THEN rowLock' = [rowLock EXCEPT ![o] = Sweeper] /\ hits' = hits \union {o}
       ELSE UNCHANGED <<rowLock, hits>>
    /\ UNCHANGED <<tables, expired, signed, caActive, pc, request, orgLock,
                   sweeping, horizon, told, failures>>

(* The UPDATE waits for each row it found and tests the predicate again.     *)
SweepOrder(o) ==
    /\ sweeping /\ o \in todo
    /\ rowLock[o] = Free
    /\ todo' = todo \ {o}
    /\ IF StillReady(o)
       THEN rowLock' = [rowLock EXCEPT ![o] = Sweeper] /\ hits' = hits \union {o}
       ELSE UNCHANGED <<rowLock, hits>>
    /\ UNCHANGED <<tables, expired, signed, caActive, pc, request, orgLock,
                   sweeping, horizon, told, failures>>

EndSweep ==
    /\ sweeping' = FALSE /\ horizon' = {} /\ todo' = {} /\ hits' = {}
    /\ rowLock' = [o \in Orders |-> IF rowLock[o] = Sweeper THEN Free ELSE rowLock[o]]

(* Fault: orders are given the status meant for their authorizations.        *)
FaultSweepCommit ==
    /\ sweeping /\ todo = {}
    /\ status' = [o \in Orders |-> IF o \in hits THEN "expired" ELSE status[o]]
    /\ authorized' = authorized \ horizon
    /\ EndSweep
    /\ UNCHANGED <<owner, cert, recorded, expired, signed, caActive, pc, request,
                   orgLock, told, failures>>

(* The orders and the authorizations under them, in one commit.              *)
SweepCommit ==
    /\ sweeping /\ todo = {}
    /\ status' = [o \in Orders |-> IF o \in hits THEN "invalid" ELSE status[o]]
    /\ authorized' = authorized \ horizon
    /\ EndSweep
    /\ UNCHANGED <<owner, cert, recorded, expired, signed, caActive, pc, request,
                   orgLock, told, failures>>

SweepFail ==
    /\ sweeping
    /\ failures < MaxFailures
    /\ failures' = failures + 1
    /\ EndSweep
    /\ UNCHANGED <<tables, expired, signed, caActive, pc, request, orgLock, told>>

-----------------------------------------------------------------------------
Finalize(p) ==
    \/ LockOrganization(p) \/ OrderForUpdate(p) \/ CheckRequest(p) \/ IssueRefused(p)
    \/ Reply(p) \/ Commit(p) \/ Reject(p)
    \/ \E c \in Certs : Issue(p, c)

ExpireOrders == SweepStart \/ SweepCommit \/ \E o \in Orders : SweepOrder(o)

Next ==
    \/ \E o \in Orders, a \in Accounts : NewOrder(o, a)
    \/ \E o \in Orders : Expire(o)
    \/ SetCAStatus
    \/ \E p \in Requests, o \in Orders, a \in Accounts : Receive(p, o, a)
    \/ \E p \in Requests : Finalize(p) \/ Fail(p)
    \/ ExpireOrders \/ SweepFail

Spec == Init /\ [][Next]_vars

(* A request's goroutine and the sweep's ticker keep running, and PostgreSQL *)
(* queues those who wait for a lock, so a waiter is served in the end.       *)
Fairness ==
    /\ \A p \in Requests : /\ WF_vars(Finalize(p))
                           /\ SF_vars(LockOrganization(p)) /\ SF_vars(OrderForUpdate(p))
    /\ WF_vars(ExpireOrders)
    /\ \A o \in Orders : SF_vars(SweepOrder(o))

FairSpec == Spec /\ Fairness

-----------------------------------------------------------------------------
(* What must hold.                                                           *)

(* The certificate row and the order row tell the same story: an order has a *)
(* certificate exactly when it is valid, and the certificate recorded for it *)
(* is that one and no other, however finalizes, sweeps and failures mix.     *)
CertificateAndOrderAgree ==
    \A o \in Orders :
        /\ status[o] = "valid" <=> cert[o] # NoCert
        /\ \A c \in Certs : recorded[c] = o <=> cert[o] = c

(* What a finalize decided on is still so when it commits: from the moment   *)
(* it found its order ready, the row is locked by it and still ready.        *)
DecisionStands ==
    \A p \in Requests :
        pc[p] \in {"check", "issue"} \/ pending[p] # NoCert =>
            rowLock[named[p]] = p /\ status[named[p]] = "ready"

(* The idempotency check: a CA signature is lost only to a transaction that  *)
(* failed, never to a repeated or a concurrent finalize.                     *)
SignaturesAccountedFor ==
    LET inFlight == {pending[p] : p \in Requests}
    IN Cardinality({c \in signed : recorded[c] = NoOrder /\ c \notin inFlight}) <= failures

(* The sweep expires authorizations only together with their order: a client *)
(* is never left with a ready order that finalize cannot accept.             *)
ReadyOrderIsAuthorized ==
    \A o \in Orders : status[o] = "ready" => o \in authorized

(* handler.go writes the response before COMMIT: as long as no transaction   *)
(* fails, an order a client was told is valid is valid in the database or    *)
(* about to be, and no sweep takes it away.                                  *)
AnswerHolds ==
    failures = 0 => \A o \in Orders : "valid" \in told[o] =>
        \/ status[o] = "valid"
        \/ \E p \in Requests : pc[p] = "commit" /\ named[p] = o

(* The order rows implement the abstract order: one certificate or none, and *)
(* no change after the end, although CompleteOrder and FailOrder update the  *)
(* row whatever its status.                                                  *)
Lifecycle == INSTANCE OrderLifecycle WITH status <- status, cert <- cert
ImplementsLifecycle == Lifecycle!Spec

(* Every request is answered or dropped: nobody waits forever on the         *)
(* organization lock and the row locks, which the sweep takes too.           *)
RequestEnds == \A p \in Requests : pc[p] # "idle" ~> pc[p] = "idle"

(* An order whose client never came back is retired in the end.              *)
ExpiredOrderEnds ==
    \A o \in Orders : o \in expired /\ status[o] = "ready"
                      ~> status[o] \in {"valid", "invalid"}

(* What has left the process agrees with the rows, though neither a           *)
(* signature nor a response can be rolled back (service.go, handler.go).      *)
OutsideAgrees == SignaturesAccountedFor /\ AnswerHolds
=============================================================================

# SimpleSCEP in TLA+

TLA+ models of SimpleSCEP, a self-hosted certificate authority that enrols
devices over SCEP, ACME and EST, with the TLC instances that check them and the
TLAPS proofs about them. Paths below are relative to `src/`.

## 1. The system

One Go process serves the console, the three enrolment protocols and the public
CRL/OCSP endpoints from one PostgreSQL database; private keys live in a key
provider (Google Cloud KMS or Azure Key Vault). Everything hard about it
happens at the boundary of a database transaction.

| component | state it keeps | operations | correct when |
|---|---|---|---|
| ACME orders (`internal/acme`) | `acme_order`, `acme_authorization`, `acme_challenge` | new-order, finalize, poll, hourly expiry | an order gets one certificate or is retired, never both, never twice |
| ACME accounts (`internal/acme`) | `acme_account`, `acme_nonce`, `acme_eab_credential` | new-nonce, new-account, update, deactivate, key-change; console: create and revoke a credential | single-use things are used once; a revoked credential stops its accounts |
| ACME certificates, endpoints, JWS | `acme_endpoint` | download, revoke-cert, endpoint set-up, signature verification | an account reaches its own things only; a signed request is acted on once, as signed |
| Issuance and CAs (`internal/pki/service.go`) | `certificate_authority`, `certificate`, KMS key versions | create, rotate, switch, delete a CA; issue; revoke | keys and CAs belong together; no CA removed under an endpoint; a certificate says what policy permits |
| CRL and OCSP (`internal/pki/revocation.go`, `public.go`, `worker.go`) | `crl_publication`, `ocsp_response_cache` | publish, renew, fetch; respond | every committed revocation is on the CRL or noted as missing and retried; lists and numbers only grow |
| CA import, key providers | `ca_import_job` | wrapped-key import, signing, destruction | an imported CA signs with the key its certificate was made for |
| Expiry alerts | marks on certificates | hourly mail | each expiry is announced, once |
| SCEP enrolment (`internal/scep`) | `scep_transaction`, `scep_challenge` | GetCACert, PKIOperation (enrol, retry, renew) | one certificate for one transaction id, one for one challenge |
| SCEP configuration and Intune | `scep_endpoint`, `scep_auth_method`, Intune connection, caches of tokens | enable, methods, secrets, Microsoft consent, revocation sync | what is on can be used; Microsoft and the CA agree |
| EST enrolment (`internal/est`) | `est_endpoint`, `est_credential`, `est_enrollment` | simpleenroll, simplereenroll | a renewal is pinned to the certificate it renews |
| Sign-in (`internal/auth`) | `login_challenge`, sessions, TOTP, recovery codes, passkeys | magic link, second factor, enrolment of factors, recovery | codes and links are spent once, attempts are counted |
| Team (`internal/auth`) | users, invitations | setup, invite, accept, role, remove | each invitation is decided once; who is removed is out |
| Middleware, mail, audit, workers, server | rate-limit buckets, the connection pool, audit rows, applied migrations | request context, mail, hourly loops, start and stop | budgets hold under a flood; a process is migrated before it serves |

### How requests meet

* One request is one PostgreSQL transaction at READ COMMITTED: every statement
  sees what was committed when it began and the transaction's own writes; row
  locks and transaction-level advisory locks last until COMMIT or ROLLBACK.
* ACME (`acme/handler.go:93-149`): the handler writes the response inside
  `dispatch`, then commits. Any error rolls everything back, including what the
  error path has just written. EST (`est/handler.go:131-152`) does the same and
  records a refusal in a second transaction.
* SCEP (`scep/handler.go:99-188`): commit first, then the response. After an
  error the transaction is rolled back and `RecordFailure` runs in a second one.
* Public CRL and OCSP (`pki/public.go`): an error rolls back.
* Console (`middleware/auth.go`): the handler answers, then the middleware
  commits whatever the handler did.
* Workers (`worker/worker.go`): an hourly loop each; a transaction per
  organization, or one for the batch.
* Locks: an advisory lock per organization (ACME finalize, PKIOperation), an
  advisory lock per CA (`LockCRL`), row locks by `FOR UPDATE` and by `UPDATE`,
  unique indexes and foreign keys.

What is hard, then: two transactions in an order nobody tested; a check made
before a wait and used after it; a signature, a key or a message to Microsoft
that cannot be rolled back with the transaction that caused it; error paths
whose writes disappear; lock orders; and work that only an hourly loop will
finish. `PROJECT.json` lists these hazards at their lines.

## 2. Modules

| module | models | state ↔ code |
|---|---|---|
| `OrderLifecycle` | what an ACME order promises | `status`, `cert` of an order; Create, Issue, Retire |
| `AcmeOrder` | finalize and the expiry sweep | `acme_order` and `certificate` rows, the organization lock, row locks |
| `ScepTransaction` | what SCEP promises of a transaction id | the status of each id, what devices were told; Grant, NoteFailure |
| `AcmeAccount` | nonces, accounts, external account credentials | rows, locks on rows and on the unique index of key thumbprints |
| `AcmeService` | ACME endpoints, minting of credentials, what an account may read, revoke-cert | `acme_endpoint`, credentials, accounts, certificates, requests between authentication and effect |
| `AcmeRequest` | the signed envelope | nonces handed out and unspent, accounts with thumbprint and key, what was acted on |
| `CrlPublication` | revocation, CRL, OCSP cache | `crl_publication`, revoked certificates, the cache, `LockCRL`, row locks, the KMS |
| `Authorities` | life cycle of CAs and their keys | `certificate_authority`, key versions, one endpoint of some protocol bound to a CA, the signing audit |
| `CaImport` | the import of a CA with its key | `ca_import_job`, the provider's job, polls, submissions, cancellations; extends `Authorities` |
| `IssuancePolicy` | the checks from CSR to certificate | profiles of root and CA, policy of an endpoint, pin of a challenge, credential or order, the certificate |
| `ExpiryAlerts` | the mail about expiring certificates | marks, settings, administrators, one sweep for each replica |
| `EstEnrollment` | simpleenroll and simplereenroll | `est_endpoint`, credentials, certificates with enrollment rows, requests |
| `ScepEnrollment` | PKIOperation | `scep_transaction`, `scep_challenge`, methods, certificates, the organization lock |
| `ScepConfig` | the console side of SCEP | endpoints, methods, secrets, challenges minted, the Intune connection |
| `IntuneConnection` | the two redirects of the consent | the signed cookie, tabs, answers of Microsoft, the connection |
| `IntuneClient` | calls to Microsoft | caches of tokens and service maps, calls under way, Microsoft's grants |
| `IntuneSync` | the hourly revocation sync | Microsoft's queue, endpoints of one CA, certificates, the pass |
| `SignIn` | from link to session, the security panel | `magic_link`, `login_challenge`, `totp_credential`, recovery codes, passkeys, sessions |
| `Team` | setup, invitations, roles, removal | users, invitations, the trail link → challenge → session of each person |
| `RateLimiter` | `Allow` | the bucket map, the time of the last sweep |
| `ConnectionPool` | connections of requests | how many each holds |
| `Server` | start, migrations, serving, shutdown | applied and recorded migrations, `_lock`, the stage of each instance |
| `...MC` | instances for TLC | model values, symmetry; `ConsoleMC`, `AuthoritiesMC` and `EndpointsMC` each hold several parts |
| `AcmeOrder_proofs`, `AcmeAccount_proofs`, `ScepEnrollment_proofs` | theorems about the module of that name | |
| `CrlPublication_proofs` | theorems about `CrlPublication` and `IssuancePolicy` | |
| `CaImport_proofs` | theorems about `Authorities` and `CaImport` together | |
| `Workers_proofs` | theorems about `ExpiryAlerts`, `IntuneSync` and `ScepConfig` | |
| `Endpoints_proofs` | theorems about `IntuneConnection`, `IntuneClient`, `AcmeRequest`, `EstEnrollment` and `Server` | |
| `Console_proofs` | theorems about `ConnectionPool`, `Team`, `AcmeService`, `SignIn` and `RateLimiter` | |

Conventions shared by the modules:

* **Tables are committed rows.** A transaction's writes stay in the request's
  own record (`pending`, `mine`, `leaf`, ...) until its `Commit`, which applies
  all of them in one step and frees its locks. So a read of a table in an action
  is a READ COMMITTED read, and an action that waits for a row has `lock = Free`
  as its guard and tests its predicate on what is committed then, as PostgreSQL
  re-evaluates a `WHERE` after a wait. Where nothing is read between a write and
  its COMMIT that could tell the difference, the two are one step: the row is
  locked in between and no one else sees it changed.
* **Every request may fail anywhere.** `Fail` (or `Abort`) discards the
  transaction from any point, which covers crashes, database errors and a failed
  COMMIT. `MaxFailures` bounds how often, where failures are counted.
* **External calls** (KMS, Intune, mail) are steps that succeed or fail and are
  not undone by a rollback: `signed`, `told`, `answers`, `stranded`, `reported`
  record what the outside has seen. They are history variables; no guard reads
  them except for "a serial number is not drawn twice".
* **Data**: a CSR, key, name or message is a model value or a member of a small
  set. Whether a policy accepts a CSR is a choice in the protocol modules,
  because the client writes the CSR; `IssuancePolicy` is where it is decided.
* Definitions named `Fault...` are altered forms of the definition that follows
  them. They are used only to show that a property can fail.
* A listed property of the newer modules is the conjunction of the named
  statements above it, each with its comment. Where one of them is about a step,
  the others are primed in it.

### AcmeOrder

`Receive` (the request, its order and its account) → `LockOrganization` →
`OrderForUpdate` (waits for the row, then `Verdict` on the committed row) →
`CheckRequest` (CSR, authorizations) → `Issue` or `IssueRefused` → `Reply` (the
response, before COMMIT) → `Commit`; `Reject` is the error return with its
rollback; a repeat of a finalize that succeeded goes from `OrderForUpdate` to
`Reply`. The sweep is one transaction: `SweepStart` fixes its time and its
candidates, `SweepOrder` waits for and locks one row each, `SweepCommit` writes
orders and authorizations together. The CA is switched on and off at any time.
The step from order to challenges is left out: authorizations are created valid.

### AcmeAccount, AcmeService, AcmeRequest

`AcmeAccount` has the transactions. A request carries a nonce, a signing key and
an operation. `ConsumeNonce` is the `DELETE ... RETURNING` that waits for another
transaction deleting the same row. `NewAccount`, `UseCredential`,
`CreateAccount` are the three statements of a registration, with the unique
index on the thumbprint as `keyLock`; `Authenticate`, `LockAccount`,
`RekeyAccount` those of the others. `Write` is what COMMIT makes visible; an
account update writes back the *status it read at authentication*, as
`UpdateAccount` does. Revocation of a credential is the two UPDATEs of
`RevokeCredential`, the second visiting account rows one at a time.

`AcmeService` has what surrounds them: endpoints that are created, renamed,
switched and deleted with what hangs on them, credentials minted for one
endpoint, the resources an account asks for, and revocation by account, by
certificate key or from the console. A request authenticates in one step and acts
in a later one. A request for revocation carries a certificate (`carried`): the
row is found by its serial number, and the key that signs is compared with what
was carried, as in the code, so the issued certificate's `key` may be another.

`AcmeRequest` has the envelope, in the order of the checks in `jws.go` and
`service.go`: parse, address, nonce, account or key, algorithm, signature, and the
inner message of a key change. A signature is *who made it over what*; the
network delivers a request twice, late, changed or elsewhere. A thumbprint is of
the members as they are *spelt*, a key is what they decode to. `Accept` is the
authentication, with what was read there, and `Commit` the writes of the handler
in a later step, or `GiveUp`: requests overlap, and `overtaken` marks one whose
account got another key in between.

### CrlPublication

Four kinds of publishers share `PublishCRL`: administrators (revoke one
certificate, publish, commit), the Intune sync (a batch in one transaction), the
worker and the console's republish, and relying parties' fetches. They differ in
why they start (`StartRevoking`, `StartRenewal`, `StartRepublish`, `StartFetch`)
and in what an error does: swallowed for the first three, an abort for a fetch.
`age` abstracts `next_update` to fresh / due within the hour / past; `cooling` is
`last_attempt_at` within the cooldown. `DeadlockVictim` is PostgreSQL's deadlock
detection: one of two transactions that wait for each other loses its statement.
When that statement is `LockCRL` the code ignores the error, answers that the
certificate is revoked, and its COMMIT rolls back. OCSP reads the status, then
answers from the cache or signs and stores.

One issuing CA is modelled, with no certificate expiring while it is revoked.

### Authorities and CaImport

A console request reads without locks, talks to the key provider and writes in
its last step; `requests[r].op` says where it is. `CreateCA` and the unique
indexes are the only guards at COMMIT. A rotation creates the replacement and
retires the old CA in one transaction. Deletion destroys the key first
(`DestroyKeyVersion`) and marks the row after. `stranded` are keys whose clean-up
or transaction was lost. The endpoint stands for one of any protocol; `era`
changes with its binding, so that `BoundIsKept` can say *for all of a request*.
`CaImport` adds the job: `observe` is the poll, which may finalize, `submit` the
wrapped key, `cancel` the cancellation; the UPDATEs are unconditional, as in
`pki/repo.go:603-662`. `crossed` are the keys of a job that was read to be
cancelled before a CA had them, or that a poll which had read it before opened
again afterwards; it is history, read by no guard.

### IssuancePolicy

Operators with the names of the functions they translate (`ekuSelection`,
`ekusWithinParent`, `ResolveEKUs`, `checkIdentifierPin`, `sameNames`,
`checkCSRNames`, ...), on sets of usages and names; actions make the CAs, save
policies, mint pins, enrol and renew in any order. A name is a form and a text:
`CSRSANNames` gives the texts alone, and the checks compare those, as in the code;
a name of form `unread` is an entry of the extension that neither `CSRSANNames`
nor `UnparsedSANs` looks at. A subject is what it shows when it is rendered and
its common name. `aspect` divides the instances into usages, names and dates,
which the code decides independently.

### EstEnrollment

`clients[r].at` follows one request from Basic authentication over the checks to
COMMIT. `RenewableCertificate` is the query that stands in for a client
certificate; passwords are rotated by revoking a credential and creating another
of the same username.

### ScepEnrollment and ScepConfig

`Receive` → `CheckRequest` → `LockOrganization` → `Transaction` (an issued id is
replayed to the same message and refused to another) → `Authorize` by renewal,
one-time challenge, shared secret or Intune → `Issue` → `NotifySuccess` for
Intune → `CreateTransaction` → `Commit`, whose last effect is the answer. An
error goes to `Rollback` and then `RecordFailure`, which waits for the
transaction row but not for the organization lock. `Foreign` certificates were
issued by the same CA for another endpoint; a renewal may be signed with one.

`ScepConfig` has the forms: each reads in one step and writes in another.
`crossed` records a method switched over a change of the other that the form had
not read, which is the exception in `JamfHasOneTime` and `OnIsUsable`.

### IntuneConnection, IntuneClient, IntuneSync

`IntuneConnection`: `connectIntune` sets the cookie, `Redirect` is Microsoft's
answer, the two callbacks check cookie and nonce, wait for Microsoft and then
set the next cookie or connect. `IntuneClient`: a call looks up the caches,
fetches what is missing and stores what came back, each step apart from the
others; `CheckTenant` and `forgetTenant` are the verification of a new consent.
`IntuneSync`: download, classify, revoke, COMMIT, upload; it may fail at each.

### SignIn, Team, RateLimiter, ConnectionPool

`SignIn` is one person with several tabs; `menu` chooses which factors an
instance plays out against each other. Statements that another transaction can
come between are steps of their own: the attempt is spent in one transaction, the
code is matched and the step advanced in the next; the DELETE of a set of
recovery codes is a step before the INSERTs commit; the ceremony of a passkey is
read before its counter is advanced. `issued`, `before` and `redeemed` are the
history of the sets; of each set one code is modelled. `Team` has the people around
it: `Record` is the audit row whose foreign key aborts the transaction when its
actor has been removed. `Allow` of the limiter runs under a mutex and is one
step; time moves between calls.

### Server

Two instances, old and new, with different builds: read what is applied, create
`_lock`, migrate and record in one transaction each, check row-level security,
serve; a signal, the draining of requests with its deadline and the wait for the
workers, which has none; or a kill at any point. A sweep's transaction is begun,
sends its COMMIT and ends in steps of its own, each of which the signal may come
before; what a process leaves open when it ends is `abandoned` until the database
finds its connection gone.

## 3. What TLC checks

| run | instance | shows |
|---|---|---|
| `order_safety` | 2 requests, 2 orders, 2 accounts, 3 serials, 1 failure | `CertificateAndOrderAgree`: valid orders and recorded certificates correspond. `DecisionStands`: what finalize decided on still holds when it commits. `OutsideAgrees`: repeats and races cost no CA signature, and without failures "valid" is valid. `ReadyOrderIsAuthorized`: the sweep leaves no half-expired order. `ImplementsLifecycle`: refinement of `OrderLifecycle` |
| `order_liveness` | 2 requests, 1 order, 1 account, 2 serials, 1 failure | `RequestEnds`, `ExpiredOrderEnds` |
| `account_safety` | 2 requests, 2 nonces, 2 keys, 2 accounts, 2 credentials of which 1 single-use | `SingleUseIsSpent`, `NonceAcceptedOnce`, `RevocationSeesEveryAccount` |
| `account_reactivation` | 1 account, 1 credential | refutes `RevocationStops` |
| `crl_safety` | 2 certificates; administrator, sync, fetch; CRL numbers to 3; 1 failure | `MissingIsNoted`, `EntriesAreRevoked`, `ListsGrow` |
| `crl_liveness` | 1 certificate; administrator, sync, worker, OCSP request; no failure | `NoGoodAfterRevocation`, `RevocationIsListed`, `CRLIsRenewed` |
| `crl_deadlock` | administrator and sync with 2 certificates | refutes `ToldRevokedIsRevoked` |
| `scep_safety` | 2 requests, 2 transaction ids, 2 fresh serials and 1 foreign certificate, 1 challenge, 1 failure | `OneCertificateEach`, `SignedIsKept`, `ChallengeSpentOnce`, `RenewedHere` |
| `scep_retry` | 2 requests, 1 transaction id, 2 signing keys, endpoint and shared secret switched, 1 failure | `RetriesAgree`: one answer to every retry, no success lost, and the refinement of `ScepTransaction`. `RequestEnds` |
| `authorities_safety` | CAs and import, EST, sync, alerts, policy | `KeysFollowCAs`, `DecisionsHold`, `ImportIsWhole`, `IdentityIsKept`, `AnswersAreTrue`, `AlertsReachOnce`, `CertificateIsPermitted` |
| `endpoints_safety` | SCEP configuration, ACME service and requests, Intune consent and client, server | `ConfigurationHolds`, `OwnersAndEndpointsHold`, `ActsAsAsked`, `FlowIsProved`, `CachesAreHonest`, `StartsAndStopsWhole` |
| `console_safety` | sign-in, team, limiter, pool | `FactorsHold`, `MembersAreDecided`, `BudgetsHoldUnderFlood`, `PoolFlows` |

In the last three runs each behaviour is about one part, chosen in the initial
state, and leaves the others where they start. The parts do not share variables
(`Authorities` and `CaImport` do, and are one part), so nothing is lost by it.

**Bounds.** Each safety instance has what its races need: two contenders for one
row, a second row to be confused with, one transaction that fails, and one more
serial than rows. Two transactions are enough where the locks are mutual
exclusions without counters: a third contender waits where the second does. The
CRL instance has three publishers since a deadlock needs two and the effect of
the victim is seen by a third. `MaxNumber` caps the CRL number; `ListsGrow`
demands growth below the cap only. `MaxFailures` limits crashes, not the crash
points. In the composed runs:

| part | bound |
|---|---|
| CAs and import | 4 CAs and keys (a root, an issuing CA, its replacement and one imported), 2 console requests, 2 import requests, `MaxEra` 3 rebindings |
| EST | 2 requests, 3 credentials (one rotated and another user's), 3 certificates (enrolled, renewed, renewed again) |
| Intune sync | 2 endpoints of the CA, 2 certificates and a foreign one |
| alerts | 2 sweeps, 1 certificate, 2 administrators |
| policy | 4 usages, 2 texts in 4 names, of which one text is in two forms and one entry is unread, 4 subjects of which two are rendered alike, time to `MaxNow` = 14 quarters of a day, spans of 0 to 2 days |
| SCEP configuration | 2 administrators, 3 endpoints |
| ACME service | 2 requests, 2 endpoints, 2 credentials, 2 accounts, 1 certificate, 2 keys |
| ACME requests | 2 addresses, 2 accounts, 3 nonces, 2 keys and one that is too short, 3 spellings |
| Intune consent | 2 tabs, 2 directories, 3 nonces: two flows and one more |
| Intune client | 2 callers, 2 tenants, 2 attempts; a call takes 1 tick, a token lives 4 and is left out of the cache 2 before its end; `MaxTicks` 4 |
| server | 2 instances, builds of 1, 2 and 3 migrations, one of which leaves a table unprotected, `Grace` 2 |
| sign-in | 2 requests, 2 links, 3 rows and secrets, 1 passkey, 2 attempts, `Skew` 1, `Grace` 1, `LastStep` 2 (steps are all the same where no code is compared with an earlier one: enrolments against resets), a counter of 0 or 1, 2 sets of recovery codes |
| team | 2 calls, 3 users, trails and invitations |
| limiter | 3 callers for 2 buckets, `Limit` 2, `Window` 3, `SweepInterval` 2, 8 moments |
| pool | 4 requests of which 1 nested, 3 connections |

**Symmetry** is used for safety only, over values that no definition
distinguishes (not over the challenges and publishers that play different parts).

**Deadlock** is checked in the runs of a single component: a new request can
always arrive or time can pass there, so a stuck state of the model would be a
modelling error, and a stuck *request* is what the liveness properties look for.
The three composed runs say `CHECK_DEADLOCK FALSE`, because their parts may stop
at a bound: every link sent, every moment past.

**Fairness.** A goroutine that is not waiting runs on, and the hourly tickers
keep ticking: weak fairness of a request's steps, of the sweep and of the start
of a CRL renewal. Strong fairness where a step waits for a lock, because
PostgreSQL queues waiters in order, so that one that could be served again and
again is served. Nothing is assumed of clients, administrators, fetches, time or
the KMS; `RevocationIsListed` and `CRLIsRenewed` say under which behaviour of the
KMS they hold.

### Where the code and its documentation part

Stated as runs:

1. `account_reactivation`: an account update that authenticated before a
   credential was revoked writes the old status back and makes the account valid.
2. `crl_deadlock`: an administrator and the sync deadlock; the administrator is
   told "revoked" and the revocation is gone.

Also met, not stated as a run. ACME:

* `FailOrder` stores a refusal "so a client polling the order afterwards is told
  the same" (`internal/acme/repo.go:371`), but the handler rolls back on the very
  error that follows it; the order stays ready.
* A nonce is meant to be spent also by a request that fails
  (`internal/acme/service.go:342`); the rollback returns it.
* Finalize answers "valid" before a COMMIT that may fail (`OutsideAgrees` has
  `failures = 0` for that reason).
* Of two overlapping key changes the later wins although its signing key has been
  replaced (`repo.go:301`, no predicate on the old thumbprint); the 409 of a key
  change to a used key is never sent, since `repo.go:306-307` wraps the error it
  is recognised by.
* "A jwk-signed request must carry the certificate's own public key"
  (`internal/acme/service.go:1118-1124`), but the certificate is looked up by the
  serial number of the one that was sent (1101), and the key compared with the one
  in what was sent (1144-1162), which nothing compares with what was issued.
  `RevokedByOwner` speaks of the requests that carry what was issued.
* "The same key always produces the same thumbprint"
  (`internal/acme/jws.go:342-346`), but the members are hashed as they are spelt, and
  `parseJWK` reads a base64url text that is not canonical as the same number: a key
  spelt in two ways may have two accounts. `OneAccountPerKey` names that exception
  and no other.

CRL and CAs:

* The attempt that would start the cooldown (`internal/pki/revocation.go:97`) is
  rolled back by the failing fetch, so each fetch tries the KMS again.
* "An enabled endpoint blocks retirement" (`docs/scep.md`), but the check is a read
  without a lock: an endpoint enabled meanwhile is left on a retired CA.
  `BoundIsKept` therefore speaks of endpoints that stand for all of the request.
* Retirement is terminal by the check of a status that was read before; of a
  retirement and another change the later wins. Two rotations of one CA may both
  make a replacement.
* Cancelling an import races its completion: either state may stay, with the CA
  made. Where the job was read before the CA was made, the cancellation destroys
  the key of the CA (`internal/pki/import_service.go:223-227`): `KeyServesCA` excepts
  the keys that `crossed`. A late poll opens a finished job again, so that it can be
  cancelled or submitted to once more. Two submissions of wrapped keys may make
  two CAs, or leave a key version without a job; a cancellation that read the job
  before a wrapped key came leaves the version named by a cancelled job.
* Losing the COMMIT after the provider has made or destroyed a key strands the
  key or the CA (`stranded`).
* One address that is refused for good stops the expiry alerts of the organization
  (`internal/pki/expiry_worker.go:113`); two replicas sweeping at once send twice.

SCEP, Intune, EST:

* A renewal stands although its old certificate is revoked before the COMMIT.
* Intune has been told of a certificate when a failure of the transaction row
  loses it (`SignedIsKept` names failures as the only way).
* Jamf may be left on without the one-time challenges it mints when the two are
  switched at once, and Intune on without a connection.
* The sync answers "not found", for good, for a certificate whose enrolment has
  not committed yet or whose endpoint has been deleted.
* And for one whose endpoint is turned off, or its Intune method is:
  `docs/scep.md:20` says that this "leaves renewal, history, and revocation matching
  intact", and `docs/scep.md:111-116` and `internal/scep/intune_worker.go:60-64` that a
  serial is matched against every endpoint of its CA before it is "not found", but
  the endpoints are listed by `IntuneEndpoints` (`internal/scep/repo.go:441-453`), which
  leaves those out. `AnswersForSiblings` names them as its exception (`LeftOut`).
* "The subject must be identical" in a renewal, and names "may be dropped but not
  added" (`internal/scep/service.go:791-794`), but names are compared by their text in
  lower case (799-860) and subjects as they are rendered, which is not one to one
  (`internal/pki/subject.go:595-618`): a name may come back in another form, and a
  subject as another that reads the same.
* "Between them the two halves enumerate the whole extension"
  (`internal/pki/subject.go:504-511`), but `UnparsedSANs` skips some entries (542,
  552-572). They are issued under no rule, by SCEP, EST and ACME, although an ACME
  request "must ask for exactly" its order's names (`internal/acme/service.go:950`).
  `IssuancePolicy` speaks of what is read (`Read`).
* A consent callback that began before a disconnection connects after it.
* `TouchCredential` of EST discards its error inside the transaction of the
  issuance (`internal/est/service.go:400`), which then cannot commit; the
  certificate has been sent.

Console and server:

* "`ReplaceRecoveryCodes` swaps a user's whole set atomically"
  (`internal/auth/repo.go:1049`), but it is a DELETE and then INSERTs without a lock:
  the DELETEs of two overlapping enrolments see neither of the new sets, and both
  stay. `RecoveryCodeCurrent` therefore refuses a code only if a *committed*
  enrolment began its replacement when the code was there.
* "Clearing it stops a captured response being replayed"
  (`internal/auth/passkey.go:146`), but the ceremony is read before the row is waited
  for: an assertion whose counter is zero, as a synchronised passkey's always is,
  opens a session for each request that read the ceremony before the first
  committed. `CounterAdvances` names that exception and no other.
* The comment on `DeleteTOTPCredential` (`internal/auth/repo.go:968`) says the last
  authenticator stays; two removals at once may take both.
* "Recording is never allowed to fail the action" (`internal/audit/repo.go:23`), but a
  foreign key that refuses the row aborts the transaction, after the page is written.
* "Every tracked key is inside its current window, so this is a flood"
  (`internal/middleware/ratelimit.go:76`) is so after a sweep only; between two sweeps
  a new caller may be refused because of keys whose window is over.
  `RefusedUnderFlood` allows for one sweep interval more than a window.
* Nested connections (`AuthFlow`) may use up the pool; `SomeoneProceeds` states the
  condition under which they do not.
* "Between units of work rather than in the middle of one"
  (`internal/worker/worker.go:25`), but the context of the unit under way is
  cancelled as well, and it rolls back unless its COMMIT has been sent: what
  `NothingAfterSignal` says is that none is sent later.
* A killed migration leaves `_lock` behind, and the next start fails until an
  operator drops it.

## 4. What is proved

Every theorem holds for sets of any size, finite or infinite: requests, rows,
keys, replicas, serials (`PoolNeverStops` needs finitely many requests, since it
counts). Each rests on the named assumption of its module and on nothing else.
The assumptions say that distinguished values (`None`, `Free`, `NoOrder`, ...)
are none of what they stand beside; that rows are numbered where the code takes
the next one; that a bound is a natural number. The ones that say more:
`AuthoritiesAssumption`, `TeamAssumption`, `ServiceAssumption` and
`SignInAssumption` name the rows that the initial states already have;
`LimiterAssumption` and `PolicyAssumption` give time for the clock the initial
states start with, one window and half a day; `ConfigAssumption` asks for at least one
name; `ExpiryAssumption` lets a message be counted twice; `ClientAssumption`
has what the code's constants satisfy, that two calls fit into the margin by
which a token is dropped early and that the margin is shorter than its life,
and needs two ticks of time.

These are all the safety and action properties of the passing runs; only
liveness is left to TLC (see the end of this section).

| module | theorem | states |
|---|---|---|
| `AcmeOrder_proofs` | `TypeCorrect` | `TypeOK` |
| | `OneCertificate` | `CertificateAndOrderAgree` |
| | `NoStaleDecision` | `DecisionStands` |
| | `SweepIsWhole` | `ReadyOrderIsAuthorized` |
| | `Refinement` | `ImplementsLifecycle` |
| | `OutsideNeverAhead` | `OutsideAgrees` |
| `AcmeAccount_proofs` | `SingleUseOnce` | `SingleUseIsSpent` |
| | `NonceCarriesOne` | `NonceAcceptedOnce` |
| | `RevocationMissesNone` | `RevocationSeesEveryAccount` |
| `CrlPublication_proofs` | `NothingMissingUnnoted` | `MissingIsNoted` |
| | `OnlyRevokedListed` | `EntriesAreRevoked` |
| | `OCSPAgrees` | `NoGoodAfterRevocation` |
| | `CRLsGrow` | `ListsGrow` |
| | `CertificatesArePermitted` | `CertificateIsPermitted` |
| `ScepEnrollment_proofs` | `OneEach` | `OneCertificateEach` |
| | `ChallengesBuyOnce` | `ChallengeSpentOnce` |
| | `SignaturesAreKept` | `SignedIsKept` |
| | `RenewalsStayHere` | `RenewedHere` |
| | `KeepsPromise` | `RetriesAgree` |
| `CaImport_proofs` | `KeysFollow` | `KeysFollowCAs` |
| | `ImportsAreWhole` | `ImportIsWhole` |
| | `DecisionsStand` | `DecisionsHold` |
| `Workers_proofs` | `AlertsOnce` | `AlertsReachOnce` |
| | `TruthIsReported` | `AnswersAreTrue` |
| | `FormsHold` | `ConfigurationHolds` |
| `Endpoints_proofs` | `ConnectsOnce` | `FlowIsProved` |
| | `ActsOnceAsSigned` | `ActsAsAsked` |
| | `ServesWhole` | `StartsAndStopsWhole` |
| | `EnrolsItsOwn` | `IdentityIsKept` |
| | `AnswersAreFresh` | `CachesAreHonest` |
| `Console_proofs` | `PoolNeverStops` | `PoolFlows` |
| | `MembersDecided` | `MembersAreDecided` |
| | `OwnersHold` | `OwnersAndEndpointsHold` |
| | `FactorsAreSound` | `FactorsHold` |
| | `BudgetsHold` | `BudgetsHoldUnderFlood` |

Almost none of these properties is inductive: a row is right because of what the
request that is about to write it still knows. Each proof therefore has an
invariant (`IndInv`, or one named for the part) that says what a transaction
under way carries, a lemma for each conjunct or each action, and one step for
each action. What follows is that invariant and the argument, module by module.

### AcmeOrder: the row lock

A commit writes "valid" whatever the row says (`CompleteOrder` has no predicate
on the status), so the proof has to know why the row is still what the request
saw:

* `HoldsRow`: a request past `OrderForUpdate` holds the lock on its row and has a
  pending write only from `Issue` on;
* `DecisionStands`: and that row is ready;
* `FreshSerial`: a pending serial is signed, recorded nowhere and pending in one
  request only;
* `SweepHolds`: what the sweep will retire is locked by it and ready;
* `SweepCovers`: what is ready beyond the horizon of the sweep is still to be
  visited or held by it, which is what `ReadyOrderIsAuthorized` needs.

The mutual exclusion of `HoldsRow` and `SweepHolds` on one lock is the whole
argument that a sweep never retires an order whose certificate is being issued.
`Refinement` maps `Commit` to Issue, `SweepCommit` to Retire, `NewOrder` to
Create and everything else to a stutter; the freshness clause of Issue comes from
`FreshSerial` and `CertificateAndOrderAgree`. The organization lock appears
nowhere in the proof: the row lock alone is enough for orders.
`OutsideNeverAhead` adds what cannot be rolled back: `RepeatIsValid`, a repeat
answers for an order that is valid; `LossesCounted`, by counting, that no more
signatures are lost than transactions failed; `AnswerHolds`, that until one
fails what was answered is so.

### AcmeAccount: a test that cannot be repeated

* `HoldsNonce`: a request past its nonce holds the nonce's row, still there, and
  a nonce somebody committed with is gone;
* `CarriesOperands`: what each operation carries to where it is;
* `HoldsCredential`: who took a credential, or revokes it, holds its row and the
  credential is as its UPDATE found it;
* `BindsOne`, `CredentialSpentWithAccount`: a single-use credential is spent by the
  account it made, and by one only.

Each conditional DELETE or UPDATE is a test that, by the row lock, nobody can
make again before its COMMIT. `RevocationMissesNone` follows as the revocation
holds the credential from its first UPDATE on: no registration is between its
test of the credential and its COMMIT while the second UPDATE looks for accounts.

### CrlPublication: the CRL lock

* `HoldsCRL`: a transaction with a CRL or an error to commit holds the lock; one
  with a revocation holds it from its publication on;
* `DraftIsWhole`: a CRL about to be committed lists all that is listed and nothing
  that is not revoked, under a greater number, and lists every revocation of its
  own transaction too;
* `LateSawRevoked`: an OCSP request that came after a revocation read it.

Between a publication and its COMMIT nobody else can make a revocation or a CRL
public, which makes the draft still whole when it replaces what is published.

### IssuancePolicy: what every level permits

`CertificatesArePermitted`. What a certificate may say is decided where it is
signed, by rules that may change right after; so `PolicyInv` says of the last
certificate only what the CA and the pin, which do not change under it, still
permit (`UsagesWithinCA`, `PinnedUsages`, `PinnedNamesOnly`, `AcmeExact`,
`EndsWithItsCA`), and the rules that do change are the business of the step that
signs (`NamesWerePermitted`). The invariant adds `ProfilesNest`, an issuing CA's
usages are some of its root's and never none, and `PinsAreSound`, a device
endpoint's list has none of the usages a device may not have, and a pin is what
its kind can be. Each protocol's choice of usages is first shown to be on the
list it was given (`Resolved`, `UsagesChosen`), each check of names to leave only
names that match (`CheckedNames`). Rotation takes the one division, of a span
into days; the proof needs only that its result is a whole number, as the end of
the root cuts off whatever it gives.

### ScepEnrollment: the organization lock

* `HoldsOrganization`: from the look-up of its transaction on, a request has the
  organization to itself;
* `FreshLeaf`: what it has signed is recorded by nobody yet;
* `LookupStands`, `CredentialStands`: the transaction is still without a
  certificate and the credential unspent, as they were read;
* `AnswersAreRows`: devices were told what is on record, and all of it.

`RecordFailure` is the exception: it writes without the organization lock, and the
proof of `OneCertificatePerTransaction` rests on the predicate of its upsert,
`status <> 'issued'` (`internal/scep/repo.go:397`). `KeepsPromise` proves the refinement of
`ScepTransaction`: `Commit` of a new certificate is Grant, `RecordFailure` is
NoteFailure, everything else a stutter.

### CaImport: who owns a key

Console requests take no locks, so nothing is held between their steps; the
invariant says instead to whom every key version belongs: to a CA, to a request
that is making one (`MakersHoldKeys`), to the job, or to the list of those left
behind (`KeysOwned`, of which `KeysAccounted` is a part). `OneCAPerKey` and `KeyServesCA` follow step by step, because
only the owner acts on a key. `RequestsNameCAs` and `DecidedUnbound` carry what a
request read to where it writes: a CA it found unbound is unbound as long as the
era of the endpoint has not changed. `RootsAreOne` is the unique index.
`ImportersHoldKeys`, `ImportedKeyFits` and `JobNamesItsCA` are the same for the
import's requests, `OwnKeys` for the version a request has just been given.
`AllJudged` says that what a poll is about to finalize fits and is there, unless
it crossed a cancellation; `Crossings`, that a cancellation destroys nothing else,
and that an open job names no CA's key but one that crossed. To keep this manageable, every action is first shown to be one
of a dozen kinds of step (`StepKinds`: a key is made, a CA is inserted, a row's
status is set, ...), and the invariant is proved of the kinds.

### Workers: what was read, sent and not yet written

`AlertsOnce`: a message is accounted for by the sweep that sent it, by the mark
that sweep made, or by its failure (`ToldIsAccounted`); what two sweeps have
read at once is excused (`OverlapIsExcused`). `TruthIsReported`: what the pass
will report as revoked is revoked or will be by its COMMIT (`ResultsAreTrue`),
Microsoft keeps what has not been answered for good (`BatchIsQueued`), and what
is reported not found belongs to no endpoint of the group (`NotFoundIsForeign`).
`FormsHold`: what a form read still holds, or the request is noted to have missed
the change (`AdminFits`, `SwitchFits`); an endpoint that is being created is one
request's (`CreatesAlone`).

### Endpoints

* `ConnectsOnce`: `ConnectedIsProved` says nothing of the callback that is about to
  write the connection. `FlowInv` adds that the cookie of the second leg names
  what the first leg proved (`CookieIsProved`), that a callback past its checks
  carries a directory both proved and consented to under its nonce
  (`TabsAreProved`), that consents come back only where given
  (`AnswersAreGranted`) and that a nonce that connected is never drawn again
  (`SpentWasProved`). A new nonce is one nobody holds, so writing `signedIn` for it
  changes no flow under way (`RedeemStep`).
* `ActsOnceAsSigned`: every nonce is handed out by one endpoint and carried by
  requests whose signature covers it (`NoncesAreHanded`); what was acted on has a
  spent nonce (`ActedIsSpent`), so that no copy passes; a request under way holds
  its nonce alone and was signed with the key its account has, unless it was
  overtaken (`OpenIsAuthentic`); a thumbprint is that of the account's key in some
  spelling, and of one account (`AccountsAreKeyed`), so two accounts of one key
  were spelt differently.
* `ServesWhole`: what an instance has still to run is all that is not in effect
  (`RestIsApplied`), because whoever migrates has made the lock table
  (`MigratorLocks`) and nobody makes it twice. A process is `stopping` from the
  signal on and `CommitUnit` is not taken then, and it returns with no unit under
  way, so that nothing is abandoned as "stopped" (`ServerInv`).
* `EnrolsItsOwn`: credentials of one name in force are one (`OneInForce`),
  certificates come in order (`IssuedInOrder`), and behind every renewal there is
  an older certificate of the same name and subject (`Origin`), to which a request
  that passed its check can still point, since nothing that was issued or minted
  is forgotten (`NothingForgotten`).
* `AnswersAreFresh`: what a call carries fits itself, the time and the caches
  (`FitsItself`, `FitsTheTime`, `FitsTheCaches`, `TokenFits`). Two calls fit into the
  margin a cached token is dropped by, so none lapses under way; and as long as a
  verification has not called out no time passes, so what it finds cached after it
  dropped the caches was put there by a call that was under way when it began.

### Console

* `PoolNeverStops` counts: a request holds no more than it needs (`HeldIsNeeded`),
  so if all that are waiting hold a connection each they nest, and fewer nest than
  there are connections.
* `MembersDecided`: an acceptance holds its invitation and the row of its account
  (`AcceptanceHolds`); of an invitation and its reissues one is open (`OneOpen`);
  what is removed has no trail left (`RemovedIsOut`).
* `OwnersHold`: a request between its authentication and its effect has a
  credential of its endpoint, or is signed with the key of the certificate it
  carries (`PostFits`), and
  rows that were written keep what they were written for (`RowsKept`); a
  credential has its endpoint, an account its credential, an order its account
  (`ParentsAreThere`), so a deletion takes all of them along.
* `FactorsAreSound`: a request that resets the factors holds a code that is there,
  and nobody else does (`OneReset`); a code that is there is unredeemed, and no
  committed set began when it was there (`CodesAreCurrent`); a set under way is of
  one enrolment, whose DELETE saw every code that its beginning saw and that is
  still there (`SetsUnderWay`), so its COMMIT leaves none of them; a
  row yet to be made has no last step and was not deleted (`RowsToCome`). Most
  steps are `Calm`: they neither add nor use a factor, open no session and end
  requests at most, and one lemma covers them all (`CalmKeeps`). The others, where
  a code, a recovery code or a passkey is used or made, have a lemma each.
* `BudgetsHold`: a key's history is of the last window (`Recent`). The admissions
  since its bucket was opened are counted by it; those before are of one earlier
  bucket, which had rolled over (`Fits`), so each part is one budget at most and
  the two together are two. A swept bucket had rolled over, so all of the history
  is before now and of one bucket (`RolledLeaves`). `TrackedIsSwept`, that what is
  tracked was opened within a window of the last sweep, gives
  `RefusedUnderFlood`. The history is a set of numbered admissions, which can be
  counted without recursion.

### Model-checked only

Liveness: `RequestEnds`, `ExpiredOrderEnds`, `RevocationIsListed` and
`CRLIsRenewed`. Fairness and `ENABLED` are outside what the prover handles.

## 5. What is not modelled

* Cryptography, ASN.1, JSON and CMS parsing, HTML, header handling: no state and
  no order of events. What they decide is a choice, or a relation in
  `AcmeRequest` and `IssuancePolicy`.
* Key providers (`internal/pki/*_provider.go`): clients of external services; what they
  do is in `Authorities` and `CaImport`.
* Client address, mail templates and console pages.
* Row-level security and several organizations: every lock and row belongs to
  one organization, so one is modelled; `Server` has the check at start-up.
* Of the HTTP middleware, CSRF tokens, headers and flash messages; of the audit
  log, reading it.

## 6. Plan

1. A second CA in `CrlPublication`, for the order in which the worker and the
   console take several CRL locks.
2. The hazards `PROJECT.json` still lists without a property: the cooldown of a
   failed publication, the last-seen stamp of EST and the audit row of a user who
   is being removed.
3. An abstract specification of what a second factor promises, with `SignIn` shown
   to implement it, as `OrderLifecycle` and `ScepTransaction` are implemented.

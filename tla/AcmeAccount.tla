----------------------------- MODULE AcmeAccount -----------------------------
(* Registering, updating and re-keying ACME accounts, the replay nonces that *)
(* let a request in, and the administrator's revocation of the external      *)
(* account credential behind an account.  Each request and each revocation   *)
(* is a database transaction (READ COMMITTED): it reads committed rows, and  *)
(* its writes show when it commits; the rows it wrote are locked till then.  *)
EXTENDS Naturals, FiniteSets

CONSTANTS
    Requests, Nonces, Keys, Accounts,
    Creds,          \* external account credentials the console has issued
    SingleUse,      \* those that bind one account only
    Operations,     \* account operations clients send
    None, Free, Admin

ASSUME AcmeAccountAssumption ==
    /\ SingleUse \subseteq Creds
    /\ Operations \subseteq {"new-account", "update", "deactivate", "key-change"}
    /\ None \notin {"new-account", "update", "deactivate", "key-change"}
    /\ None \notin Keys \union Creds \union Accounts \union Nonces
    /\ Free \notin Requests /\ Admin \notin Requests /\ Free # Admin

VARIABLES
    issued,         \* nonces ever handed to a client
    nonces,         \* acme_nonce rows: those still spendable
    status,         \* acme_account.status, "absent" before it is created
    key,            \* acme_account.jwk_thumbprint
    boundBy,        \* acme_account.eab_credential_id
    used,           \* credentials with used_at set
    revoked,        \* credentials with revoked_at set
    lapsed,         \* credentials past expires_at
    pc, op, nonce, signer, account, cred, newKey,   \* the requests
    nonceLock, credLock, accountLock, keyLock,      \* row and index locks
    withdrawing,    \* the credential the administrator is revoking, or None
    selected,       \* its second UPDATE has begun
    todo, hits,     \* account rows that UPDATE has still to visit, has locked
    accepted        \* nonces a request committed with

rows == <<status, key, boundBy, used, revoked, lapsed>>
request == <<op, nonce, signer, account, cred, newKey>>
locks == <<nonceLock, credLock, accountLock, keyLock>>
revocation == <<withdrawing, selected, todo, hits>>
vars == <<issued, nonces, rows, pc, request, locks, revocation, accepted>>

(* Types: a nonce is in the table or spent, a row lock has one holder or none.*)
TypeOK ==
    /\ issued \subseteq Nonces /\ nonces \subseteq issued
    /\ status \in [Accounts -> {"absent", "valid", "deactivated"}]
    /\ key \in [Accounts -> Keys \union {None}]
    /\ boundBy \in [Accounts -> Creds \union {None}]
    /\ used \subseteq Creds /\ revoked \subseteq Creds /\ lapsed \subseteq Creds
    /\ pc \in [Requests -> {"idle", "nonce", "kid", "lookup", "use", "create",
                            "lock", "rekey", "commit"}]
    /\ op \in [Requests -> Operations \union {None}]
    /\ nonce \in [Requests -> Nonces \union {None}]
    /\ signer \in [Requests -> Keys \union {None}]
    /\ account \in [Requests -> Accounts \union {None}]
    /\ cred \in [Requests -> Creds \union {None}]
    /\ newKey \in [Requests -> Keys \union {None}]
    /\ nonceLock \in [Nonces -> Requests \union {Free}]
    /\ credLock \in [Creds -> Requests \union {Free, Admin}]
    /\ accountLock \in [Accounts -> Requests \union {Free, Admin}]
    /\ keyLock \in [Keys -> Requests \union {Free}]
    /\ withdrawing \in Creds \union {None} /\ selected \in BOOLEAN
    /\ todo \subseteq Accounts /\ hits \subseteq Accounts
    /\ accepted \subseteq issued

Init ==
    /\ issued = {} /\ nonces = {}
    /\ status = [a \in Accounts |-> "absent"]
    /\ key = [a \in Accounts |-> None]
    /\ boundBy = [a \in Accounts |-> None]
    /\ used = {} /\ revoked = {} /\ lapsed = {}
    /\ pc = [p \in Requests |-> "idle"]
    /\ op = [p \in Requests |-> None]
    /\ nonce = [p \in Requests |-> None]
    /\ signer = [p \in Requests |-> None]
    /\ account = [p \in Requests |-> None]
    /\ cred = [p \in Requests |-> None]
    /\ newKey = [p \in Requests |-> None]
    /\ nonceLock = [n \in Nonces |-> Free]
    /\ credLock = [c \in Creds |-> Free]
    /\ accountLock = [a \in Accounts |-> Free]
    /\ keyLock = [k \in Keys |-> Free]
    /\ withdrawing = None /\ selected = FALSE /\ todo = {} /\ hits = {}
    /\ accepted = {}

-----------------------------------------------------------------------------
(* Nonces and credentials by themselves.                                     *)

IssueNonce(n) ==
    /\ n \notin issued
    /\ issued' = issued \union {n} /\ nonces' = nonces \union {n}
    /\ UNCHANGED <<rows, pc, request, locks, revocation, accepted>>

(* The hourly sweep: an hour after its issue nothing keeps a nonce.          *)
DeleteExpiredNonce(n) ==
    /\ n \in nonces /\ nonceLock[n] = Free
    /\ nonces' = nonces \ {n}
    /\ UNCHANGED <<issued, rows, pc, request, locks, revocation, accepted>>

Lapse(c) ==
    /\ lapsed' = lapsed \union {c}
    /\ UNCHANGED <<issued, nonces, status, key, boundBy, used, revoked, pc, request,
                   locks, revocation, accepted>>

-----------------------------------------------------------------------------
(* A request.  It ends in Commit, or in Abort from wherever it is: each      *)
(* refusal of the handler, and each failure, discards the transaction.       *)

(* A client may send a nonce it was given as often as it likes, name any     *)
(* account and sign with any key.                                            *)
Receive(p, n, k, o) ==
    /\ pc[p] = "idle" /\ n \in issued /\ o \in Operations
    /\ pc' = [pc EXCEPT ![p] = "nonce"]
    /\ op' = [op EXCEPT ![p] = o]
    /\ nonce' = [nonce EXCEPT ![p] = n]
    /\ signer' = [signer EXCEPT ![p] = k]
    /\ IF o = "new-account"
       THEN /\ \E c \in Creds : cred' = [cred EXCEPT ![p] = c]
            /\ UNCHANGED <<account, newKey>>
       ELSE /\ \E a \in Accounts : status[a] # "absent" /\ account' = [account EXCEPT ![p] = a]
            /\ IF o = "key-change"
               THEN \E j \in Keys \ {k} : newKey' = [newKey EXCEPT ![p] = j]
               ELSE UNCHANGED newKey
            /\ UNCHANGED cred
    /\ UNCHANGED <<issued, nonces, rows, locks, revocation, accepted>>

(* Fault: a SELECT finds the nonce, the DELETE comes after.                  *)
FaultConsumeNonce(p) ==
    /\ pc[p] = "nonce"
    /\ nonce[p] \in nonces
    /\ pc' = [pc EXCEPT ![p] = IF op[p] = "new-account" THEN "lookup" ELSE "kid"]
    /\ UNCHANGED <<issued, nonces, rows, request, locks, revocation, accepted>>

(* The DELETE is the check: it waits for a request deleting the same row.    *)
ConsumeNonce(p) ==
    /\ pc[p] = "nonce"
    /\ nonceLock[nonce[p]] = Free
    /\ nonce[p] \in nonces
    /\ nonceLock' = [nonceLock EXCEPT ![nonce[p]] = p]
    /\ pc' = [pc EXCEPT ![p] = IF op[p] = "new-account" THEN "lookup" ELSE "kid"]
    /\ UNCHANGED <<issued, nonces, rows, request, credLock, accountLock, keyLock,
                   revocation, accepted>>

(* A kid-signed request: the account is valid and this is its key, now.      *)
Authenticate(p) ==
    /\ pc[p] = "kid"
    /\ status[account[p]] = "valid" /\ key[account[p]] = signer[p]
    /\ pc' = [pc EXCEPT ![p] = "lock"]
    /\ UNCHANGED <<issued, nonces, rows, request, locks, revocation, accepted>>

HasAccount(k) == \E a \in Accounts : status[a] # "absent" /\ key[a] = k

(* Not revoked, not expired, and not used if it binds one account only.      *)
Usable(c) == c \notin revoked /\ c \notin lapsed /\ (c \in SingleUse => c \notin used)

(* newAccount: a key that has a valid account gets it back; a new key needs  *)
(* a credential that looks usable.                                           *)
NewAccount(p) ==
    /\ pc[p] = "lookup"
    /\ \/ /\ \E a \in Accounts : status[a] = "valid" /\ key[a] = signer[p]
          /\ pc' = [pc EXCEPT ![p] = "commit"]
       \/ /\ ~HasAccount(signer[p]) /\ Usable(cred[p])
          /\ pc' = [pc EXCEPT ![p] = "use"]
    /\ UNCHANGED <<issued, nonces, rows, request, locks, revocation, accepted>>

(* Fault: the UPDATE trusts the check made when the credential was read.     *)
FaultUseCredential(p) ==
    /\ pc[p] = "use" /\ credLock[cred[p]] = Free
    /\ credLock' = [credLock EXCEPT ![cred[p]] = p]
    /\ pc' = [pc EXCEPT ![p] = "create"]
    /\ UNCHANGED <<issued, nonces, rows, request, nonceLock, accountLock, keyLock,
                   revocation, accepted>>

(* The conditional UPDATE waits for the row and tests it as committed.       *)
UseCredential(p) ==
    /\ pc[p] = "use"
    /\ credLock[cred[p]] = Free
    /\ Usable(cred[p])
    /\ credLock' = [credLock EXCEPT ![cred[p]] = p]
    /\ pc' = [pc EXCEPT ![p] = "create"]
    /\ UNCHANGED <<issued, nonces, rows, request, nonceLock, accountLock, keyLock,
                   revocation, accepted>>

(* The unique index waits for whoever is writing the same key, and refuses a *)
(* key that has an account.                                                  *)
CreateAccount(p, a) ==
    /\ pc[p] = "create"
    /\ keyLock[signer[p]] = Free /\ ~HasAccount(signer[p])
    /\ status[a] = "absent" /\ accountLock[a] = Free
    /\ keyLock' = [keyLock EXCEPT ![signer[p]] = p]
    /\ accountLock' = [accountLock EXCEPT ![a] = p]
    /\ account' = [account EXCEPT ![p] = a]
    /\ pc' = [pc EXCEPT ![p] = "commit"]
    /\ UNCHANGED <<issued, nonces, rows, op, nonce, signer, cred, newKey,
                   nonceLock, credLock, revocation, accepted>>

(* The UPDATE of an account locks the row, whatever its status is by now.    *)
LockAccount(p) ==
    /\ pc[p] = "lock"
    /\ accountLock[account[p]] = Free
    /\ accountLock' = [accountLock EXCEPT ![account[p]] = p]
    /\ pc' = [pc EXCEPT ![p] = IF op[p] = "key-change" THEN "rekey" ELSE "commit"]
    /\ UNCHANGED <<issued, nonces, rows, request, nonceLock, credLock, keyLock,
                   revocation, accepted>>

(* The new key enters the index; the old one leaves it when this commits.    *)
RekeyAccount(p) ==
    /\ pc[p] = "rekey"
    /\ keyLock[newKey[p]] = Free /\ ~HasAccount(newKey[p])
    /\ keyLock' = [keyLock EXCEPT ![newKey[p]] = p, ![key[account[p]]] = p]
    /\ pc' = [pc EXCEPT ![p] = "commit"]
    /\ UNCHANGED <<issued, nonces, rows, request, nonceLock, credLock, accountLock,
                   revocation, accepted>>

End(p) ==
    /\ pc' = [pc EXCEPT ![p] = "idle"]
    /\ op' = [op EXCEPT ![p] = None]
    /\ nonce' = [nonce EXCEPT ![p] = None]
    /\ signer' = [signer EXCEPT ![p] = None]
    /\ account' = [account EXCEPT ![p] = None]
    /\ cred' = [cred EXCEPT ![p] = None]
    /\ newKey' = [newKey EXCEPT ![p] = None]
    /\ nonceLock' = [n \in Nonces |-> IF nonceLock[n] = p THEN Free ELSE nonceLock[n]]
    /\ credLock' = [c \in Creds |-> IF credLock[c] = p THEN Free ELSE credLock[c]]
    /\ accountLock' = [a \in Accounts |-> IF accountLock[a] = p THEN Free ELSE accountLock[a]]
    /\ keyLock' = [k \in Keys |-> IF keyLock[k] = p THEN Free ELSE keyLock[k]]


(* used_at, with the account it let in.                                      *)
Stamp(p) == used' = used \union {cred[p]}

(* What the transaction wrote.  An update writes back the status it read     *)
(* when it authenticated, which was valid.                                   *)
Write(p) ==
    \/ /\ account[p] = None
       /\ UNCHANGED <<status, key, boundBy, used>>
    \/ /\ account[p] # None /\ op[p] = "new-account"
       /\ status' = [status EXCEPT ![account[p]] = "valid"]
       /\ key' = [key EXCEPT ![account[p]] = signer[p]]
       /\ boundBy' = [boundBy EXCEPT ![account[p]] = cred[p]]
       /\ Stamp(p)
    \/ /\ op[p] = "update"
       /\ status' = [status EXCEPT ![account[p]] = "valid"]
       /\ UNCHANGED <<key, boundBy, used>>
    \/ /\ op[p] = "deactivate"
       /\ status' = [status EXCEPT ![account[p]] = "deactivated"]
       /\ UNCHANGED <<key, boundBy, used>>
    \/ /\ op[p] = "key-change"
       /\ key' = [key EXCEPT ![account[p]] = newKey[p]]
       /\ UNCHANGED <<status, boundBy, used>>

Commit(p) ==
    /\ pc[p] = "commit"
    /\ Write(p)
    /\ nonces' = nonces \ {nonce[p]}
    /\ accepted' = accepted \union {nonce[p]}
    /\ End(p)
    /\ UNCHANGED <<issued, revoked, lapsed, revocation>>

Abort(p) ==
    /\ pc[p] # "idle"
    /\ End(p)
    /\ UNCHANGED <<issued, nonces, rows, revocation, accepted>>

-----------------------------------------------------------------------------
(* RevokeCredential: one UPDATE of the credential, one of its accounts.      *)

(* Fault: the revocation does not wait for a registration under way.         *)
FaultRevokeCredential(c) ==
    /\ withdrawing = None /\ c \notin revoked
    /\ withdrawing' = c
    /\ UNCHANGED <<issued, nonces, rows, pc, request, locks, selected, todo, hits, accepted>>

RevokeCredential(c) ==
    /\ withdrawing = None
    /\ credLock[c] = Free /\ c \notin revoked
    /\ credLock' = [credLock EXCEPT ![c] = Admin]
    /\ withdrawing' = c
    /\ UNCHANGED <<issued, nonces, rows, pc, request, nonceLock, accountLock, keyLock,
                   selected, todo, hits, accepted>>

Bound(a) == boundBy[a] = withdrawing /\ status[a] = "valid"

SelectAccounts ==
    /\ withdrawing # None /\ ~selected
    /\ selected' = TRUE
    /\ todo' = {a \in Accounts : Bound(a)}
    /\ UNCHANGED <<issued, nonces, rows, pc, request, locks, withdrawing, hits, accepted>>

(* It waits for each row and tests the predicate again.                      *)
DeactivateAccount(a) ==
    /\ selected /\ a \in todo
    /\ accountLock[a] = Free
    /\ todo' = todo \ {a}
    /\ IF Bound(a)
       THEN accountLock' = [accountLock EXCEPT ![a] = Admin] /\ hits' = hits \union {a}
       ELSE UNCHANGED <<accountLock, hits>>
    /\ UNCHANGED <<issued, nonces, rows, pc, request, nonceLock, credLock, keyLock,
                   withdrawing, selected, accepted>>

EndRevocation ==
    /\ withdrawing' = None /\ selected' = FALSE /\ todo' = {} /\ hits' = {}
    /\ credLock' = [c \in Creds |-> IF credLock[c] = Admin THEN Free ELSE credLock[c]]
    /\ accountLock' = [a \in Accounts |->
                          IF accountLock[a] = Admin THEN Free ELSE accountLock[a]]


RevocationCommit ==
    /\ selected /\ todo = {}
    /\ revoked' = revoked \union {withdrawing}
    /\ status' = [a \in Accounts |-> IF a \in hits THEN "deactivated" ELSE status[a]]
    /\ EndRevocation
    /\ UNCHANGED <<issued, nonces, key, boundBy, used, lapsed, pc, request,
                   nonceLock, keyLock, accepted>>

RevocationFail ==
    /\ withdrawing # None
    /\ EndRevocation
    /\ UNCHANGED <<issued, nonces, rows, pc, request, nonceLock, keyLock, accepted>>

-----------------------------------------------------------------------------
Step(p) ==
    \/ ConsumeNonce(p) \/ Authenticate(p) \/ NewAccount(p) \/ UseCredential(p)
    \/ LockAccount(p) \/ RekeyAccount(p) \/ Commit(p) \/ Abort(p)
    \/ \E a \in Accounts : CreateAccount(p, a)

Revocation == SelectAccounts \/ RevocationCommit \/ RevocationFail
              \/ \E a \in Accounts : DeactivateAccount(a)

Next ==
    \/ \E n \in Nonces : IssueNonce(n) \/ DeleteExpiredNonce(n)
    \/ \E c \in Creds : Lapse(c) \/ RevokeCredential(c)
    \/ \E p \in Requests, n \in Nonces, k \in Keys, o \in Operations : Receive(p, n, k, o)
    \/ \E p \in Requests : Step(p)
    \/ Revocation

Spec == Init /\ [][Next]_vars

-----------------------------------------------------------------------------
(* What must hold.                                                           *)

(* repo.go: two clients racing on a one-shot credential do not both succeed. *)
SingleUseBindsOne ==
    \A c \in SingleUse : Cardinality({a \in Accounts : boundBy[a] = c}) <= 1

(* A credential is never left unstamped next to an account it bound, so an   *)
(* account's credential has been spent in the eyes of every later request.   *)
CredentialSpentWithAccount ==
    \A a \in Accounts : boundBy[a] # None => boundBy[a] \in used

(* A nonce carries one request to its commit, however often it is sent: a    *)
(* request past the check is alone with its nonce, and none has committed    *)
(* with it.                                                                  *)
NonceAcceptedOnce ==
    \A p \in Requests : pc[p] \notin {"idle", "nonce"} =>
        /\ nonce[p] \notin accepted
        /\ \A q \in Requests \ {p} : pc[q] \in {"idle", "nonce"} \/ nonce[q] # nonce[p]

(* A registration and the revocation of its credential never cross: no       *)
(* account is bound from the moment the revocation has begun, so that its    *)
(* second UPDATE has seen every account the credential will ever have.       *)
RevocationSeesEveryAccount ==
    [][\A a \in Accounts : boundBy'[a] # boundBy[a] =>
          boundBy'[a] \notin revoked \union {withdrawing}]_vars

(* repo.go says of RevokeCredential: "an account whose credential is gone    *)
(* can no longer order".                                                     *)
RevocationStops ==
    \A a \in Accounts : boundBy[a] \in revoked => status[a] # "valid"

(* A single-use credential makes one account, and is spent with it            *)
(* (UseCredential, repo.go).                                                  *)
SingleUseIsSpent ==
    /\ SingleUseBindsOne
    /\ CredentialSpentWithAccount
    /\ TypeOK
=============================================================================

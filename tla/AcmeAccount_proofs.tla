------------------------- MODULE AcmeAccount_proofs -------------------------
(* Proofs about AcmeAccount for every number of requests, nonces, keys,       *)
(* accounts and credentials: a nonce lets one request in, a single-use        *)
(* credential makes one account, and its revocation misses no account.  The   *)
(* row locks of the nonce and of the credential carry them: each conditional  *)
(* DELETE or UPDATE is a test nobody can make again before it commits.        *)
EXTENDS AcmeAccount, FiniteSetTheorems, TLAPS

(* A request past its nonce holds the nonce's row, which is still there; a    *)
(* nonce somebody committed with is gone.                                     *)
HoldsNonce ==
    /\ \A p \in Requests :
          /\ pc[p] # "idle" => nonce[p] \in Nonces
          /\ pc[p] \notin {"idle", "nonce"} => nonceLock[nonce[p]] = p /\ nonce[p] \in nonces
    /\ accepted \intersect nonces = {}

(* What each operation carries to where it is.                                *)
Registering(p) == op[p] = "new-account" /\ account[p] # None

CarriesOperands ==
    \A p \in Requests :
        /\ pc[p] = "idle" => account[p] = None /\ op[p] = None
        /\ pc[p] \in {"lookup", "use", "create"} => op[p] = "new-account" /\ cred[p] \in Creds
        /\ pc[p] # "idle" => op[p] \in Operations /\ signer[p] \in Keys
        /\ pc[p] \in {"kid", "lock", "rekey"} =>
              op[p] # "new-account" /\ account[p] \in Accounts
        /\ op[p] \in {"update", "deactivate", "key-change"} => account[p] \in Accounts
        /\ pc[p] = "rekey" \/ op[p] = "key-change" => newKey[p] \in Keys
        /\ op[p] = "new-account" => cred[p] \in Creds
        /\ Registering(p) => pc[p] = "commit"

(* A request that took a credential holds its row, and the credential is      *)
(* still as its UPDATE found it; the administrator's revocation holds the row *)
(* from its first UPDATE on.                                                  *)
HoldsCredential ==
    /\ \A p \in Requests : pc[p] = "create" \/ Registering(p) =>
          /\ credLock[cred[p]] = p
          /\ cred[p] \notin revoked /\ (cred[p] \in SingleUse => cred[p] \notin used)
    /\ withdrawing # None => credLock[withdrawing] = Admin
    /\ selected => withdrawing # None

(* A single-use credential has bound one account at most.                     *)
BindsOne ==
    \A a, b \in Accounts : boundBy[a] \in SingleUse /\ boundBy[a] = boundBy[b] => a = b

IndInv == /\ TypeOK /\ HoldsNonce /\ CarriesOperands /\ HoldsCredential /\ BindsOne
          /\ CredentialSpentWithAccount

USE AcmeAccountAssumption

(* Each step keeps the types.                                               *)
LEMMA TypeStep ==
    TypeOK /\ HoldsNonce /\ CarriesOperands /\ HoldsCredential /\ [Next]_vars
        => TypeOK'
<1> SUFFICES ASSUME TypeOK /\ HoldsNonce /\ CarriesOperands /\ HoldsCredential, [Next]_vars
             PROVE TypeOK'
  OBVIOUS
<1> USE DEF TypeOK, HoldsNonce, CarriesOperands, HoldsCredential, Registering, rows, request, locks, revocation
<1>1. ASSUME NEW n \in Nonces, IssueNonce(n) PROVE TypeOK'
  BY <1>1 DEF IssueNonce
<1>2. ASSUME NEW n \in Nonces, DeleteExpiredNonce(n) PROVE TypeOK'
  BY <1>2 DEF DeleteExpiredNonce
<1>3. ASSUME NEW c \in Creds, Lapse(c) PROVE TypeOK'
  BY <1>3 DEF Lapse
<1>4. ASSUME NEW c \in Creds, RevokeCredential(c) PROVE TypeOK'
  BY <1>4 DEF RevokeCredential
<1>5. ASSUME NEW p \in Requests, NEW n \in Nonces, NEW k \in Keys, NEW o \in Operations, Receive(p, n, k, o)
      PROVE  TypeOK'
  BY <1>5 DEF Receive
<1>6. ASSUME NEW p \in Requests, ConsumeNonce(p) PROVE TypeOK'
  BY <1>6 DEF ConsumeNonce
<1>7. ASSUME NEW p \in Requests, Authenticate(p) PROVE TypeOK'
  BY <1>7 DEF Authenticate
<1>8. ASSUME NEW p \in Requests, NewAccount(p) PROVE TypeOK'
  BY <1>8 DEF NewAccount
<1>9. ASSUME NEW p \in Requests, UseCredential(p) PROVE TypeOK'
  BY <1>9 DEF UseCredential
<1>10. ASSUME NEW p \in Requests, LockAccount(p) PROVE TypeOK'
  BY <1>10 DEF LockAccount
<1>11. ASSUME NEW p \in Requests, RekeyAccount(p) PROVE TypeOK'
  BY <1>11 DEF RekeyAccount
<1>12. ASSUME NEW p \in Requests, Commit(p) PROVE TypeOK'
  BY SMTT(30), <1>12 DEF Commit, Write, Stamp, End
<1>13. ASSUME NEW p \in Requests, Abort(p) PROVE TypeOK'
  BY <1>13 DEF Abort, End
<1>14. ASSUME NEW p \in Requests, NEW a \in Accounts, CreateAccount(p, a) PROVE TypeOK'
  BY <1>14 DEF CreateAccount
<1>15. ASSUME SelectAccounts PROVE TypeOK'
  BY <1>15 DEF SelectAccounts
<1>16. ASSUME NEW a \in Accounts, DeactivateAccount(a) PROVE TypeOK'
  BY <1>16 DEF DeactivateAccount
<1>17. ASSUME RevocationCommit PROVE TypeOK'
  <2>1. revoked' \subseteq Creds
    BY <1>17 DEF RevocationCommit
  <2>2. status' \in [Accounts -> {"absent", "valid", "deactivated"}]
    BY <1>17 DEF RevocationCommit
  <2>3. /\ credLock' \in [Creds -> Requests \union {Free, Admin}]
        /\ accountLock' \in [Accounts -> Requests \union {Free, Admin}]
    BY <1>17 DEF RevocationCommit, EndRevocation
  <2> QED
    BY <1>17, <2>1, <2>2, <2>3 DEF RevocationCommit, EndRevocation
<1>18. ASSUME RevocationFail PROVE TypeOK'
  <2>1. /\ withdrawing' = None /\ selected' = FALSE /\ todo' = {} /\ hits' = {}
        /\ UNCHANGED <<issued, nonces, rows, pc, request, nonceLock, keyLock, accepted>>
    BY <1>18 DEF RevocationFail, EndRevocation
  <2>2. credLock' \in [Creds -> Requests \union {Free, Admin}]
    BY <1>18 DEF RevocationFail, EndRevocation
  <2>3. accountLock' \in [Accounts -> Requests \union {Free, Admin}]
    BY <1>18 DEF RevocationFail, EndRevocation
  <2> QED
    BY <2>1, <2>2, <2>3
<1>19. CASE UNCHANGED vars
  BY <1>19 DEF vars
<1> QED
  BY <1>1, <1>2, <1>3, <1>4, <1>5, <1>6, <1>7, <1>8, <1>9, <1>10, <1>11, <1>12, <1>13, <1>14,
     <1>15, <1>16, <1>17, <1>18, <1>19
     DEF Next, Step, Revocation

(* The row of a nonce is locked by one request and gone when it commits.    *)
LEMMA NonceStep ==
    TypeOK /\ HoldsNonce /\ [Next]_vars
        => HoldsNonce'
<1> SUFFICES ASSUME TypeOK /\ HoldsNonce, [Next]_vars
             PROVE HoldsNonce'
  OBVIOUS
<1> USE DEF TypeOK, HoldsNonce, rows, request, locks, revocation
<1>1. ASSUME NEW n \in Nonces, IssueNonce(n) PROVE HoldsNonce'
  BY <1>1 DEF IssueNonce
<1>2. ASSUME NEW n \in Nonces, DeleteExpiredNonce(n) PROVE HoldsNonce'
  BY <1>2 DEF DeleteExpiredNonce
<1>3. ASSUME NEW c \in Creds, Lapse(c) PROVE HoldsNonce'
  BY <1>3 DEF Lapse
<1>4. ASSUME NEW c \in Creds, RevokeCredential(c) PROVE HoldsNonce'
  BY <1>4 DEF RevokeCredential
<1>5. ASSUME NEW p \in Requests, NEW n \in Nonces, NEW k \in Keys, NEW o \in Operations, Receive(p, n, k, o)
      PROVE  HoldsNonce'
  BY <1>5 DEF Receive
<1>6. ASSUME NEW p \in Requests, ConsumeNonce(p) PROVE HoldsNonce'
  BY <1>6 DEF ConsumeNonce
<1>7. ASSUME NEW p \in Requests, Authenticate(p) PROVE HoldsNonce'
  BY <1>7 DEF Authenticate
<1>8. ASSUME NEW p \in Requests, NewAccount(p) PROVE HoldsNonce'
  BY <1>8 DEF NewAccount
<1>9. ASSUME NEW p \in Requests, UseCredential(p) PROVE HoldsNonce'
  BY <1>9 DEF UseCredential
<1>10. ASSUME NEW p \in Requests, LockAccount(p) PROVE HoldsNonce'
  BY <1>10 DEF LockAccount
<1>11. ASSUME NEW p \in Requests, RekeyAccount(p) PROVE HoldsNonce'
  BY <1>11 DEF RekeyAccount
<1>12. ASSUME NEW p \in Requests, Commit(p) PROVE HoldsNonce'
  BY <1>12 DEF Commit, Write, Stamp, End
<1>13. ASSUME NEW p \in Requests, Abort(p) PROVE HoldsNonce'
  BY <1>13 DEF Abort, End
<1>14. ASSUME NEW p \in Requests, NEW a \in Accounts, CreateAccount(p, a) PROVE HoldsNonce'
  BY <1>14 DEF CreateAccount
<1>15. ASSUME SelectAccounts PROVE HoldsNonce'
  BY <1>15 DEF SelectAccounts
<1>16. ASSUME NEW a \in Accounts, DeactivateAccount(a) PROVE HoldsNonce'
  BY <1>16 DEF DeactivateAccount
<1>17. ASSUME RevocationCommit PROVE HoldsNonce'
  BY <1>17 DEF RevocationCommit, EndRevocation
<1>18. ASSUME RevocationFail PROVE HoldsNonce'
  BY <1>18 DEF RevocationFail, EndRevocation
<1>19. CASE UNCHANGED vars
  BY <1>19 DEF vars
<1> QED
  BY <1>1, <1>2, <1>3, <1>4, <1>5, <1>6, <1>7, <1>8, <1>9, <1>10, <1>11, <1>12, <1>13, <1>14,
     <1>15, <1>16, <1>17, <1>18, <1>19
     DEF Next, Step, Revocation

(* Each request carries what its operation needs.                           *)
LEMMA OperandStep ==
    TypeOK /\ CarriesOperands /\ [Next]_vars
        => CarriesOperands'
<1> SUFFICES ASSUME TypeOK /\ CarriesOperands, [Next]_vars
             PROVE CarriesOperands'
  OBVIOUS
<1> USE DEF TypeOK, CarriesOperands, Registering, rows, request, locks, revocation
<1>1. ASSUME NEW n \in Nonces, IssueNonce(n) PROVE CarriesOperands'
  BY <1>1 DEF IssueNonce
<1>2. ASSUME NEW n \in Nonces, DeleteExpiredNonce(n) PROVE CarriesOperands'
  BY <1>2 DEF DeleteExpiredNonce
<1>3. ASSUME NEW c \in Creds, Lapse(c) PROVE CarriesOperands'
  BY <1>3 DEF Lapse
<1>4. ASSUME NEW c \in Creds, RevokeCredential(c) PROVE CarriesOperands'
  BY <1>4 DEF RevokeCredential
<1>5. ASSUME NEW p \in Requests, NEW n \in Nonces, NEW k \in Keys, NEW o \in Operations, Receive(p, n, k, o)
      PROVE  CarriesOperands'
  BY <1>5 DEF Receive
<1>6. ASSUME NEW p \in Requests, ConsumeNonce(p) PROVE CarriesOperands'
  BY ZenonT(30), <1>6 DEF ConsumeNonce
<1>7. ASSUME NEW p \in Requests, Authenticate(p) PROVE CarriesOperands'
  BY <1>7 DEF Authenticate
<1>8. ASSUME NEW p \in Requests, NewAccount(p) PROVE CarriesOperands'
  BY <1>8 DEF NewAccount
<1>9. ASSUME NEW p \in Requests, UseCredential(p) PROVE CarriesOperands'
  BY <1>9 DEF UseCredential
<1>10. ASSUME NEW p \in Requests, LockAccount(p) PROVE CarriesOperands'
  BY <1>10 DEF LockAccount
<1>11. ASSUME NEW p \in Requests, RekeyAccount(p) PROVE CarriesOperands'
  BY <1>11 DEF RekeyAccount
<1>12. ASSUME NEW p \in Requests, Commit(p) PROVE CarriesOperands'
  BY <1>12 DEF Commit, Write, Stamp, End
<1>13. ASSUME NEW p \in Requests, Abort(p) PROVE CarriesOperands'
  BY <1>13 DEF Abort, End
<1>14. ASSUME NEW p \in Requests, NEW a \in Accounts, CreateAccount(p, a) PROVE CarriesOperands'
  BY <1>14 DEF CreateAccount
<1>15. ASSUME SelectAccounts PROVE CarriesOperands'
  BY <1>15 DEF SelectAccounts
<1>16. ASSUME NEW a \in Accounts, DeactivateAccount(a) PROVE CarriesOperands'
  BY <1>16 DEF DeactivateAccount
<1>17. ASSUME RevocationCommit PROVE CarriesOperands'
  BY <1>17 DEF RevocationCommit, EndRevocation
<1>18. ASSUME RevocationFail PROVE CarriesOperands'
  BY <1>18 DEF RevocationFail, EndRevocation
<1>19. CASE UNCHANGED vars
  BY <1>19 DEF vars
<1> QED
  BY <1>1, <1>2, <1>3, <1>4, <1>5, <1>6, <1>7, <1>8, <1>9, <1>10, <1>11, <1>12, <1>13, <1>14,
     <1>15, <1>16, <1>17, <1>18, <1>19
     DEF Next, Step, Revocation

(* Credentials are used and revoked by the holder of their row only.        *)
LEMMA CredentialStep ==
    TypeOK /\ CarriesOperands /\ HoldsCredential /\ [Next]_vars
        => HoldsCredential'
<1> SUFFICES ASSUME TypeOK /\ CarriesOperands /\ HoldsCredential, [Next]_vars
             PROVE HoldsCredential'
  OBVIOUS
<1> USE DEF TypeOK, CarriesOperands, HoldsCredential, Registering, rows, request, locks, revocation
<1>1. ASSUME NEW n \in Nonces, IssueNonce(n) PROVE HoldsCredential'
  BY <1>1 DEF IssueNonce
<1>2. ASSUME NEW n \in Nonces, DeleteExpiredNonce(n) PROVE HoldsCredential'
  BY <1>2 DEF DeleteExpiredNonce
<1>3. ASSUME NEW c \in Creds, Lapse(c) PROVE HoldsCredential'
  BY <1>3 DEF Lapse
<1>4. ASSUME NEW c \in Creds, RevokeCredential(c) PROVE HoldsCredential'
  BY <1>4 DEF RevokeCredential
<1>5. ASSUME NEW p \in Requests, NEW n \in Nonces, NEW k \in Keys, NEW o \in Operations, Receive(p, n, k, o)
      PROVE  HoldsCredential'
  BY <1>5 DEF Receive
<1>6. ASSUME NEW p \in Requests, ConsumeNonce(p) PROVE HoldsCredential'
  BY <1>6 DEF ConsumeNonce
<1>7. ASSUME NEW p \in Requests, Authenticate(p) PROVE HoldsCredential'
  BY <1>7 DEF Authenticate
<1>8. ASSUME NEW p \in Requests, NewAccount(p) PROVE HoldsCredential'
  BY <1>8 DEF NewAccount
<1>9. ASSUME NEW p \in Requests, UseCredential(p) PROVE HoldsCredential'
  BY <1>9 DEF UseCredential, Usable
<1>10. ASSUME NEW p \in Requests, LockAccount(p) PROVE HoldsCredential'
  BY <1>10 DEF LockAccount
<1>11. ASSUME NEW p \in Requests, RekeyAccount(p) PROVE HoldsCredential'
  BY <1>11 DEF RekeyAccount
<1>12. ASSUME NEW p \in Requests, Commit(p) PROVE HoldsCredential'
  BY <1>12 DEF Commit, Write, Stamp, End
<1>13. ASSUME NEW p \in Requests, Abort(p) PROVE HoldsCredential'
  BY <1>13 DEF Abort, End
<1>14. ASSUME NEW p \in Requests, NEW a \in Accounts, CreateAccount(p, a) PROVE HoldsCredential'
  BY <1>14 DEF CreateAccount
<1>15. ASSUME SelectAccounts PROVE HoldsCredential'
  BY <1>15 DEF SelectAccounts
<1>16. ASSUME NEW a \in Accounts, DeactivateAccount(a) PROVE HoldsCredential'
  BY <1>16 DEF DeactivateAccount
<1>17. ASSUME RevocationCommit PROVE HoldsCredential'
  BY <1>17 DEF RevocationCommit, EndRevocation
<1>18. ASSUME RevocationFail PROVE HoldsCredential'
  BY <1>18 DEF RevocationFail, EndRevocation
<1>19. CASE UNCHANGED vars
  BY <1>19 DEF vars
<1> QED
  BY <1>1, <1>2, <1>3, <1>4, <1>5, <1>6, <1>7, <1>8, <1>9, <1>10, <1>11, <1>12, <1>13, <1>14,
     <1>15, <1>16, <1>17, <1>18, <1>19
     DEF Next, Step, Revocation

(* An account is bound by a credential that has bound none, if it is        *)
(* single-use.                                                              *)
LEMMA BindsStep ==
    TypeOK /\ CarriesOperands /\ HoldsCredential /\ CredentialSpentWithAccount /\ BindsOne /\ [Next]_vars
        => BindsOne'
<1> SUFFICES ASSUME TypeOK /\ CarriesOperands /\ HoldsCredential /\ CredentialSpentWithAccount /\ BindsOne, [Next]_vars
             PROVE BindsOne'
  OBVIOUS
<1> USE DEF TypeOK, CarriesOperands, HoldsCredential, Registering, CredentialSpentWithAccount, BindsOne, rows, request, locks, revocation
<1>1. ASSUME NEW n \in Nonces, IssueNonce(n) PROVE BindsOne'
  BY <1>1 DEF IssueNonce
<1>2. ASSUME NEW n \in Nonces, DeleteExpiredNonce(n) PROVE BindsOne'
  BY <1>2 DEF DeleteExpiredNonce
<1>3. ASSUME NEW c \in Creds, Lapse(c) PROVE BindsOne'
  BY <1>3 DEF Lapse
<1>4. ASSUME NEW c \in Creds, RevokeCredential(c) PROVE BindsOne'
  BY <1>4 DEF RevokeCredential
<1>5. ASSUME NEW p \in Requests, NEW n \in Nonces, NEW k \in Keys, NEW o \in Operations, Receive(p, n, k, o)
      PROVE  BindsOne'
  BY <1>5 DEF Receive
<1>6. ASSUME NEW p \in Requests, ConsumeNonce(p) PROVE BindsOne'
  BY <1>6 DEF ConsumeNonce
<1>7. ASSUME NEW p \in Requests, Authenticate(p) PROVE BindsOne'
  BY <1>7 DEF Authenticate
<1>8. ASSUME NEW p \in Requests, NewAccount(p) PROVE BindsOne'
  BY <1>8 DEF NewAccount
<1>9. ASSUME NEW p \in Requests, UseCredential(p) PROVE BindsOne'
  BY <1>9 DEF UseCredential
<1>10. ASSUME NEW p \in Requests, LockAccount(p) PROVE BindsOne'
  BY <1>10 DEF LockAccount
<1>11. ASSUME NEW p \in Requests, RekeyAccount(p) PROVE BindsOne'
  BY <1>11 DEF RekeyAccount
<1>12. ASSUME NEW p \in Requests, Commit(p) PROVE BindsOne'
  BY <1>12 DEF Commit, Write, Stamp, End
<1>13. ASSUME NEW p \in Requests, Abort(p) PROVE BindsOne'
  BY <1>13 DEF Abort, End
<1>14. ASSUME NEW p \in Requests, NEW a \in Accounts, CreateAccount(p, a) PROVE BindsOne'
  BY <1>14 DEF CreateAccount
<1>15. ASSUME SelectAccounts PROVE BindsOne'
  BY <1>15 DEF SelectAccounts
<1>16. ASSUME NEW a \in Accounts, DeactivateAccount(a) PROVE BindsOne'
  BY <1>16 DEF DeactivateAccount
<1>17. ASSUME RevocationCommit PROVE BindsOne'
  BY <1>17 DEF RevocationCommit, EndRevocation
<1>18. ASSUME RevocationFail PROVE BindsOne'
  BY <1>18 DEF RevocationFail, EndRevocation
<1>19. CASE UNCHANGED vars
  BY <1>19 DEF vars
<1> QED
  BY <1>1, <1>2, <1>3, <1>4, <1>5, <1>6, <1>7, <1>8, <1>9, <1>10, <1>11, <1>12, <1>13, <1>14,
     <1>15, <1>16, <1>17, <1>18, <1>19
     DEF Next, Step, Revocation

(* A credential is stamped with the account it binds.                       *)
LEMMA SpentStep ==
    TypeOK /\ CarriesOperands /\ CredentialSpentWithAccount /\ [Next]_vars
        => CredentialSpentWithAccount'
<1> SUFFICES ASSUME TypeOK /\ CarriesOperands /\ CredentialSpentWithAccount, [Next]_vars
             PROVE CredentialSpentWithAccount'
  OBVIOUS
<1> USE DEF TypeOK, CarriesOperands, Registering, CredentialSpentWithAccount, rows, request, locks, revocation
<1>1. ASSUME NEW n \in Nonces, IssueNonce(n) PROVE CredentialSpentWithAccount'
  BY <1>1 DEF IssueNonce
<1>2. ASSUME NEW n \in Nonces, DeleteExpiredNonce(n) PROVE CredentialSpentWithAccount'
  BY <1>2 DEF DeleteExpiredNonce
<1>3. ASSUME NEW c \in Creds, Lapse(c) PROVE CredentialSpentWithAccount'
  BY <1>3 DEF Lapse
<1>4. ASSUME NEW c \in Creds, RevokeCredential(c) PROVE CredentialSpentWithAccount'
  BY <1>4 DEF RevokeCredential
<1>5. ASSUME NEW p \in Requests, NEW n \in Nonces, NEW k \in Keys, NEW o \in Operations, Receive(p, n, k, o)
      PROVE  CredentialSpentWithAccount'
  BY <1>5 DEF Receive
<1>6. ASSUME NEW p \in Requests, ConsumeNonce(p) PROVE CredentialSpentWithAccount'
  BY <1>6 DEF ConsumeNonce
<1>7. ASSUME NEW p \in Requests, Authenticate(p) PROVE CredentialSpentWithAccount'
  BY <1>7 DEF Authenticate
<1>8. ASSUME NEW p \in Requests, NewAccount(p) PROVE CredentialSpentWithAccount'
  BY <1>8 DEF NewAccount
<1>9. ASSUME NEW p \in Requests, UseCredential(p) PROVE CredentialSpentWithAccount'
  BY <1>9 DEF UseCredential
<1>10. ASSUME NEW p \in Requests, LockAccount(p) PROVE CredentialSpentWithAccount'
  BY <1>10 DEF LockAccount
<1>11. ASSUME NEW p \in Requests, RekeyAccount(p) PROVE CredentialSpentWithAccount'
  BY <1>11 DEF RekeyAccount
<1>12. ASSUME NEW p \in Requests, Commit(p) PROVE CredentialSpentWithAccount'
  BY <1>12 DEF Commit, Write, Stamp, End
<1>13. ASSUME NEW p \in Requests, Abort(p) PROVE CredentialSpentWithAccount'
  BY <1>13 DEF Abort, End
<1>14. ASSUME NEW p \in Requests, NEW a \in Accounts, CreateAccount(p, a)
      PROVE  CredentialSpentWithAccount'
  BY <1>14 DEF CreateAccount
<1>15. ASSUME SelectAccounts PROVE CredentialSpentWithAccount'
  BY <1>15 DEF SelectAccounts
<1>16. ASSUME NEW a \in Accounts, DeactivateAccount(a) PROVE CredentialSpentWithAccount'
  BY <1>16 DEF DeactivateAccount
<1>17. ASSUME RevocationCommit PROVE CredentialSpentWithAccount'
  BY <1>17 DEF RevocationCommit, EndRevocation
<1>18. ASSUME RevocationFail PROVE CredentialSpentWithAccount'
  BY <1>18 DEF RevocationFail, EndRevocation
<1>19. CASE UNCHANGED vars
  BY <1>19 DEF vars
<1> QED
  BY <1>1, <1>2, <1>3, <1>4, <1>5, <1>6, <1>7, <1>8, <1>9, <1>10, <1>11, <1>12, <1>13, <1>14,
     <1>15, <1>16, <1>17, <1>18, <1>19
     DEF Next, Step, Revocation

(* Every step preserves the whole of it.                                     *)
LEMMA IndInvStep == IndInv /\ [Next]_vars => IndInv'
  BY TypeStep, NonceStep, OperandStep, CredentialStep, BindsStep, SpentStep DEF IndInv

(* The invariant the theorems rest on.                                       *)
THEOREM Inductive == Spec => []IndInv
<1>1. Init => IndInv
  <2> SUFFICES ASSUME Init PROVE IndInv
    OBVIOUS
  <2> USE DEF Init
  <2>1. TypeOK
    BY DEF TypeOK
  <2>2. HoldsNonce /\ CarriesOperands /\ HoldsCredential
    BY DEF HoldsNonce, CarriesOperands, HoldsCredential, Registering
  <2>3. BindsOne /\ CredentialSpentWithAccount
    BY DEF BindsOne, CredentialSpentWithAccount
  <2> QED
    BY <2>1, <2>2, <2>3 DEF IndInv
<1> QED
  BY <1>1, IndInvStep, PTL DEF Spec

(* Where at most one element has a property, the set of those has at most one.*)
LEMMA AtMostOne ==
  ASSUME NEW S, \A a, b \in S : a = b
  PROVE  Cardinality(S) <= 1
<1>1. CASE S = {}
  BY <1>1, FS_EmptySet
<1>2. ASSUME NEW a \in S PROVE Cardinality(S) <= 1
  <2>1. S = {a}
    OBVIOUS
  <2>2. Cardinality({a}) = 1
    BY FS_Singleton
  <2> QED
    BY <2>1, <2>2
<1> QED
  BY <1>1, <1>2

(* repo.go: two clients racing on a one-shot credential do not both succeed,  *)
(* and the credential is stamped with the one account.                        *)
THEOREM SingleUseOnce == Spec => []SingleUseIsSpent
<1>1. IndInv => SingleUseIsSpent
  <2> SUFFICES ASSUME IndInv, NEW c \in SingleUse
               PROVE  Cardinality({a \in Accounts : boundBy[a] = c}) <= 1
    BY DEF IndInv, SingleUseIsSpent, SingleUseBindsOne
  <2>1. \A a, b \in {x \in Accounts : boundBy[x] = c} : a = b
    BY DEF IndInv, BindsOne
  <2> QED
    BY <2>1, AtMostOne
<1> QED
  BY <1>1, Inductive, PTL

(* A replay nonce carries one request to its commit, however often and by     *)
(* however many connections it is sent.                                       *)
THEOREM NonceCarriesOne == Spec => []NonceAcceptedOnce
<1>1. IndInv => NonceAcceptedOnce
  BY DEF IndInv, HoldsNonce, NonceAcceptedOnce
<1> QED
  BY <1>1, Inductive, PTL

(* Only the commit of a registration binds an account, and it holds the row   *)
(* of its credential then.                                                    *)
LEMMA BindingStep ==
  IndInv /\ [Next]_vars =>
    \A a \in Accounts : boundBy'[a] # boundBy[a] => boundBy'[a] \notin revoked \union {withdrawing}
<1> SUFFICES ASSUME IndInv, [Next]_vars, NEW a \in Accounts, boundBy'[a] # boundBy[a]
             PROVE  boundBy'[a] \notin revoked \union {withdrawing}
  OBVIOUS
<1>1. ~UNCHANGED boundBy
  OBVIOUS
<1>2. PICK p \in Requests : Commit(p)
  BY <1>1 DEF Next, Step, Revocation, vars, rows, IssueNonce, DeleteExpiredNonce, Lapse,
     RevokeCredential, Receive, ConsumeNonce, Authenticate, NewAccount, UseCredential, LockAccount,
     RekeyAccount, Abort, CreateAccount, SelectAccounts, DeactivateAccount, RevocationCommit,
     RevocationFail
<1>3. Registering(p) /\ boundBy'[a] = cred[p]
  BY <1>1, <1>2 DEF Commit, Write, Registering, IndInv, TypeOK
<1>4. cred[p] \in Creds /\ credLock[cred[p]] = p /\ cred[p] \notin revoked
  BY <1>3 DEF IndInv, CarriesOperands, HoldsCredential, Registering
<1> QED
  BY <1>3, <1>4 DEF IndInv, HoldsCredential

(* repo.go, RevokeCredential: a registration and the revocation of its        *)
(* credential never cross, so the second UPDATE misses no account.            *)
THEOREM RevocationMissesNone == Spec => RevocationSeesEveryAccount
  BY BindingStep, Inductive, PTL DEF Spec, RevocationSeesEveryAccount
=============================================================================

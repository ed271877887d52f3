------------------------ MODULE ScepEnrollment_proofs ------------------------
(* Proofs about ScepEnrollment for every number of requests, transaction ids, *)
(* challenges and serials: one certificate for each transaction, challenges   *)
(* spent with their certificate, and that the endpoint implements             *)
(* ScepTransaction.  What carries them is the organization's lock: whoever    *)
(* decides by what is on record is alone until its transaction ends.          *)
EXTENDS ScepEnrollment, TLAPS

Holding == {"lookup", "authorize", "issue", "notify", "record", "commit", "replay"}
HasSigned == {"notify", "record", "commit"}

(* A request under way carries its message; from the look-up of its           *)
(* transaction to the end of its own it has the organization to itself.       *)
HoldsOrganization ==
    \A p \in Requests :
        /\ pc[p] # "idle" => /\ tx[p] \in Txs /\ csr[p] \in CSRs /\ key[p] \in Keys
                            /\ password[p] \in Credentials
        /\ pc[p] \in Holding => orgLock = p
        /\ pc[p] \notin HasSigned \union {"replay"} => leaf[p] = None

(* What a request has signed is recorded by nobody yet, and a transaction     *)
(* that was granted nothing names no certificate.                             *)
FreshLeaf ==
    /\ \A p \in Requests : pc[p] \in HasSigned => leaf[p] \in signed \ recorded
    /\ Foreign \subseteq recorded /\ recorded \subseteq signed
    /\ \A t \in Txs : status[t] # "issued" => certOf[t] = None

(* Past the look-up, the transaction is still without a certificate, or still *)
(* has the one its message was granted.                                       *)
LookupStands ==
    \A p \in Requests :
        /\ pc[p] = "authorize" \/ Signing(p) => status[tx[p]] # "issued"
        /\ pc[p] = "replay" => /\ status[tx[p]] = "issued" /\ SameMessage(p)
                              /\ leaf[p] = certOf[tx[p]]

(* The credential that authorized a request is still good when it commits: a  *)
(* challenge unspent, a renewed certificate one of this endpoint.             *)
CredentialStands ==
    \A p \in Requests : Signing(p) =>
        /\ source[p] = "one_time" <=> password[p] \in Challenges
        /\ password[p] \notin used /\ password[p] \notin Foreign

(* Devices were told what is on record, and all that is on record.            *)
Granted(t) == <<t, csrOf[t], keyOf[t], certOf[t]>>

AnswersAreRows ==
    /\ \A a \in answers : a[1] \in Txs /\ status[a[1]] = "issued" /\ a = Granted(a[1])
    /\ \A t \in Txs : status[t] = "issued" => Granted(t) \in answers

IndInv == /\ TypeOK /\ HoldsOrganization /\ FreshLeaf /\ LookupStands /\ CredentialStands
          /\ OneCertificatePerTransaction /\ AnswersAreRows /\ ChallengeSpentOnce

USE ScepAssumption

(* Each step keeps the types.                                               *)
LEMMA TypeStep ==
    IndInv /\ [Next]_vars
        => TypeOK'
<1> SUFFICES ASSUME IndInv, [Next]_vars
             PROVE TypeOK'
  OBVIOUS
<1> USE DEF IndInv, TypeOK, config, rows, tables, message, locks, history
<1>1. ASSUME SetEnabled PROVE TypeOK'
  BY <1>1 DEF SetEnabled
<1>2. ASSUME NEW m \in Methods, SetMethodEnabled(m) PROVE TypeOK'
  BY <1>2 DEF SetMethodEnabled
<1>3. ASSUME NEW c \in Challenges, Lapse(c) PROVE TypeOK'
  BY <1>3 DEF Lapse
<1>4. ASSUME NEW c \in Certs, RevokeCertificate(c) PROVE TypeOK'
  BY <1>4 DEF RevokeCertificate
<1>5. ASSUME NEW p \in Requests, NEW t \in Txs, NEW r \in CSRs, NEW k \in Keys, NEW w \in Credentials, Receive(p, t, r, k, w)
      PROVE  TypeOK'
  BY <1>5 DEF Receive
<1>6. ASSUME NEW p \in Requests, CheckRequest(p) PROVE TypeOK'
  BY <1>6 DEF CheckRequest
<1>7. ASSUME NEW p \in Requests, LockOrganization(p) PROVE TypeOK'
  BY <1>7 DEF LockOrganization
<1>8. ASSUME NEW p \in Requests, Transaction(p) PROVE TypeOK'
  BY <1>8 DEF Transaction, SameMessage, HoldsOrganization
<1>9. ASSUME NEW p \in Requests, Authorize(p) PROVE TypeOK'
  <2>1. Accepts(p) \in Methods \union {"renewal", "none"}
    BY DEF Accepts, Methods
  <2> QED
    BY <1>9, <2>1 DEF Authorize
<1>10. ASSUME NEW p \in Requests, Unauthorized(p) PROVE TypeOK'
  BY <1>10 DEF Unauthorized
<1>11. ASSUME NEW p \in Requests, IssueRefused(p) PROVE TypeOK'
  BY <1>11 DEF IssueRefused
<1>12. ASSUME NEW p \in Requests, NotifySuccess(p) PROVE TypeOK'
  BY <1>12 DEF NotifySuccess
<1>13. ASSUME NEW p \in Requests, CreateTransaction(p) PROVE TypeOK'
  BY <1>13 DEF CreateTransaction
<1>14. ASSUME NEW p \in Requests, Commit(p) PROVE TypeOK'
  <2>1. leaf[p] \in Certs
    BY <1>14 DEF Commit, FreshLeaf, HasSigned
  <2>2. used' \subseteq Challenges
    BY <1>14 DEF Commit, CredentialStands, Signing
  <2>3. <<tx[p], csr[p], key[p], leaf[p]>> \in Txs \X CSRs \X Keys \X Certs
    BY <1>14, <2>1 DEF Commit, HoldsOrganization
  <2>4. answers' \subseteq Txs \X CSRs \X Keys \X Certs
    BY <1>14, <2>3 DEF Commit, Answered
  <2> HIDE DEF IndInv
  <2> QED
    BY <1>14, <2>1, <2>2, <2>4 DEF IndInv, HoldsOrganization, Commit, End, Release, Forget
<1>15. ASSUME NEW p \in Requests, Replay(p) PROVE TypeOK'
  <2>1. leaf[p] \in Certs
    BY <1>15 DEF Replay, LookupStands, OneCertificatePerTransaction, HoldsOrganization
  <2>2. <<tx[p], csr[p], key[p], leaf[p]>> \in Txs \X CSRs \X Keys \X Certs
    BY <1>15, <2>1 DEF Replay, HoldsOrganization
  <2>3. answers' \subseteq Txs \X CSRs \X Keys \X Certs
    BY <1>15, <2>2 DEF Replay, Answered
  <2> QED
    BY <1>15, <2>3 DEF Replay, End, Release, Forget
<1>16. ASSUME NEW p \in Requests, Rollback(p) PROVE TypeOK'
  BY <1>16 DEF Rollback, Release, Forget
<1>17. ASSUME NEW p \in Requests, RecordFailure(p) PROVE TypeOK'
  BY <1>17 DEF RecordFailure, End, Release, Forget, FailedRow
<1>18. ASSUME NEW p \in Requests, Fail(p) PROVE TypeOK'
  BY <1>18 DEF Fail, End, Release, Forget, FreshLeaf, HasSigned
<1>19. ASSUME NEW p \in Requests, NEW c \in Certs, Issue(p, c) PROVE TypeOK'
  BY <1>19 DEF Issue
<1>20. CASE UNCHANGED vars
  BY <1>20 DEF vars
<1> QED
  BY <1>1, <1>2, <1>3, <1>4, <1>5, <1>6, <1>7, <1>8, <1>9, <1>10, <1>11, <1>12, <1>13, <1>14,
     <1>15, <1>16, <1>17, <1>18, <1>19, <1>20
     DEF Next, PKIOperation

(* Only a request that finds the lock free takes it, and it is freed by its *)
(* holder.                                                                  *)
LEMMA HoldsStep ==
    TypeOK /\ HoldsOrganization /\ [Next]_vars
        => HoldsOrganization'
<1> SUFFICES ASSUME TypeOK /\ HoldsOrganization, [Next]_vars
             PROVE HoldsOrganization'
  OBVIOUS
<1> USE DEF TypeOK, HoldsOrganization, Holding, HasSigned, config, rows, tables, message, locks, history
<1>1. ASSUME SetEnabled PROVE HoldsOrganization'
  BY <1>1 DEF SetEnabled
<1>2. ASSUME NEW m \in Methods, SetMethodEnabled(m) PROVE HoldsOrganization'
  BY <1>2 DEF SetMethodEnabled
<1>3. ASSUME NEW c \in Challenges, Lapse(c) PROVE HoldsOrganization'
  BY <1>3 DEF Lapse
<1>4. ASSUME NEW c \in Certs, RevokeCertificate(c) PROVE HoldsOrganization'
  BY <1>4 DEF RevokeCertificate
<1>5. ASSUME NEW p \in Requests, NEW t \in Txs, NEW r \in CSRs, NEW k \in Keys, NEW w \in Credentials, Receive(p, t, r, k, w)
      PROVE  HoldsOrganization'
  BY <1>5 DEF Receive
<1>6. ASSUME NEW p \in Requests, CheckRequest(p) PROVE HoldsOrganization'
  BY <1>6 DEF CheckRequest
<1>7. ASSUME NEW p \in Requests, LockOrganization(p) PROVE HoldsOrganization'
  BY <1>7 DEF LockOrganization
<1>8. ASSUME NEW p \in Requests, Transaction(p) PROVE HoldsOrganization'
  BY <1>8 DEF Transaction, SameMessage
<1>9. ASSUME NEW p \in Requests, Authorize(p) PROVE HoldsOrganization'
  BY <1>9 DEF Authorize
<1>10. ASSUME NEW p \in Requests, Unauthorized(p) PROVE HoldsOrganization'
  BY <1>10 DEF Unauthorized
<1>11. ASSUME NEW p \in Requests, IssueRefused(p) PROVE HoldsOrganization'
  BY <1>11 DEF IssueRefused
<1>12. ASSUME NEW p \in Requests, NotifySuccess(p) PROVE HoldsOrganization'
  BY <1>12 DEF NotifySuccess
<1>13. ASSUME NEW p \in Requests, CreateTransaction(p) PROVE HoldsOrganization'
  BY <1>13 DEF CreateTransaction
<1>14. ASSUME NEW p \in Requests, Commit(p) PROVE HoldsOrganization'
  BY <1>14 DEF Commit, End, Release, Forget, Answered
<1>15. ASSUME NEW p \in Requests, Replay(p) PROVE HoldsOrganization'
  BY <1>15 DEF Replay, End, Release, Forget, Answered
<1>16. ASSUME NEW p \in Requests, Rollback(p) PROVE HoldsOrganization'
  BY <1>16 DEF Rollback, Release, Forget
<1>17. ASSUME NEW p \in Requests, RecordFailure(p) PROVE HoldsOrganization'
  BY <1>17 DEF RecordFailure, End, Release, Forget, FailedRow
<1>18. ASSUME NEW p \in Requests, Fail(p) PROVE HoldsOrganization'
  BY <1>18 DEF Fail, End, Release, Forget
<1>19. ASSUME NEW p \in Requests, NEW c \in Certs, Issue(p, c) PROVE HoldsOrganization'
  BY <1>19 DEF Issue
<1>20. CASE UNCHANGED vars
  BY <1>20 DEF vars
<1> QED
  BY <1>1, <1>2, <1>3, <1>4, <1>5, <1>6, <1>7, <1>8, <1>9, <1>10, <1>11, <1>12, <1>13, <1>14,
     <1>15, <1>16, <1>17, <1>18, <1>19, <1>20
     DEF Next, PKIOperation

(* A serial is drawn unused and recorded once.                              *)
LEMMA FreshStep ==
    TypeOK /\ HoldsOrganization /\ FreshLeaf /\ [Next]_vars
        => FreshLeaf'
<1> SUFFICES ASSUME TypeOK /\ HoldsOrganization /\ FreshLeaf, [Next]_vars
             PROVE FreshLeaf'
  OBVIOUS
<1> USE DEF TypeOK, HoldsOrganization, FreshLeaf, Holding, HasSigned, config, rows, tables, message, locks, history
<1>1. ASSUME SetEnabled PROVE FreshLeaf'
  BY <1>1 DEF SetEnabled
<1>2. ASSUME NEW m \in Methods, SetMethodEnabled(m) PROVE FreshLeaf'
  BY <1>2 DEF SetMethodEnabled
<1>3. ASSUME NEW c \in Challenges, Lapse(c) PROVE FreshLeaf'
  BY <1>3 DEF Lapse
<1>4. ASSUME NEW c \in Certs, RevokeCertificate(c) PROVE FreshLeaf'
  BY <1>4 DEF RevokeCertificate
<1>5. ASSUME NEW p \in Requests, NEW t \in Txs, NEW r \in CSRs, NEW k \in Keys, NEW w \in Credentials, Receive(p, t, r, k, w)
      PROVE  FreshLeaf'
  BY <1>5 DEF Receive
<1>6. ASSUME NEW p \in Requests, CheckRequest(p) PROVE FreshLeaf'
  BY <1>6 DEF CheckRequest
<1>7. ASSUME NEW p \in Requests, LockOrganization(p) PROVE FreshLeaf'
  BY <1>7 DEF LockOrganization
<1>8. ASSUME NEW p \in Requests, Transaction(p) PROVE FreshLeaf'
  BY <1>8 DEF Transaction, SameMessage
<1>9. ASSUME NEW p \in Requests, Authorize(p) PROVE FreshLeaf'
  BY <1>9 DEF Authorize
<1>10. ASSUME NEW p \in Requests, Unauthorized(p) PROVE FreshLeaf'
  BY <1>10 DEF Unauthorized
<1>11. ASSUME NEW p \in Requests, IssueRefused(p) PROVE FreshLeaf'
  BY <1>11 DEF IssueRefused
<1>12. ASSUME NEW p \in Requests, NotifySuccess(p) PROVE FreshLeaf'
  BY <1>12 DEF NotifySuccess
<1>13. ASSUME NEW p \in Requests, CreateTransaction(p) PROVE FreshLeaf'
  BY <1>13 DEF CreateTransaction
<1>14. ASSUME NEW p \in Requests, Commit(p) PROVE FreshLeaf'
  BY <1>14 DEF Commit, End, Release, Forget, Answered
<1>15. ASSUME NEW p \in Requests, Replay(p) PROVE FreshLeaf'
  BY <1>15 DEF Replay, End, Release, Forget, Answered
<1>16. ASSUME NEW p \in Requests, Rollback(p) PROVE FreshLeaf'
  BY <1>16 DEF Rollback, Release, Forget
<1>17. ASSUME NEW p \in Requests, RecordFailure(p) PROVE FreshLeaf'
  BY <1>17 DEF RecordFailure, End, Release, Forget, FailedRow
<1>18. ASSUME NEW p \in Requests, Fail(p) PROVE FreshLeaf'
  BY <1>18 DEF Fail, End, Release, Forget
<1>19. ASSUME NEW p \in Requests, NEW c \in Certs, Issue(p, c) PROVE FreshLeaf'
  BY <1>19 DEF Issue
<1>20. CASE UNCHANGED vars
  BY <1>20 DEF vars
<1> QED
  BY <1>1, <1>2, <1>3, <1>4, <1>5, <1>6, <1>7, <1>8, <1>9, <1>10, <1>11, <1>12, <1>13, <1>14,
     <1>15, <1>16, <1>17, <1>18, <1>19, <1>20
     DEF Next, PKIOperation

(* Rows are granted under the lock only, so what the look-up found stands.  *)
LEMMA LookupStep ==
    TypeOK /\ HoldsOrganization /\ LookupStands /\ [Next]_vars
        => LookupStands'
<1> SUFFICES ASSUME TypeOK /\ HoldsOrganization /\ LookupStands, [Next]_vars
             PROVE LookupStands'
  OBVIOUS
<1> USE DEF TypeOK, HoldsOrganization, LookupStands, Signing, SameMessage, Holding, HasSigned, config, rows, tables, message, locks, history
<1>1. ASSUME SetEnabled PROVE LookupStands'
  BY <1>1 DEF SetEnabled
<1>2. ASSUME NEW m \in Methods, SetMethodEnabled(m) PROVE LookupStands'
  BY <1>2 DEF SetMethodEnabled
<1>3. ASSUME NEW c \in Challenges, Lapse(c) PROVE LookupStands'
  BY <1>3 DEF Lapse
<1>4. ASSUME NEW c \in Certs, RevokeCertificate(c) PROVE LookupStands'
  BY <1>4 DEF RevokeCertificate
<1>5. ASSUME NEW p \in Requests, NEW t \in Txs, NEW r \in CSRs, NEW k \in Keys, NEW w \in Credentials, Receive(p, t, r, k, w)
      PROVE  LookupStands'
  BY <1>5 DEF Receive
<1>6. ASSUME NEW p \in Requests, CheckRequest(p) PROVE LookupStands'
  BY <1>6 DEF CheckRequest
<1>7. ASSUME NEW p \in Requests, LockOrganization(p) PROVE LookupStands'
  BY <1>7 DEF LockOrganization
<1>8. ASSUME NEW p \in Requests, Transaction(p) PROVE LookupStands'
  BY <1>8 DEF Transaction, SameMessage
<1>9. ASSUME NEW p \in Requests, Authorize(p) PROVE LookupStands'
  BY <1>9 DEF Authorize
<1>10. ASSUME NEW p \in Requests, Unauthorized(p) PROVE LookupStands'
  BY <1>10 DEF Unauthorized
<1>11. ASSUME NEW p \in Requests, IssueRefused(p) PROVE LookupStands'
  BY <1>11 DEF IssueRefused
<1>12. ASSUME NEW p \in Requests, NotifySuccess(p) PROVE LookupStands'
  BY <1>12 DEF NotifySuccess
<1>13. ASSUME NEW p \in Requests, CreateTransaction(p) PROVE LookupStands'
  BY <1>13 DEF CreateTransaction
<1>14. ASSUME NEW p \in Requests, Commit(p) PROVE LookupStands'
  BY <1>14 DEF Commit, End, Release, Forget, Answered
<1>15. ASSUME NEW p \in Requests, Replay(p) PROVE LookupStands'
  BY <1>15 DEF Replay, End, Release, Forget, Answered
<1>16. ASSUME NEW p \in Requests, Rollback(p) PROVE LookupStands'
  BY <1>16 DEF Rollback, Release, Forget
<1>17. ASSUME NEW p \in Requests, RecordFailure(p) PROVE LookupStands'
  BY <1>17 DEF RecordFailure, End, Release, Forget, FailedRow
<1>18. ASSUME NEW p \in Requests, Fail(p) PROVE LookupStands'
  BY <1>18 DEF Fail, End, Release, Forget
<1>19. ASSUME NEW p \in Requests, NEW c \in Certs, Issue(p, c) PROVE LookupStands'
  BY <1>19 DEF Issue
<1>20. CASE UNCHANGED vars
  BY <1>20 DEF vars
<1> QED
  BY <1>1, <1>2, <1>3, <1>4, <1>5, <1>6, <1>7, <1>8, <1>9, <1>10, <1>11, <1>12, <1>13, <1>14,
     <1>15, <1>16, <1>17, <1>18, <1>19, <1>20
     DEF Next, PKIOperation

(* Challenges are spent under the lock only, so what authorized the request *)
(* stands.                                                                  *)
LEMMA CredentialStep ==
    TypeOK /\ HoldsOrganization /\ OneCertificatePerTransaction /\ CredentialStands /\ [Next]_vars
        => CredentialStands'
<1> SUFFICES ASSUME TypeOK /\ HoldsOrganization /\ OneCertificatePerTransaction /\ CredentialStands, [Next]_vars
             PROVE CredentialStands'
  OBVIOUS
<1> USE DEF TypeOK, HoldsOrganization, CredentialStands, Signing, Holding, HasSigned, Credentials, config, rows, tables, message, locks, history
<1>1. ASSUME SetEnabled PROVE CredentialStands'
  BY <1>1 DEF SetEnabled
<1>2. ASSUME NEW m \in Methods, SetMethodEnabled(m) PROVE CredentialStands'
  BY <1>2 DEF SetMethodEnabled
<1>3. ASSUME NEW c \in Challenges, Lapse(c) PROVE CredentialStands'
  BY <1>3 DEF Lapse
<1>4. ASSUME NEW c \in Certs, RevokeCertificate(c) PROVE CredentialStands'
  BY <1>4 DEF RevokeCertificate
<1>5. ASSUME NEW p \in Requests, NEW t \in Txs, NEW r \in CSRs, NEW k \in Keys, NEW w \in Credentials, Receive(p, t, r, k, w)
      PROVE  CredentialStands'
  BY <1>5 DEF Receive
<1>6. ASSUME NEW p \in Requests, CheckRequest(p) PROVE CredentialStands'
  BY <1>6 DEF CheckRequest
<1>7. ASSUME NEW p \in Requests, LockOrganization(p) PROVE CredentialStands'
  BY <1>7 DEF LockOrganization
<1>8. ASSUME NEW p \in Requests, Transaction(p) PROVE CredentialStands'
  BY <1>8 DEF Transaction, SameMessage
<1>9. ASSUME NEW p \in Requests, Authorize(p) PROVE CredentialStands'
  BY <1>9 DEF Authorize, Accepts, Usable, Renewable, IssuedHere, OneCertificatePerTransaction, Methods
<1>10. ASSUME NEW p \in Requests, Unauthorized(p) PROVE CredentialStands'
  BY <1>10 DEF Unauthorized
<1>11. ASSUME NEW p \in Requests, IssueRefused(p) PROVE CredentialStands'
  BY <1>11 DEF IssueRefused
<1>12. ASSUME NEW p \in Requests, NotifySuccess(p) PROVE CredentialStands'
  BY <1>12 DEF NotifySuccess
<1>13. ASSUME NEW p \in Requests, CreateTransaction(p) PROVE CredentialStands'
  BY <1>13 DEF CreateTransaction
<1>14. ASSUME NEW p \in Requests, Commit(p) PROVE CredentialStands'
  BY <1>14 DEF Commit, End, Release, Forget, Answered
<1>15. ASSUME NEW p \in Requests, Replay(p) PROVE CredentialStands'
  BY <1>15 DEF Replay, End, Release, Forget, Answered
<1>16. ASSUME NEW p \in Requests, Rollback(p) PROVE CredentialStands'
  BY <1>16 DEF Rollback, Release, Forget
<1>17. ASSUME NEW p \in Requests, RecordFailure(p) PROVE CredentialStands'
  BY <1>17 DEF RecordFailure, End, Release, Forget, FailedRow
<1>18. ASSUME NEW p \in Requests, Fail(p) PROVE CredentialStands'
  BY <1>18 DEF Fail, End, Release, Forget
<1>19. ASSUME NEW p \in Requests, NEW c \in Certs, Issue(p, c) PROVE CredentialStands'
  BY <1>19 DEF Issue
<1>20. CASE UNCHANGED vars
  BY <1>20 DEF vars
<1> QED
  BY <1>1, <1>2, <1>3, <1>4, <1>5, <1>6, <1>7, <1>8, <1>9, <1>10, <1>11, <1>12, <1>13, <1>14,
     <1>15, <1>16, <1>17, <1>18, <1>19, <1>20
     DEF Next, PKIOperation

(* A certificate enters the records with its transaction.                   *)
LEMMA OneStep ==
    TypeOK /\ HoldsOrganization /\ FreshLeaf /\ LookupStands /\ OneCertificatePerTransaction /\ [Next]_vars
        => OneCertificatePerTransaction'
<1> SUFFICES ASSUME TypeOK /\ HoldsOrganization /\ FreshLeaf /\ LookupStands /\ OneCertificatePerTransaction, [Next]_vars
             PROVE OneCertificatePerTransaction'
  OBVIOUS
<1> USE DEF TypeOK, HoldsOrganization, FreshLeaf, LookupStands, OneCertificatePerTransaction, Signing, Holding, HasSigned, config, rows, tables, message, locks, history
<1>1. ASSUME SetEnabled PROVE OneCertificatePerTransaction'
  BY <1>1 DEF SetEnabled
<1>2. ASSUME NEW m \in Methods, SetMethodEnabled(m) PROVE OneCertificatePerTransaction'
  BY <1>2 DEF SetMethodEnabled
<1>3. ASSUME NEW c \in Challenges, Lapse(c) PROVE OneCertificatePerTransaction'
  BY <1>3 DEF Lapse
<1>4. ASSUME NEW c \in Certs, RevokeCertificate(c) PROVE OneCertificatePerTransaction'
  BY <1>4 DEF RevokeCertificate
<1>5. ASSUME NEW p \in Requests, NEW t \in Txs, NEW r \in CSRs, NEW k \in Keys, NEW w \in Credentials, Receive(p, t, r, k, w)
      PROVE  OneCertificatePerTransaction'
  BY <1>5 DEF Receive
<1>6. ASSUME NEW p \in Requests, CheckRequest(p) PROVE OneCertificatePerTransaction'
  BY <1>6 DEF CheckRequest
<1>7. ASSUME NEW p \in Requests, LockOrganization(p) PROVE OneCertificatePerTransaction'
  BY <1>7 DEF LockOrganization
<1>8. ASSUME NEW p \in Requests, Transaction(p) PROVE OneCertificatePerTransaction'
  BY <1>8 DEF Transaction, SameMessage
<1>9. ASSUME NEW p \in Requests, Authorize(p) PROVE OneCertificatePerTransaction'
  BY <1>9 DEF Authorize
<1>10. ASSUME NEW p \in Requests, Unauthorized(p) PROVE OneCertificatePerTransaction'
  BY <1>10 DEF Unauthorized
<1>11. ASSUME NEW p \in Requests, IssueRefused(p) PROVE OneCertificatePerTransaction'
  BY <1>11 DEF IssueRefused
<1>12. ASSUME NEW p \in Requests, NotifySuccess(p) PROVE OneCertificatePerTransaction'
  BY <1>12 DEF NotifySuccess
<1>13. ASSUME NEW p \in Requests, CreateTransaction(p) PROVE OneCertificatePerTransaction'
  BY <1>13 DEF CreateTransaction
<1>14. ASSUME NEW p \in Requests, Commit(p) PROVE OneCertificatePerTransaction'
  <2>1. status[tx[p]] # "issued" /\ leaf[p] \notin recorded /\ tx[p] \in Txs
    BY <1>14 DEF Commit
  <2>2. /\ recorded' = recorded \union {leaf[p]}
        /\ \A t \in Txs : status'[t] = "issued" <=> t = tx[p] \/ status[t] = "issued"
        /\ \A t \in Txs : certOf'[t] = IF t = tx[p] THEN leaf[p] ELSE certOf[t]
    BY <1>14, <2>1 DEF Commit
  <2>3. \A t \in Txs : status[t] = "issued" => certOf[t] \in recorded \ Foreign
    OBVIOUS
  <2>4. recorded' \ Foreign = (recorded \ Foreign) \union {leaf[p]}
    BY <2>1, <2>2
  <2>5. {certOf'[t] : t \in {u \in Txs : status'[u] = "issued"}}
          = {certOf[t] : t \in {u \in Txs : status[u] = "issued"}} \union {leaf[p]}
    BY <2>1, <2>2
  <2>6. leaf[p] \in Certs
    BY <1>14 DEF Commit
  <2>7. \A t, u \in Txs : status'[t] = "issued" /\ certOf'[t] = certOf'[u] => t = u
    BY <2>1, <2>2, <2>3, <2>6
  <2> QED
    BY <2>4, <2>5, <2>7
<1>15. ASSUME NEW p \in Requests, Replay(p) PROVE OneCertificatePerTransaction'
  BY <1>15 DEF Replay, End, Release, Forget, Answered
<1>16. ASSUME NEW p \in Requests, Rollback(p) PROVE OneCertificatePerTransaction'
  BY <1>16 DEF Rollback, Release, Forget
<1>17. ASSUME NEW p \in Requests, RecordFailure(p) PROVE OneCertificatePerTransaction'
  <2>1. /\ recorded' = recorded
        /\ \A t \in Txs : status'[t] = "issued" <=> status[t] = "issued"
        /\ \A t \in Txs : status[t] = "issued" => certOf'[t] = certOf[t]
    BY <1>17 DEF RecordFailure, FailedRow
  <2>2. {certOf'[t] : t \in {u \in Txs : status'[u] = "issued"}}
          = {certOf[t] : t \in {u \in Txs : status[u] = "issued"}}
    BY <2>1
  <2>3. \A t \in Txs : status[t] = "issued" => certOf[t] \in Certs
    OBVIOUS
  <2>4. \A t \in Txs : status'[t] # "issued" => certOf'[t] = None
    BY <1>17 DEF RecordFailure, FailedRow
  <2>5. \A t, u \in Txs : status'[t] = "issued" /\ certOf'[t] = certOf'[u] => t = u
    BY <2>1, <2>3, <2>4
  <2> QED
    BY <2>1, <2>2, <2>5
<1>18. ASSUME NEW p \in Requests, Fail(p) PROVE OneCertificatePerTransaction'
  BY <1>18 DEF Fail, End, Release, Forget
<1>19. ASSUME NEW p \in Requests, NEW c \in Certs, Issue(p, c) PROVE OneCertificatePerTransaction'
  BY <1>19 DEF Issue
<1>20. CASE UNCHANGED vars
  BY <1>20 DEF vars
<1> QED
  BY <1>1, <1>2, <1>3, <1>4, <1>5, <1>6, <1>7, <1>8, <1>9, <1>10, <1>11, <1>12, <1>13, <1>14,
     <1>15, <1>16, <1>17, <1>18, <1>19, <1>20
     DEF Next, PKIOperation

(* A device is told what its transaction was granted, then and ever after.  *)
LEMMA AnswerStep ==
    TypeOK /\ HoldsOrganization /\ LookupStands /\ AnswersAreRows /\ [Next]_vars
        => AnswersAreRows'
<1> SUFFICES ASSUME TypeOK /\ HoldsOrganization /\ LookupStands /\ AnswersAreRows, [Next]_vars
             PROVE AnswersAreRows'
  OBVIOUS
<1> USE DEF TypeOK, HoldsOrganization, LookupStands, AnswersAreRows, Granted, Signing, Holding, HasSigned, config, rows, tables, message, locks, history
<1>1. ASSUME SetEnabled PROVE AnswersAreRows'
  BY <1>1 DEF SetEnabled
<1>2. ASSUME NEW m \in Methods, SetMethodEnabled(m) PROVE AnswersAreRows'
  BY <1>2 DEF SetMethodEnabled
<1>3. ASSUME NEW c \in Challenges, Lapse(c) PROVE AnswersAreRows'
  BY <1>3 DEF Lapse
<1>4. ASSUME NEW c \in Certs, RevokeCertificate(c) PROVE AnswersAreRows'
  BY <1>4 DEF RevokeCertificate
<1>5. ASSUME NEW p \in Requests, NEW t \in Txs, NEW r \in CSRs, NEW k \in Keys, NEW w \in Credentials, Receive(p, t, r, k, w)
      PROVE  AnswersAreRows'
  BY <1>5 DEF Receive
<1>6. ASSUME NEW p \in Requests, CheckRequest(p) PROVE AnswersAreRows'
  BY <1>6 DEF CheckRequest
<1>7. ASSUME NEW p \in Requests, LockOrganization(p) PROVE AnswersAreRows'
  BY <1>7 DEF LockOrganization
<1>8. ASSUME NEW p \in Requests, Transaction(p) PROVE AnswersAreRows'
  BY <1>8 DEF Transaction, SameMessage
<1>9. ASSUME NEW p \in Requests, Authorize(p) PROVE AnswersAreRows'
  BY <1>9 DEF Authorize
<1>10. ASSUME NEW p \in Requests, Unauthorized(p) PROVE AnswersAreRows'
  BY <1>10 DEF Unauthorized
<1>11. ASSUME NEW p \in Requests, IssueRefused(p) PROVE AnswersAreRows'
  BY <1>11 DEF IssueRefused
<1>12. ASSUME NEW p \in Requests, NotifySuccess(p) PROVE AnswersAreRows'
  BY <1>12 DEF NotifySuccess
<1>13. ASSUME NEW p \in Requests, CreateTransaction(p) PROVE AnswersAreRows'
  BY <1>13 DEF CreateTransaction
<1>14. ASSUME NEW p \in Requests, Commit(p) PROVE AnswersAreRows'
  BY <1>14 DEF Commit, End, Release, Forget, Answered
<1>15. ASSUME NEW p \in Requests, Replay(p) PROVE AnswersAreRows'
  BY <1>15 DEF Replay, End, Release, Forget, Answered, SameMessage
<1>16. ASSUME NEW p \in Requests, Rollback(p) PROVE AnswersAreRows'
  BY <1>16 DEF Rollback, Release, Forget
<1>17. ASSUME NEW p \in Requests, RecordFailure(p) PROVE AnswersAreRows'
  BY <1>17 DEF RecordFailure, End, Release, Forget, FailedRow
<1>18. ASSUME NEW p \in Requests, Fail(p) PROVE AnswersAreRows'
  BY <1>18 DEF Fail, End, Release, Forget
<1>19. ASSUME NEW p \in Requests, NEW c \in Certs, Issue(p, c) PROVE AnswersAreRows'
  BY <1>19 DEF Issue
<1>20. CASE UNCHANGED vars
  BY <1>20 DEF vars
<1> QED
  BY <1>1, <1>2, <1>3, <1>4, <1>5, <1>6, <1>7, <1>8, <1>9, <1>10, <1>11, <1>12, <1>13, <1>14,
     <1>15, <1>16, <1>17, <1>18, <1>19, <1>20
     DEF Next, PKIOperation

(* A challenge is marked with the certificate it bought, and was unspent.   *)
LEMMA SpentStep ==
    TypeOK /\ HoldsOrganization /\ FreshLeaf /\ CredentialStands /\ ChallengeSpentOnce /\ [Next]_vars
        => ChallengeSpentOnce'
<1> SUFFICES ASSUME TypeOK /\ HoldsOrganization /\ FreshLeaf /\ CredentialStands /\ ChallengeSpentOnce, [Next]_vars
             PROVE ChallengeSpentOnce'
  OBVIOUS
<1> USE DEF TypeOK, HoldsOrganization, FreshLeaf, CredentialStands, ChallengeSpentOnce, Signing, Holding, HasSigned, config, rows, tables, message, locks, history
<1>1. ASSUME SetEnabled PROVE ChallengeSpentOnce'
  BY <1>1 DEF SetEnabled
<1>2. ASSUME NEW m \in Methods, SetMethodEnabled(m) PROVE ChallengeSpentOnce'
  BY <1>2 DEF SetMethodEnabled
<1>3. ASSUME NEW c \in Challenges, Lapse(c) PROVE ChallengeSpentOnce'
  BY <1>3 DEF Lapse
<1>4. ASSUME NEW c \in Certs, RevokeCertificate(c) PROVE ChallengeSpentOnce'
  BY <1>4 DEF RevokeCertificate
<1>5. ASSUME NEW p \in Requests, NEW t \in Txs, NEW r \in CSRs, NEW k \in Keys, NEW w \in Credentials, Receive(p, t, r, k, w)
      PROVE  ChallengeSpentOnce'
  BY <1>5 DEF Receive
<1>6. ASSUME NEW p \in Requests, CheckRequest(p) PROVE ChallengeSpentOnce'
  BY <1>6 DEF CheckRequest
<1>7. ASSUME NEW p \in Requests, LockOrganization(p) PROVE ChallengeSpentOnce'
  BY <1>7 DEF LockOrganization
<1>8. ASSUME NEW p \in Requests, Transaction(p) PROVE ChallengeSpentOnce'
  BY <1>8 DEF Transaction, SameMessage
<1>9. ASSUME NEW p \in Requests, Authorize(p) PROVE ChallengeSpentOnce'
  BY <1>9 DEF Authorize
<1>10. ASSUME NEW p \in Requests, Unauthorized(p) PROVE ChallengeSpentOnce'
  BY <1>10 DEF Unauthorized
<1>11. ASSUME NEW p \in Requests, IssueRefused(p) PROVE ChallengeSpentOnce'
  BY <1>11 DEF IssueRefused
<1>12. ASSUME NEW p \in Requests, NotifySuccess(p) PROVE ChallengeSpentOnce'
  BY <1>12 DEF NotifySuccess
<1>13. ASSUME NEW p \in Requests, CreateTransaction(p) PROVE ChallengeSpentOnce'
  BY <1>13 DEF CreateTransaction
<1>14. ASSUME NEW p \in Requests, Commit(p) PROVE ChallengeSpentOnce'
  BY <1>14 DEF Commit, End, Release, Forget, Answered
<1>15. ASSUME NEW p \in Requests, Replay(p) PROVE ChallengeSpentOnce'
  BY <1>15 DEF Replay, End, Release, Forget, Answered
<1>16. ASSUME NEW p \in Requests, Rollback(p) PROVE ChallengeSpentOnce'
  BY <1>16 DEF Rollback, Release, Forget
<1>17. ASSUME NEW p \in Requests, RecordFailure(p) PROVE ChallengeSpentOnce'
  BY <1>17 DEF RecordFailure, End, Release, Forget, FailedRow
<1>18. ASSUME NEW p \in Requests, Fail(p) PROVE ChallengeSpentOnce'
  BY <1>18 DEF Fail, End, Release, Forget
<1>19. ASSUME NEW p \in Requests, NEW c \in Certs, Issue(p, c) PROVE ChallengeSpentOnce'
  BY <1>19 DEF Issue
<1>20. CASE UNCHANGED vars
  BY <1>20 DEF vars
<1> QED
  BY <1>1, <1>2, <1>3, <1>4, <1>5, <1>6, <1>7, <1>8, <1>9, <1>10, <1>11, <1>12, <1>13, <1>14,
     <1>15, <1>16, <1>17, <1>18, <1>19, <1>20
     DEF Next, PKIOperation

(* A signature is recorded, on its way, or wasted by a failure.             *)
LEMMA KeptStep ==
    IndInv /\ SignedIsKept /\ [Next]_vars
        => SignedIsKept'
<1> SUFFICES ASSUME IndInv /\ SignedIsKept, [Next]_vars
             PROVE SignedIsKept'
  OBVIOUS
<1> USE DEF IndInv, TypeOK, HoldsOrganization, FreshLeaf, SignedIsKept, Holding, HasSigned, config, rows, tables, message, locks, history
<1>0. \A p \in Requests : pc[p] = "replay" => leaf[p] \in recorded
  BY DEF LookupStands, OneCertificatePerTransaction
<1>1. ASSUME SetEnabled PROVE SignedIsKept'
  BY <1>1 DEF SetEnabled
<1>2. ASSUME NEW m \in Methods, SetMethodEnabled(m) PROVE SignedIsKept'
  BY <1>2 DEF SetMethodEnabled
<1>3. ASSUME NEW c \in Challenges, Lapse(c) PROVE SignedIsKept'
  BY <1>3 DEF Lapse
<1>4. ASSUME NEW c \in Certs, RevokeCertificate(c) PROVE SignedIsKept'
  BY <1>4 DEF RevokeCertificate
<1>5. ASSUME NEW p \in Requests, NEW t \in Txs, NEW r \in CSRs, NEW k \in Keys, NEW w \in Credentials, Receive(p, t, r, k, w)
      PROVE  SignedIsKept'
  BY <1>5 DEF Receive
<1>6. ASSUME NEW p \in Requests, CheckRequest(p) PROVE SignedIsKept'
  BY <1>6 DEF CheckRequest
<1>7. ASSUME NEW p \in Requests, LockOrganization(p) PROVE SignedIsKept'
  BY <1>7 DEF LockOrganization
<1>8. ASSUME NEW p \in Requests, Transaction(p) PROVE SignedIsKept'
  BY <1>8 DEF Transaction, SameMessage
<1>9. ASSUME NEW p \in Requests, Authorize(p) PROVE SignedIsKept'
  BY <1>9 DEF Authorize
<1>10. ASSUME NEW p \in Requests, Unauthorized(p) PROVE SignedIsKept'
  BY <1>10 DEF Unauthorized
<1>11. ASSUME NEW p \in Requests, IssueRefused(p) PROVE SignedIsKept'
  BY <1>11 DEF IssueRefused
<1>12. ASSUME NEW p \in Requests, NotifySuccess(p) PROVE SignedIsKept'
  BY <1>12 DEF NotifySuccess
<1>13. ASSUME NEW p \in Requests, CreateTransaction(p) PROVE SignedIsKept'
  BY <1>13 DEF CreateTransaction
<1>14. ASSUME NEW p \in Requests, Commit(p) PROVE SignedIsKept'
  BY <1>14 DEF Commit, End, Release, Forget, Answered
<1>15. ASSUME NEW p \in Requests, Replay(p) PROVE SignedIsKept'
  BY <1>15, <1>0 DEF Replay, End, Release, Forget, Answered
<1>16. ASSUME NEW p \in Requests, Rollback(p) PROVE SignedIsKept'
  BY <1>16 DEF Rollback, Release, Forget
<1>17. ASSUME NEW p \in Requests, RecordFailure(p) PROVE SignedIsKept'
  BY <1>17 DEF RecordFailure, End, Release, Forget, FailedRow
<1>18. ASSUME NEW p \in Requests, Fail(p) PROVE SignedIsKept'
  BY <1>18, <1>0 DEF Fail, End, Release, Forget
<1>19. ASSUME NEW p \in Requests, NEW c \in Certs, Issue(p, c) PROVE SignedIsKept'
  BY <1>19 DEF Issue
<1>20. CASE UNCHANGED vars
  BY <1>20 DEF vars
<1> QED
  BY <1>1, <1>2, <1>3, <1>4, <1>5, <1>6, <1>7, <1>8, <1>9, <1>10, <1>11, <1>12, <1>13, <1>14,
     <1>15, <1>16, <1>17, <1>18, <1>19, <1>20
     DEF Next, PKIOperation

(* A certificate is bought with the credential that stands at its commit.   *)
LEMMA RenewedStep ==
    IndInv /\ RenewedHere /\ [Next]_vars
        => RenewedHere'
<1> SUFFICES ASSUME IndInv /\ RenewedHere, [Next]_vars
             PROVE RenewedHere'
  OBVIOUS
<1> USE DEF IndInv, TypeOK, HoldsOrganization, FreshLeaf, CredentialStands, Signing, RenewedHere, Holding, HasSigned, config, rows, tables, message, locks, history
<1>1. ASSUME SetEnabled PROVE RenewedHere'
  BY <1>1 DEF SetEnabled
<1>2. ASSUME NEW m \in Methods, SetMethodEnabled(m) PROVE RenewedHere'
  BY <1>2 DEF SetMethodEnabled
<1>3. ASSUME NEW c \in Challenges, Lapse(c) PROVE RenewedHere'
  BY <1>3 DEF Lapse
<1>4. ASSUME NEW c \in Certs, RevokeCertificate(c) PROVE RenewedHere'
  BY <1>4 DEF RevokeCertificate
<1>5. ASSUME NEW p \in Requests, NEW t \in Txs, NEW r \in CSRs, NEW k \in Keys, NEW w \in Credentials, Receive(p, t, r, k, w)
      PROVE  RenewedHere'
  BY <1>5 DEF Receive
<1>6. ASSUME NEW p \in Requests, CheckRequest(p) PROVE RenewedHere'
  BY <1>6 DEF CheckRequest
<1>7. ASSUME NEW p \in Requests, LockOrganization(p) PROVE RenewedHere'
  BY <1>7 DEF LockOrganization
<1>8. ASSUME NEW p \in Requests, Transaction(p) PROVE RenewedHere'
  BY <1>8 DEF Transaction, SameMessage
<1>9. ASSUME NEW p \in Requests, Authorize(p) PROVE RenewedHere'
  BY <1>9 DEF Authorize
<1>10. ASSUME NEW p \in Requests, Unauthorized(p) PROVE RenewedHere'
  BY <1>10 DEF Unauthorized
<1>11. ASSUME NEW p \in Requests, IssueRefused(p) PROVE RenewedHere'
  BY <1>11 DEF IssueRefused
<1>12. ASSUME NEW p \in Requests, NotifySuccess(p) PROVE RenewedHere'
  BY <1>12 DEF NotifySuccess
<1>13. ASSUME NEW p \in Requests, CreateTransaction(p) PROVE RenewedHere'
  BY <1>13 DEF CreateTransaction
<1>14. ASSUME NEW p \in Requests, Commit(p) PROVE RenewedHere'
  BY <1>14 DEF Commit, End, Release, Forget, Answered
<1>15. ASSUME NEW p \in Requests, Replay(p) PROVE RenewedHere'
  BY <1>15 DEF Replay, End, Release, Forget, Answered
<1>16. ASSUME NEW p \in Requests, Rollback(p) PROVE RenewedHere'
  BY <1>16 DEF Rollback, Release, Forget
<1>17. ASSUME NEW p \in Requests, RecordFailure(p) PROVE RenewedHere'
  BY <1>17 DEF RecordFailure, End, Release, Forget, FailedRow
<1>18. ASSUME NEW p \in Requests, Fail(p) PROVE RenewedHere'
  BY <1>18 DEF Fail, End, Release, Forget
<1>19. ASSUME NEW p \in Requests, NEW c \in Certs, Issue(p, c) PROVE RenewedHere'
  BY <1>19 DEF Issue
<1>20. CASE UNCHANGED vars
  BY <1>20 DEF vars
<1> QED
  BY <1>1, <1>2, <1>3, <1>4, <1>5, <1>6, <1>7, <1>8, <1>9, <1>10, <1>11, <1>12, <1>13, <1>14,
     <1>15, <1>16, <1>17, <1>18, <1>19, <1>20
     DEF Next, PKIOperation

(* Every step preserves the whole of it.                                     *)
LEMMA IndInvStep == IndInv /\ [Next]_vars => IndInv'
  BY TypeStep, HoldsStep, FreshStep, LookupStep, CredentialStep, OneStep, AnswerStep, SpentStep
     DEF IndInv

(* The invariant the theorems rest on.                                       *)
THEOREM Inductive == Spec => []IndInv
<1>1. Init => IndInv
  <2> SUFFICES ASSUME Init PROVE IndInv
    OBVIOUS
  <2> USE DEF Init
  <2>1. TypeOK
    BY DEF TypeOK
  <2>2. HoldsOrganization /\ FreshLeaf /\ LookupStands /\ CredentialStands
    BY DEF HoldsOrganization, FreshLeaf, LookupStands, CredentialStands, Signing, Holding, HasSigned
  <2>3. OneCertificatePerTransaction
    BY DEF OneCertificatePerTransaction
  <2>4. AnswersAreRows /\ ChallengeSpentOnce
    BY DEF AnswersAreRows, ChallengeSpentOnce
  <2> QED
    BY <2>1, <2>2, <2>3, <2>4 DEF IndInv
<1> QED
  BY <1>1, IndInvStep, PTL DEF Spec

(* service.go: "concurrent retries cannot both sign": enrolments run one at a *)
(* time and a transaction id has one certificate, for any number of devices.  *)
THEOREM OneEach == Spec => []OneCertificateEach
<1>1. IndInv => OneCertificateEach
  BY DEF IndInv, OneCertificateEach, SignsAlone, Signing, LookupStands, HoldsOrganization, Holding
<1> QED
  BY <1>1, Inductive, PTL

(* A challenge buys one certificate, and is spent only with it.              *)
THEOREM ChallengesBuyOnce == Spec => []ChallengeSpentOnce
<1>1. IndInv => ChallengeSpentOnce
  BY DEF IndInv
<1> QED
  BY <1>1, Inductive, PTL

(* What was signed is recorded, about to be, or lost to a failed transaction. *)
THEOREM SignaturesAreKept == Spec => []SignedIsKept
<1>1. Init => SignedIsKept
  BY DEF Init, SignedIsKept
<1>2. IndInv /\ SignedIsKept /\ [Next]_vars => SignedIsKept'
  BY KeptStep
<1> QED
  BY <1>1, <1>2, Inductive, PTL DEF Spec

(* No certificate was bought with one of another endpoint.                   *)
THEOREM RenewalsStayHere == Spec => []RenewedHere
<1>1. Init => RenewedHere
  BY DEF Init, RenewedHere
<1>2. IndInv /\ RenewedHere /\ [Next]_vars => RenewedHere'
  BY RenewedStep
<1> QED
  BY <1>1, <1>2, Inductive, PTL DEF Spec

(* A step of the endpoint is a grant, a noted failure, or shows nothing.     *)
LEMMA PromiseStep == IndInv /\ [Next]_vars => [Promise!Next]_<<status, answers>>
<1> SUFFICES ASSUME IndInv, [Next]_vars PROVE [Promise!Next]_<<status, answers>>
  OBVIOUS
<1> USE DEF config, rows, tables, message, locks, history
<1>1. ASSUME NEW p \in Requests, Commit(p) PROVE Promise!Next
  <2>1. /\ tx[p] \in Txs /\ csr[p] \in CSRs /\ key[p] \in Keys
        /\ leaf[p] \in Certs \ recorded /\ status[tx[p]] # "issued"
    BY <1>1 DEF Commit, IndInv, TypeOK, HoldsOrganization, FreshLeaf, HasSigned, LookupStands, Signing
  <2>2. \A a \in answers : a[1] # tx[p] /\ a[4] # leaf[p]
    <3>1. \A t \in Txs : status[t] = "issued" => certOf[t] \in recorded
      BY DEF IndInv, OneCertificatePerTransaction
    <3> QED
      BY <2>1, <3>1 DEF IndInv, AnswersAreRows, Granted
  <2>3. Promise!Grant(tx[p], csr[p], key[p], leaf[p])
    BY <1>1, <2>1, <2>2 DEF Commit, Answered, Promise!Grant
  <2> QED
    BY <2>1, <2>3 DEF Promise!Next
<1>2. ASSUME NEW p \in Requests, Replay(p) PROVE UNCHANGED <<status, answers>>
  <2>1. answers' = answers \union {<<tx[p], csr[p], key[p], leaf[p]>>} /\ status' = status
    BY <1>2 DEF Replay, Answered
  <2>2. <<tx[p], csr[p], key[p], leaf[p]>> \in answers
    BY <1>2 DEF Replay, IndInv, HoldsOrganization, LookupStands, SameMessage, AnswersAreRows, Granted
  <2> QED
    BY <2>1, <2>2
<1>3. ASSUME NEW p \in Requests, RecordFailure(p)
      PROVE  Promise!Next \/ UNCHANGED <<status, answers>>
  <2>1. tx[p] \in Txs
    BY <1>3 DEF RecordFailure, IndInv, HoldsOrganization
  <2> QED
    BY <1>3, <2>1 DEF RecordFailure, FailedRow, Promise!Next, Promise!NoteFailure
<1>4. ASSUME \/ SetEnabled
             \/ \E m \in Methods : SetMethodEnabled(m)
             \/ \E c \in Challenges : Lapse(c)
             \/ \E c \in Certs : RevokeCertificate(c)
      PROVE  UNCHANGED <<status, answers>>
  BY <1>4 DEF SetEnabled, SetMethodEnabled, Lapse, RevokeCertificate
<1>5. ASSUME NEW p \in Requests, NEW t \in Txs, NEW r \in CSRs, NEW k \in Keys,
             NEW w \in Credentials, Receive(p, t, r, k, w)
      PROVE  UNCHANGED <<status, answers>>
  BY <1>5 DEF Receive
<1>6. ASSUME NEW p \in Requests,
             \/ CheckRequest(p) \/ LockOrganization(p) \/ Transaction(p) \/ Authorize(p)
             \/ Unauthorized(p) \/ IssueRefused(p) \/ NotifySuccess(p) \/ CreateTransaction(p)
             \/ Rollback(p) \/ Fail(p) \/ \E c \in Certs : Issue(p, c)
      PROVE  UNCHANGED <<status, answers>>
  BY <1>6 DEF CheckRequest, LockOrganization, Transaction, Authorize, Unauthorized, IssueRefused,
              NotifySuccess, CreateTransaction, Rollback, Fail, Issue
<1>7. CASE UNCHANGED vars
  BY <1>7 DEF vars
<1>8. ASSUME NEW p \in Requests, PKIOperation(p) \/ Fail(p)
      PROVE  Promise!Next \/ UNCHANGED <<status, answers>>
  BY <1>1, <1>2, <1>3, <1>6, <1>8 DEF PKIOperation
<1> QED
  BY <1>4, <1>5, <1>7, <1>8 DEF Next

(* docs/scep.md: "a recorded success is never overwritten by a later         *)
(* failure", nor by another enrolment.                                       *)
LEMMA SuccessStep == IndInv /\ [Next]_vars => [RetryGetsTheSame' /\ SuccessStays]_vars
<1> SUFFICES ASSUME IndInv, [Next]_vars PROVE RetryGetsTheSame' /\ SuccessStays
  OBVIOUS
<1>1. RetryGetsTheSame'
  <2>1. AnswersAreRows'
    BY IndInvStep DEF IndInv
  <2> QED
    BY <2>1 DEF AnswersAreRows, Granted, RetryGetsTheSame
<1>2. SuccessStays
  <2>1. CASE \E p \in Requests : Commit(p)
    BY <2>1 DEF Commit, SuccessStays, rows, IndInv, LookupStands, Signing, TypeOK
  <2>2. CASE \E p \in Requests : RecordFailure(p)
    BY <2>2 DEF RecordFailure, FailedRow, SuccessStays, rows, IndInv, TypeOK
  <2>3. CASE UNCHANGED rows
    BY <2>3 DEF rows, SuccessStays
  <2> QED
    BY <2>1, <2>2, <2>3
       DEF Next, PKIOperation, vars, tables, SetEnabled, SetMethodEnabled, Lapse, RevokeCertificate,
           Receive, CheckRequest, LockOrganization, Transaction, Authorize, Unauthorized,
           IssueRefused, NotifySuccess, CreateTransaction, Replay, Rollback, Fail, Issue
<1> QED
  BY <1>1, <1>2

(* The endpoint keeps ScepTransaction's promise: retries, refusals, failures  *)
(* and concurrent enrolments show a device nothing but one final grant for    *)
(* each transaction id, of a certificate no other id was granted.             *)
THEOREM KeepsPromise == Spec => RetriesAgree
<1>1. Init => Promise!Init
  BY DEF Init, Promise!Init
<1>2. Spec => ImplementsPromise
  BY <1>1, PromiseStep, Inductive, PTL
     DEF Spec, ImplementsPromise, Promise!Spec, Promise!vars
<1>3. Spec => [][RetryGetsTheSame' /\ SuccessStays]_vars
  BY SuccessStep, Inductive, PTL DEF Spec
<1> QED
  BY <1>2, <1>3, PTL DEF RetriesAgree
=============================================================================

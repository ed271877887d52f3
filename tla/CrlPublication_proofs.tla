------------------------ MODULE CrlPublication_proofs ------------------------
(* Proofs about what certificates say and what is said of them.               *)
(* CrlPublication, for every number of certificates, consoles, syncs,         *)
(* workers, fetches and OCSP requests: the CRL lists what is revoked or says  *)
(* that it does not, only grows, and OCSP never contradicts it.  The CRL lock *)
(* carries them: between publishing and committing nobody else can make a     *)
(* revocation or a CRL public.  IssuancePolicy, for every sequence of         *)
(* profiles, policies, pins and requests: a certificate says what every level *)
(* above it permits.                                                          *)
EXTENDS CrlPublication, IssuancePolicy, Integers, TLAPS

----------------------------------------------------------------------------
(* CrlPublication.                                                           *)

(* A transaction with a CRL or an error to commit holds the CRL lock; one     *)
(* with a revocation holds it from its publication on, and has something to   *)
(* say of it: PublishCRL saved a CRL or an error.                             *)
HoldsCRL ==
    \A p \in Publishers :
        /\ pc[p] = "row" => current[p] \in Certs
        /\ pc[p] = "publish" \/ wrote[p] # "none" => crlLock = p
        /\ mine[p] # {} /\ pc[p] \notin {"lock", "publish"} => wrote[p] # "none"

(* A CRL about to be committed lists all that is listed, and nothing that is  *)
(* not revoked in the eyes of its transaction, under a greater number.  It    *)
(* lists every revocation, unless the transaction has one still to publish.   *)
DraftIsWhole ==
    \A p \in Publishers : HasCrl(p) =>
        /\ entries \subseteq newEntries[p] /\ newEntries[p] \subseteq Listed(p)
        /\ number <= newNumber[p] /\ (number < MaxNumber => number < newNumber[p])
        /\ wrote[p] = "crl" /\ pc[p] \notin {"lock", "publish"} => Listed(p) \subseteq newEntries[p]

(* An OCSP request that came after the revocation read it.                    *)
LateSawRevoked == \A o \in late : asked[o] # None /\ seen[o] = "revoked"

IndInv == /\ TypeOK /\ HoldsCRL /\ DraftIsWhole /\ MissingIsNoted /\ EntriesAreRevoked
          /\ LateSawRevoked

USE CrlAssumption

(* Each step keeps the types.                                               *)
LEMMA TypeStep ==
    TypeOK /\ HoldsCRL /\ [Next]_vars
        => TypeOK'
<1> SUFFICES ASSUME TypeOK /\ HoldsCRL, [Next]_vars
             PROVE TypeOK'
  OBVIOUS
<1> USE DEF TypeOK, publication, locks, work, draft, ocsp
<1>1. ASSUME Age PROVE TypeOK'
  BY <1>1 DEF Age
<1>2. ASSUME Cool PROVE TypeOK'
  BY <1>2 DEF Cool
<1>3. ASSUME KmsChange PROVE TypeOK'
  BY <1>3 DEF KmsChange
<1>4. ASSUME NEW p \in Publishers, NEW S \in SUBSET Certs, StartRevoking(p, S) PROVE TypeOK'
  BY <1>4 DEF StartRevoking
<1>5. ASSUME NEW p \in Publishers, StartRenewal(p) PROVE TypeOK'
  BY <1>5 DEF StartRenewal
<1>6. ASSUME NEW p \in Publishers, StartRepublish(p) PROVE TypeOK'
  BY <1>6 DEF StartRepublish
<1>7. ASSUME NEW p \in Publishers, StartFetch(p) PROVE TypeOK'
  BY <1>7 DEF StartFetch
<1>8. ASSUME NEW p \in Publishers, LockCRL(p) PROVE TypeOK'
  BY <1>8 DEF LockCRL
<1>9. ASSUME NEW p \in Publishers, PublishCRL(p) PROVE TypeOK'
  BY <1>9 DEF PublishCRL, Resume, Listed, NextNumber, NumberSeen, HasCrl
<1>10. ASSUME NEW p \in Publishers, PublishFails(p) PROVE TypeOK'
  BY <1>10 DEF PublishFails, Noted, HasCrl, Resume
<1>11. ASSUME NEW p \in Publishers, Commit(p) PROVE TypeOK'
  <2>1. /\ revoked' \subseteq Certs /\ told' \subseteq Certs /\ entries' \subseteq Certs
        /\ number' \in 0 .. MaxNumber /\ age' \in {"fresh", "due", "past"}
    BY <1>11 DEF Commit
  <2>2. lastError' \in BOOLEAN /\ cooling' \in BOOLEAN
    <3>1. CASE wrote[p] = "none"
      BY <1>11, <3>1, Zenon DEF Commit
    <3>2. CASE wrote[p] # "none"
      BY <1>11, <3>2, Zenon DEF Commit
    <3> QED
      BY <3>1, <3>2
  <2>3. cache' \in [Certs -> {"none", "issued", "revoked"}]
    BY <1>11 DEF Commit
  <2>4. /\ certLock' \in [Certs -> Publishers \union {Free}]
        /\ crlLock' \in Publishers \union {Free}
    BY <1>11 DEF Commit, End
  <2>5. /\ newNumber' \in [Publishers -> 0 .. MaxNumber]
        /\ wrote' \in [Publishers -> {"none", "crl", "error", "both"}]
    BY <1>11 DEF Commit, End
  <2>6. /\ batch' \in [Publishers -> SUBSET Certs] /\ mine' \in [Publishers -> SUBSET Certs]
        /\ purged' \in [Publishers -> SUBSET Certs]
        /\ newEntries' \in [Publishers -> SUBSET Certs]
        /\ current' \in [Publishers -> Certs \union {None}]
    BY <1>11 DEF Commit, End
  <2>7. pc' \in [Publishers -> {"idle", "next", "row", "read", "lock", "publish", "commit"}]
    BY <1>11 DEF Commit, End
  <2> QED
    BY <1>11, <2>1, <2>2, <2>3, <2>4, <2>5, <2>6, <2>7 DEF Commit
<1>12. ASSUME NEW p \in Publishers, FetchFails(p) PROVE TypeOK'
  BY <1>12 DEF FetchFails, End
<1>13. ASSUME NEW p \in Publishers, RevokeCertificate(p) PROVE TypeOK'
  BY <1>13 DEF RevokeCertificate, HoldsCRL
<1>14. ASSUME NEW p \in Publishers, AlreadyRevoked(p) PROVE TypeOK'
  BY <1>14 DEF AlreadyRevoked
<1>15. ASSUME NEW p \in Publishers, DeadlockVictim(p) PROVE TypeOK'
  BY <1>15 DEF DeadlockVictim, End
<1>16. ASSUME NEW p \in Publishers, NEW c \in Certs, NextCertificate(p, c) PROVE TypeOK'
  BY <1>16 DEF NextCertificate
<1>17. ASSUME NEW p \in Publishers, Fail(p) PROVE TypeOK'
  BY <1>17 DEF Fail, End
<1>18. ASSUME NEW o \in Responders, NEW answer \in {"issued", "revoked"}, OCSPRespond(o, answer)
      PROVE  TypeOK'
  BY <1>18 DEF OCSPRespond
<1>19. ASSUME NEW o \in Responders, OCSPFail(o) PROVE TypeOK'
  BY <1>19 DEF OCSPFail
<1>20. ASSUME NEW o \in Responders, NEW c \in Certs, OCSPRead(o, c) PROVE TypeOK'
  BY <1>20 DEF OCSPRead, StatusOf
<1>21. CASE UNCHANGED vars
  BY <1>21 DEF vars
<1> QED
  BY SMTT(30), <1>1, <1>2, <1>3, <1>4, <1>5, <1>6, <1>7, <1>8, <1>9, <1>10, <1>11, <1>12, <1>13, <1>14,
     <1>15, <1>16, <1>17, <1>18, <1>19, <1>20, <1>21
     DEF Next, Publish, Revoke

(* The CRL lock is taken free and freed by its holder.                      *)
LEMMA HoldsStep ==
    TypeOK /\ HoldsCRL /\ [Next]_vars
        => HoldsCRL'
<1> SUFFICES ASSUME TypeOK /\ HoldsCRL, [Next]_vars
             PROVE HoldsCRL'
  OBVIOUS
<1> USE DEF TypeOK, HoldsCRL, publication, locks, work, draft, ocsp
<1>1. ASSUME Age PROVE HoldsCRL'
  BY <1>1 DEF Age
<1>2. ASSUME Cool PROVE HoldsCRL'
  BY <1>2 DEF Cool
<1>3. ASSUME KmsChange PROVE HoldsCRL'
  BY <1>3 DEF KmsChange
<1>4. ASSUME NEW p \in Publishers, NEW S \in SUBSET Certs, StartRevoking(p, S) PROVE HoldsCRL'
  BY <1>4 DEF StartRevoking
<1>5. ASSUME NEW p \in Publishers, StartRenewal(p) PROVE HoldsCRL'
  BY <1>5 DEF StartRenewal
<1>6. ASSUME NEW p \in Publishers, StartRepublish(p) PROVE HoldsCRL'
  BY <1>6 DEF StartRepublish
<1>7. ASSUME NEW p \in Publishers, StartFetch(p) PROVE HoldsCRL'
  BY <1>7 DEF StartFetch
<1>8. ASSUME NEW p \in Publishers, LockCRL(p) PROVE HoldsCRL'
  BY <1>8 DEF LockCRL
<1>9. ASSUME NEW p \in Publishers, PublishCRL(p) PROVE HoldsCRL'
  BY <1>9 DEF PublishCRL, Resume, Listed, NextNumber, NumberSeen, HasCrl
<1>10. ASSUME NEW p \in Publishers, PublishFails(p) PROVE HoldsCRL'
  BY <1>10 DEF PublishFails, Noted, HasCrl, Resume
<1>11. ASSUME NEW p \in Publishers, Commit(p) PROVE HoldsCRL'
  BY <1>11 DEF Commit, Done, End, HasCrl
<1>12. ASSUME NEW p \in Publishers, FetchFails(p) PROVE HoldsCRL'
  BY <1>12 DEF FetchFails, End
<1>13. ASSUME NEW p \in Publishers, RevokeCertificate(p) PROVE HoldsCRL'
  BY <1>13 DEF RevokeCertificate
<1>14. ASSUME NEW p \in Publishers, AlreadyRevoked(p) PROVE HoldsCRL'
  BY <1>14 DEF AlreadyRevoked
<1>15. ASSUME NEW p \in Publishers, DeadlockVictim(p) PROVE HoldsCRL'
  BY <1>15 DEF DeadlockVictim, End
<1>16. ASSUME NEW p \in Publishers, NEW c \in Certs, NextCertificate(p, c) PROVE HoldsCRL'
  BY <1>16 DEF NextCertificate
<1>17. ASSUME NEW p \in Publishers, Fail(p) PROVE HoldsCRL'
  BY <1>17 DEF Fail, End
<1>18. ASSUME NEW o \in Responders, NEW answer \in {"issued", "revoked"}, OCSPRespond(o, answer)
      PROVE  HoldsCRL'
  BY <1>18 DEF OCSPRespond
<1>19. ASSUME NEW o \in Responders, OCSPFail(o) PROVE HoldsCRL'
  BY <1>19 DEF OCSPFail
<1>20. ASSUME NEW o \in Responders, NEW c \in Certs, OCSPRead(o, c) PROVE HoldsCRL'
  BY <1>20 DEF OCSPRead, StatusOf
<1>21. CASE UNCHANGED vars
  BY <1>21 DEF vars
<1> QED
  BY <1>1, <1>2, <1>3, <1>4, <1>5, <1>6, <1>7, <1>8, <1>9, <1>10, <1>11, <1>12, <1>13, <1>14,
     <1>15, <1>16, <1>17, <1>18, <1>19, <1>20, <1>21
     DEF Next, Publish, Revoke

(* While a CRL waits for its commit, nobody else commits a revocation or a  *)
(* CRL.                                                                     *)
LEMMA DraftStep ==
    TypeOK /\ HoldsCRL /\ EntriesAreRevoked /\ DraftIsWhole /\ [Next]_vars
        => DraftIsWhole'
<1> SUFFICES ASSUME TypeOK /\ HoldsCRL /\ EntriesAreRevoked /\ DraftIsWhole, [Next]_vars
             PROVE DraftIsWhole'
  OBVIOUS
<1> USE DEF TypeOK, HoldsCRL, EntriesAreRevoked, DraftIsWhole, HasCrl, Listed, publication, locks, work, draft, ocsp
<1>1. ASSUME Age PROVE DraftIsWhole'
  BY <1>1 DEF Age
<1>2. ASSUME Cool PROVE DraftIsWhole'
  BY <1>2 DEF Cool
<1>3. ASSUME KmsChange PROVE DraftIsWhole'
  BY <1>3 DEF KmsChange
<1>4. ASSUME NEW p \in Publishers, NEW S \in SUBSET Certs, StartRevoking(p, S) PROVE DraftIsWhole'
  BY <1>4 DEF StartRevoking
<1>5. ASSUME NEW p \in Publishers, StartRenewal(p) PROVE DraftIsWhole'
  BY <1>5 DEF StartRenewal
<1>6. ASSUME NEW p \in Publishers, StartRepublish(p) PROVE DraftIsWhole'
  BY <1>6 DEF StartRepublish
<1>7. ASSUME NEW p \in Publishers, StartFetch(p) PROVE DraftIsWhole'
  BY <1>7 DEF StartFetch
<1>8. ASSUME NEW p \in Publishers, LockCRL(p) PROVE DraftIsWhole'
  BY <1>8 DEF LockCRL
<1>9. ASSUME NEW p \in Publishers, PublishCRL(p) PROVE DraftIsWhole'
  BY <1>9 DEF PublishCRL, Resume, Listed, NextNumber, NumberSeen, HasCrl
<1>10. ASSUME NEW p \in Publishers, PublishFails(p) PROVE DraftIsWhole'
  BY <1>10 DEF PublishFails, Noted, HasCrl, Resume
<1>11. ASSUME NEW p \in Publishers, Commit(p) PROVE DraftIsWhole'
  BY <1>11 DEF Commit, Done, End, HasCrl
<1>12. ASSUME NEW p \in Publishers, FetchFails(p) PROVE DraftIsWhole'
  BY <1>12 DEF FetchFails, End
<1>13. ASSUME NEW p \in Publishers, RevokeCertificate(p) PROVE DraftIsWhole'
  BY <1>13 DEF RevokeCertificate
<1>14. ASSUME NEW p \in Publishers, AlreadyRevoked(p) PROVE DraftIsWhole'
  BY <1>14 DEF AlreadyRevoked
<1>15. ASSUME NEW p \in Publishers, DeadlockVictim(p) PROVE DraftIsWhole'
  BY <1>15 DEF DeadlockVictim, End
<1>16. ASSUME NEW p \in Publishers, NEW c \in Certs, NextCertificate(p, c) PROVE DraftIsWhole'
  BY <1>16 DEF NextCertificate
<1>17. ASSUME NEW p \in Publishers, Fail(p) PROVE DraftIsWhole'
  BY <1>17 DEF Fail, End
<1>18. ASSUME NEW o \in Responders, NEW answer \in {"issued", "revoked"}, OCSPRespond(o, answer)
      PROVE  DraftIsWhole'
  BY <1>18 DEF OCSPRespond
<1>19. ASSUME NEW o \in Responders, OCSPFail(o) PROVE DraftIsWhole'
  BY <1>19 DEF OCSPFail
<1>20. ASSUME NEW o \in Responders, NEW c \in Certs, OCSPRead(o, c) PROVE DraftIsWhole'
  BY <1>20 DEF OCSPRead, StatusOf
<1>21. CASE UNCHANGED vars
  BY <1>21 DEF vars
<1> QED
  BY <1>1, <1>2, <1>3, <1>4, <1>5, <1>6, <1>7, <1>8, <1>9, <1>10, <1>11, <1>12, <1>13, <1>14,
     <1>15, <1>16, <1>17, <1>18, <1>19, <1>20, <1>21
     DEF Next, Publish, Revoke

(* A revocation is committed with a CRL that lists it, or with an error.    *)
LEMMA NotedStep ==
    TypeOK /\ HoldsCRL /\ DraftIsWhole /\ MissingIsNoted /\ [Next]_vars
        => MissingIsNoted'
<1> SUFFICES ASSUME TypeOK /\ HoldsCRL /\ DraftIsWhole /\ MissingIsNoted, [Next]_vars
             PROVE MissingIsNoted'
  OBVIOUS
<1> USE DEF TypeOK, HoldsCRL, DraftIsWhole, MissingIsNoted, HasCrl, Listed, publication, locks, work, draft, ocsp
<1>1. ASSUME Age PROVE MissingIsNoted'
  BY <1>1 DEF Age
<1>2. ASSUME Cool PROVE MissingIsNoted'
  BY <1>2 DEF Cool
<1>3. ASSUME KmsChange PROVE MissingIsNoted'
  BY <1>3 DEF KmsChange
<1>4. ASSUME NEW p \in Publishers, NEW S \in SUBSET Certs, StartRevoking(p, S)
      PROVE  MissingIsNoted'
  BY <1>4 DEF StartRevoking
<1>5. ASSUME NEW p \in Publishers, StartRenewal(p) PROVE MissingIsNoted'
  BY <1>5 DEF StartRenewal
<1>6. ASSUME NEW p \in Publishers, StartRepublish(p) PROVE MissingIsNoted'
  BY <1>6 DEF StartRepublish
<1>7. ASSUME NEW p \in Publishers, StartFetch(p) PROVE MissingIsNoted'
  BY <1>7 DEF StartFetch
<1>8. ASSUME NEW p \in Publishers, LockCRL(p) PROVE MissingIsNoted'
  BY <1>8 DEF LockCRL
<1>9. ASSUME NEW p \in Publishers, PublishCRL(p) PROVE MissingIsNoted'
  BY <1>9 DEF PublishCRL, Resume, Listed, NextNumber, NumberSeen, HasCrl
<1>10. ASSUME NEW p \in Publishers, PublishFails(p) PROVE MissingIsNoted'
  BY <1>10 DEF PublishFails, Noted, HasCrl, Resume
<1>11. ASSUME NEW p \in Publishers, Commit(p) PROVE MissingIsNoted'
  <2>1. pc[p] \notin {"lock", "publish"} /\ revoked' = revoked \union mine[p]
    BY <1>11 DEF Commit, Done
  <2>2. CASE wrote[p] = "none"
    BY <1>11, <2>1, <2>2 DEF Commit
  <2>3. CASE wrote[p] \in {"error", "both"}
    BY <1>11, <2>3 DEF Commit
  <2>4. CASE wrote[p] = "crl"
    BY <1>11, <2>1, <2>4 DEF Commit
  <2> QED
    BY <2>2, <2>3, <2>4
<1>12. ASSUME NEW p \in Publishers, FetchFails(p) PROVE MissingIsNoted'
  BY <1>12 DEF FetchFails, End
<1>13. ASSUME NEW p \in Publishers, RevokeCertificate(p) PROVE MissingIsNoted'
  BY <1>13 DEF RevokeCertificate
<1>14. ASSUME NEW p \in Publishers, AlreadyRevoked(p) PROVE MissingIsNoted'
  BY <1>14 DEF AlreadyRevoked
<1>15. ASSUME NEW p \in Publishers, DeadlockVictim(p) PROVE MissingIsNoted'
  BY <1>15 DEF DeadlockVictim, End
<1>16. ASSUME NEW p \in Publishers, NEW c \in Certs, NextCertificate(p, c) PROVE MissingIsNoted'
  BY <1>16 DEF NextCertificate
<1>17. ASSUME NEW p \in Publishers, Fail(p) PROVE MissingIsNoted'
  BY <1>17 DEF Fail, End
<1>18. ASSUME NEW o \in Responders, NEW answer \in {"issued", "revoked"}, OCSPRespond(o, answer)
      PROVE  MissingIsNoted'
  BY <1>18 DEF OCSPRespond
<1>19. ASSUME NEW o \in Responders, OCSPFail(o) PROVE MissingIsNoted'
  BY <1>19 DEF OCSPFail
<1>20. ASSUME NEW o \in Responders, NEW c \in Certs, OCSPRead(o, c) PROVE MissingIsNoted'
  BY <1>20 DEF OCSPRead, StatusOf
<1>21. CASE UNCHANGED vars
  BY <1>21 DEF vars
<1> QED
  BY <1>1, <1>2, <1>3, <1>4, <1>5, <1>6, <1>7, <1>8, <1>9, <1>10, <1>11, <1>12, <1>13, <1>14,
     <1>15, <1>16, <1>17, <1>18, <1>19, <1>20, <1>21
     DEF Next, Publish, Revoke

(* A CRL is committed with the revocations it lists.                        *)
LEMMA RevokedStep ==
    TypeOK /\ HoldsCRL /\ DraftIsWhole /\ EntriesAreRevoked /\ [Next]_vars
        => EntriesAreRevoked'
<1> SUFFICES ASSUME TypeOK /\ HoldsCRL /\ DraftIsWhole /\ EntriesAreRevoked, [Next]_vars
             PROVE EntriesAreRevoked'
  OBVIOUS
<1> USE DEF TypeOK, HoldsCRL, DraftIsWhole, EntriesAreRevoked, HasCrl, Listed, publication, locks, work, draft, ocsp
<1>1. ASSUME Age PROVE EntriesAreRevoked'
  BY <1>1 DEF Age
<1>2. ASSUME Cool PROVE EntriesAreRevoked'
  BY <1>2 DEF Cool
<1>3. ASSUME KmsChange PROVE EntriesAreRevoked'
  BY <1>3 DEF KmsChange
<1>4. ASSUME NEW p \in Publishers, NEW S \in SUBSET Certs, StartRevoking(p, S)
      PROVE  EntriesAreRevoked'
  BY <1>4 DEF StartRevoking
<1>5. ASSUME NEW p \in Publishers, StartRenewal(p) PROVE EntriesAreRevoked'
  BY <1>5 DEF StartRenewal
<1>6. ASSUME NEW p \in Publishers, StartRepublish(p) PROVE EntriesAreRevoked'
  BY <1>6 DEF StartRepublish
<1>7. ASSUME NEW p \in Publishers, StartFetch(p) PROVE EntriesAreRevoked'
  BY <1>7 DEF StartFetch
<1>8. ASSUME NEW p \in Publishers, LockCRL(p) PROVE EntriesAreRevoked'
  BY <1>8 DEF LockCRL
<1>9. ASSUME NEW p \in Publishers, PublishCRL(p) PROVE EntriesAreRevoked'
  BY <1>9 DEF PublishCRL, Resume, Listed, NextNumber, NumberSeen, HasCrl
<1>10. ASSUME NEW p \in Publishers, PublishFails(p) PROVE EntriesAreRevoked'
  BY <1>10 DEF PublishFails, Noted, HasCrl, Resume
<1>11. ASSUME NEW p \in Publishers, Commit(p) PROVE EntriesAreRevoked'
  BY <1>11 DEF Commit, Done, End, HasCrl
<1>12. ASSUME NEW p \in Publishers, FetchFails(p) PROVE EntriesAreRevoked'
  BY <1>12 DEF FetchFails, End
<1>13. ASSUME NEW p \in Publishers, RevokeCertificate(p) PROVE EntriesAreRevoked'
  BY <1>13 DEF RevokeCertificate
<1>14. ASSUME NEW p \in Publishers, AlreadyRevoked(p) PROVE EntriesAreRevoked'
  BY <1>14 DEF AlreadyRevoked
<1>15. ASSUME NEW p \in Publishers, DeadlockVictim(p) PROVE EntriesAreRevoked'
  BY <1>15 DEF DeadlockVictim, End
<1>16. ASSUME NEW p \in Publishers, NEW c \in Certs, NextCertificate(p, c)
      PROVE  EntriesAreRevoked'
  BY <1>16 DEF NextCertificate
<1>17. ASSUME NEW p \in Publishers, Fail(p) PROVE EntriesAreRevoked'
  BY <1>17 DEF Fail, End
<1>18. ASSUME NEW o \in Responders, NEW answer \in {"issued", "revoked"}, OCSPRespond(o, answer)
      PROVE  EntriesAreRevoked'
  BY <1>18 DEF OCSPRespond
<1>19. ASSUME NEW o \in Responders, OCSPFail(o) PROVE EntriesAreRevoked'
  BY <1>19 DEF OCSPFail
<1>20. ASSUME NEW o \in Responders, NEW c \in Certs, OCSPRead(o, c) PROVE EntriesAreRevoked'
  BY <1>20 DEF OCSPRead, StatusOf
<1>21. CASE UNCHANGED vars
  BY <1>21 DEF vars
<1> QED
  BY <1>1, <1>2, <1>3, <1>4, <1>5, <1>6, <1>7, <1>8, <1>9, <1>10, <1>11, <1>12, <1>13, <1>14,
     <1>15, <1>16, <1>17, <1>18, <1>19, <1>20, <1>21
     DEF Next, Publish, Revoke

(* The status an OCSP request read is not read again.                       *)
LEMMA LateStep ==
    TypeOK /\ LateSawRevoked /\ [Next]_vars
        => LateSawRevoked'
<1> SUFFICES ASSUME TypeOK /\ LateSawRevoked, [Next]_vars
             PROVE LateSawRevoked'
  OBVIOUS
<1> USE DEF TypeOK, LateSawRevoked, publication, locks, work, draft, ocsp
<1>1. ASSUME Age PROVE LateSawRevoked'
  BY <1>1 DEF Age
<1>2. ASSUME Cool PROVE LateSawRevoked'
  BY <1>2 DEF Cool
<1>3. ASSUME KmsChange PROVE LateSawRevoked'
  BY <1>3 DEF KmsChange
<1>4. ASSUME NEW p \in Publishers, NEW S \in SUBSET Certs, StartRevoking(p, S)
      PROVE  LateSawRevoked'
  BY <1>4 DEF StartRevoking
<1>5. ASSUME NEW p \in Publishers, StartRenewal(p) PROVE LateSawRevoked'
  BY <1>5 DEF StartRenewal
<1>6. ASSUME NEW p \in Publishers, StartRepublish(p) PROVE LateSawRevoked'
  BY <1>6 DEF StartRepublish
<1>7. ASSUME NEW p \in Publishers, StartFetch(p) PROVE LateSawRevoked'
  BY <1>7 DEF StartFetch
<1>8. ASSUME NEW p \in Publishers, LockCRL(p) PROVE LateSawRevoked'
  BY <1>8 DEF LockCRL
<1>9. ASSUME NEW p \in Publishers, PublishCRL(p) PROVE LateSawRevoked'
  BY <1>9 DEF PublishCRL, Resume, Listed, NextNumber, NumberSeen, HasCrl
<1>10. ASSUME NEW p \in Publishers, PublishFails(p) PROVE LateSawRevoked'
  BY <1>10 DEF PublishFails, Noted, HasCrl, Resume
<1>11. ASSUME NEW p \in Publishers, Commit(p) PROVE LateSawRevoked'
  BY <1>11 DEF Commit, Done, End, HasCrl
<1>12. ASSUME NEW p \in Publishers, FetchFails(p) PROVE LateSawRevoked'
  BY <1>12 DEF FetchFails, End
<1>13. ASSUME NEW p \in Publishers, RevokeCertificate(p) PROVE LateSawRevoked'
  BY <1>13 DEF RevokeCertificate
<1>14. ASSUME NEW p \in Publishers, AlreadyRevoked(p) PROVE LateSawRevoked'
  BY <1>14 DEF AlreadyRevoked
<1>15. ASSUME NEW p \in Publishers, DeadlockVictim(p) PROVE LateSawRevoked'
  BY <1>15 DEF DeadlockVictim, End
<1>16. ASSUME NEW p \in Publishers, NEW c \in Certs, NextCertificate(p, c) PROVE LateSawRevoked'
  BY <1>16 DEF NextCertificate
<1>17. ASSUME NEW p \in Publishers, Fail(p) PROVE LateSawRevoked'
  BY <1>17 DEF Fail, End
<1>18. ASSUME NEW o \in Responders, NEW answer \in {"issued", "revoked"}, OCSPRespond(o, answer)
      PROVE  LateSawRevoked'
  BY <1>18 DEF OCSPRespond
<1>19. ASSUME NEW o \in Responders, OCSPFail(o) PROVE LateSawRevoked'
  BY <1>19 DEF OCSPFail
<1>20. ASSUME NEW o \in Responders, NEW c \in Certs, OCSPRead(o, c) PROVE LateSawRevoked'
  BY <1>20 DEF OCSPRead, StatusOf
<1>21. CASE UNCHANGED vars
  BY <1>21 DEF vars
<1> QED
  BY <1>1, <1>2, <1>3, <1>4, <1>5, <1>6, <1>7, <1>8, <1>9, <1>10, <1>11, <1>12, <1>13, <1>14,
     <1>15, <1>16, <1>17, <1>18, <1>19, <1>20, <1>21
     DEF Next, Publish, Revoke

(* Every step preserves the whole of it.                                     *)
LEMMA IndInvStep == IndInv /\ [Next]_vars => IndInv'
  BY TypeStep, HoldsStep, DraftStep, NotedStep, RevokedStep, LateStep DEF IndInv

(* The invariant the theorems rest on.                                       *)
THEOREM Inductive == Spec => []IndInv
<1>1. Init => IndInv
  <2> SUFFICES ASSUME Init PROVE IndInv
    OBVIOUS
  <2> USE DEF Init
  <2>1. TypeOK
    <3>1. number \in 0 .. MaxNumber /\ failures \in 0 .. MaxFailures
      OBVIOUS
    <3>2. newNumber \in [Publishers -> 0 .. MaxNumber]
      OBVIOUS
    <3>3. newEntries \in [Publishers -> SUBSET Certs] /\ batch \in [Publishers -> SUBSET Certs]
          /\ mine \in [Publishers -> SUBSET Certs] /\ purged \in [Publishers -> SUBSET Certs]
      OBVIOUS
    <3> QED
      BY <3>1, <3>2, <3>3 DEF TypeOK
  <2>2. HoldsCRL /\ DraftIsWhole /\ LateSawRevoked
    BY DEF HoldsCRL, DraftIsWhole, LateSawRevoked, HasCrl
  <2>3. MissingIsNoted /\ EntriesAreRevoked
    BY DEF MissingIsNoted, EntriesAreRevoked
  <2> QED
    BY <2>1, <2>2, <2>3 DEF IndInv
<1> QED
  BY <1>1, IndInvStep, PTL DEF Spec

(* service.go: "PublishCRL records the error and the renewal worker retries   *)
(* it": no revocation is ever missing from the CRL without the row saying so. *)
THEOREM NothingMissingUnnoted == Spec => []MissingIsNoted
<1>1. IndInv => MissingIsNoted
  BY DEF IndInv
<1> QED
  BY <1>1, Inductive, PTL

(* No rolled back revocation was ever published.                             *)
THEOREM OnlyRevokedListed == Spec => []EntriesAreRevoked
<1>1. IndInv => EntriesAreRevoked
  BY DEF IndInv
<1> QED
  BY <1>1, Inductive, PTL

(* A responder's cache never makes a revoked certificate good again.         *)
THEOREM OCSPAgrees == Spec => []NoGoodAfterRevocation
<1>1. IndInv => NoGoodAfterRevocation
  BY DEF IndInv, LateSawRevoked, NoGoodAfterRevocation, Answers, Cached
<1> QED
  BY <1>1, Inductive, PTL

(* Only a commit changes the CRL, to one that lists more under a greater     *)
(* number.                                                                   *)
LEMMA GrowStep == IndInv /\ [Next]_vars => EntriesStay /\ NumberGrows
<1> SUFFICES ASSUME IndInv, [Next]_vars PROVE EntriesStay /\ NumberGrows
  OBVIOUS
<1> USE DEF IndInv, TypeOK, publication
<1>1. ASSUME NEW p \in Publishers, Commit(p) PROVE EntriesStay /\ NumberGrows
  BY <1>1 DEF Commit, DraftIsWhole, EntriesStay, NumberGrows
<1>2. CASE UNCHANGED <<number, entries>>
  BY <1>2 DEF EntriesStay, NumberGrows
<1> QED
  BY <1>1, <1>2
     DEF Next, Publish, Revoke, vars, Age, Cool, KmsChange, StartRevoking, StartRenewal,
         StartRepublish, StartFetch, LockCRL, PublishCRL, PublishFails, FetchFails,
         RevokeCertificate, AlreadyRevoked, DeadlockVictim, NextCertificate, Fail, OCSPRespond,
         OCSPFail, OCSPRead

(* revocation.go: whichever publisher commits last, a serial on the CRL stays *)
(* on it, and a relying party that orders CRLs by number has the latest.      *)
THEOREM CRLsGrow == Spec => ListsGrow
<1>1. IndInv /\ [Next]_vars => [EntriesStay /\ NumberGrows /\ TypeOK']_vars
  BY GrowStep, TypeStep DEF IndInv
<1> QED
  BY <1>1, Inductive, PTL DEF Spec, ListsGrow

----------------------------------------------------------------------------
(* IssuancePolicy.                                                           *)

ProfileRow == [made : BOOLEAN, usages : SUBSET (Usages \ {AnyPurpose}), from : Int, to : Int]
RulesRow == [allowed : SUBSET Usages, subjects : SUBSET Commons, san : SANRules,
             protocol : {"scep", "est", "acme"}]
PinRow == [kind : {"none", "challenge", "credential", "order"}, usages : SUBSET Usages,
           names : SUBSET Texts]
CertRow == [via : {"none", "scep", "est", "acme", "console"}, usages : SUBSET Usages,
            subject : SubjectNames, sans : SUBSET Named, from : Int, to : Int]

(* Records of the model's shapes, on a clock that has left its first day.     *)
PolicyShapes ==
    /\ aspect \in Aspects /\ now \in 0..MaxNow /\ now >= Skew
    /\ root \in ProfileRow /\ issuing \in ProfileRow
    /\ rules \in RulesRow /\ pin \in PinRow /\ leaf \in CertRow /\ renewed \in CertRow

(* A CA has a profile within its root's; a leaf comes after its CA.           *)
ProfilesNest ==
    /\ issuing.made => /\ root.made /\ issuing.usages # {} /\ issuing.usages \subseteq root.usages
    /\ leaf.via # "none" => issuing.made
    /\ aspect = "names" => issuing.made

(* An endpoint for devices has a list a device may have; a challenge's        *)
(* usages and an order's names are what they were limited to.                 *)
PinsAreSound ==
    /\ rules.protocol = "scep" => rules.allowed \subseteq EKUChoices
    /\ pin.usages # {} => aspect = "usages"
    /\ pin.kind = "order" => pin.names # {} /\ Wildcard \notin pin.names

PolicyInv ==
    /\ PolicyShapes /\ ProfilesNest /\ PinsAreSound
    /\ UsagesWithinCA /\ DeviceIsNoResponder /\ PinnedUsages
    /\ PinnedNamesOnly /\ RenewalNeverGains /\ AcmeExact /\ EndsWithItsCA

USE PolicyAssumption

(* What a step may not do with the certificate it issues.                     *)
IssuesRightly == NothingAskedIsClient /\ NamesWerePermitted /\ ValidWhenIssued

(* The shapes are of the model's types.                                      *)
LEMMA ShapesAreTypes ==
  ASSUME PolicyShapes, ProfilesNest, PinsAreSound
  PROVE  PolicyTypeOK
<1>1. /\ root.made \in BOOLEAN /\ root.usages \subseteq Usages \ {AnyPurpose}
      /\ issuing.made \in BOOLEAN /\ issuing.usages \subseteq Usages \ {AnyPurpose}
  BY DEF PolicyShapes, ProfileRow
<1>2. /\ rules.allowed \subseteq Usages /\ rules.subjects \subseteq Commons
      /\ rules.san \in SANRules
  BY DEF PolicyShapes, RulesRow
<1>3. rules.san.matches \subseteq Texts /\ (~rules.san.set => rules.san = Closed)
  <2>1. CASE rules.san = Closed
    BY <2>1 DEF Closed
  <2>2. CASE rules.san \in [set : {TRUE}, matches : SUBSET Texts, blank : BOOLEAN]
    <3>1. rules.san.set = TRUE /\ rules.san.matches \subseteq Texts
      BY <2>2
    <3> QED
      BY <3>1
  <2> QED
    BY <1>2, <2>1, <2>2 DEF SANRules
<1>4. /\ pin.kind \in {"none", "challenge", "credential", "order"}
      /\ pin.usages \subseteq Usages /\ pin.names \subseteq Texts
  BY DEF PolicyShapes, PinRow
<1>5. \A c \in {leaf, renewed} :
        c.usages \subseteq Usages /\ c.subject \in SubjectNames /\ c.sans \subseteq Named
  BY DEF PolicyShapes, CertRow
<1> QED
  BY <1>1, <1>2, <1>3, <1>4, <1>5 DEF PolicyTypeOK, PolicyShapes, ProfilesNest, PinsAreSound

(* Nothing has been issued, and no CA made but where names are the subject.   *)
LEMMA PolicyFirst ==
  ASSUME PolicyInit
  PROVE  PolicyInv
<1>1. NoCert \in CertRow /\ NoCert.via = "none"
  BY DEF NoCert, CertRow, Commons
<1>2. Closed \in SANRules
  BY DEF SANRules
<1>3. rules \in RulesRow /\ rules.protocol = "scep" /\ rules.allowed \subseteq EKUChoices
  BY <1>2 DEF PolicyInit, RulesRow, EKUChoices, Client, Responder, AnyPurpose
<1>4. pin \in PinRow /\ pin.kind = "none" /\ pin.usages = {}
  BY DEF PolicyInit, PinRow
<1>5. /\ root \in ProfileRow /\ issuing = root
      /\ (issuing.made => issuing.usages # {})
      /\ (aspect = "names" => issuing.made) /\ issuing.to <= root.to
  <2>1. Profiled({Client}) \in ProfileRow /\ Profiled({Client}).usages # {} /\ Profiled({Client}).made
    BY DEF Profiled, ProfileRow, Client, AnyPurpose, Day
  <2>2. NoCAYet \in ProfileRow /\ ~NoCAYet.made
    BY DEF NoCAYet, ProfileRow
  <2>3. root = (IF aspect = "names" THEN Profiled({Client}) ELSE NoCAYet) /\ issuing = root
    BY DEF PolicyInit
  <2>4. \A p \in ProfileRow : p.to <= p.to
    BY DEF ProfileRow
  <2> QED
    BY <2>1, <2>2, <2>3, <2>4
<1>6. aspect \in Aspects /\ now = 2 /\ leaf = NoCert /\ renewed = NoCert
  BY DEF PolicyInit, Skew
<1>7. PolicyShapes /\ ProfilesNest /\ PinsAreSound
  BY <1>1, <1>3, <1>4, <1>5, <1>6 DEF PolicyShapes, ProfilesNest, PinsAreSound, Skew
<1> QED
  BY <1>1, <1>4, <1>5, <1>6, <1>7
     DEF PolicyInv, UsagesWithinCA, DeviceIsNoResponder, PinnedUsages, PinnedNamesOnly,
         RenewalNeverGains, AcmeExact, EndsWithItsCA

----------------------------------------------------------------------------
(* CAs: what becomes of a CA says nothing of the certificates it issued.      *)

(* A CA is made with the usages asked for, or client authentication when     *)
(* none are.                                                                 *)
LEMMA ProfileMade ==
  ASSUME NEW wanted \in SUBSET Usages, ValidateEKUs(wanted), NEW from \in Int, NEW to \in Int
  PROVE  /\ [made |-> TRUE, usages |-> Normal(wanted), from |-> from, to |-> to] \in ProfileRow
         /\ Normal(wanted) # {}
  BY DEF ProfileRow, ValidateEKUs, Normal, Client, AnyPurpose

(* The dates of a new certificate are whole numbers.                      *)
DatesOf(days) == DaysFromNow(days).from \in Int /\ DaysFromNow(days).to \in Int

(* They are: days from now are a whole number.                               *)
LEMMA DatesAreNumbers ==
  ASSUME now \in Int, NEW days \in Int
  PROVE  DatesOf(days)
<1>1. now - 2 \in Int /\ now + 4 * days \in Int
  OBVIOUS
<1> QED
  BY <1>1 DEF DatesOf, DaysFromNow, Skew, Day

(* Whatever a CA is given, it ends with its root at the latest.               *)
LEMMA EndsEarlier ==
  ASSUME root.to \in Int, NEW to \in Int
  PROVE  IssuingUntil(to) \in Int /\ IssuingUntil(to) <= root.to
  BY DEF IssuingUntil, Earlier

(* A root is made before there is an issuing CA; what is issued stays as it  *)
(* was.                                                                      *)
LEMMA RootStep ==
  ASSUME PolicyInv, NEW wanted \in SUBSET Usages, NEW days \in Spans, createRoot(wanted, days)
  PROVE  PolicyInv' /\ IssuesRightly
<1>1. /\ ~issuing.made /\ leaf.via = "none" /\ aspect # "names" /\ leaf' = leaf
  BY DEF PolicyInv, ProfilesNest, createRoot
<1>2. PICK from \in Int, to \in Int :
        root' = [made |-> TRUE, usages |-> Normal(wanted), from |-> from, to |-> to]
  <2>1. now \in Int /\ validityDays(days, 2) \in Int
    BY DEF validityDays, PolicyInv, PolicyShapes
  <2>2. DatesOf(validityDays(days, 2))
    BY <2>1, DatesAreNumbers
  <2> QED
    BY <2>2 DEF createRoot, DatesOf
<1>3. root' \in ProfileRow
  BY <1>2, ProfileMade DEF createRoot
<1>4. PolicyShapes' /\ ProfilesNest' /\ PinsAreSound'
  BY <1>1, <1>3 DEF createRoot, PolicyInv, PolicyShapes, ProfilesNest, PinsAreSound
<1>5. IssuesRightly
  BY <1>1 DEF IssuesRightly, NothingAskedIsClient, NamesWerePermitted, ValidWhenIssued, EnrolScep,
              EnrolEst, createRoot
<1> QED
  BY <1>1, <1>4, <1>5
     DEF createRoot, PolicyInv, UsagesWithinCA, DeviceIsNoResponder, PinnedUsages, PinnedNamesOnly,
         RenewalNeverGains, AcmeExact, EndsWithItsCA

(* An issuing CA takes its usages from its root's and ends with it.          *)
LEMMA IssuingStep ==
  ASSUME PolicyInv, NEW wanted \in SUBSET Usages, NEW days \in Spans, createIssuing(wanted, days)
  PROVE  PolicyInv' /\ IssuesRightly
<1>1. /\ ~issuing.made /\ root.made /\ leaf.via = "none" /\ leaf' = leaf
  BY DEF PolicyInv, ProfilesNest, createIssuing
<1>2. PICK from \in Int, to \in Int :
        /\ issuing' = [made |-> TRUE, usages |-> Normal(wanted), from |-> from, to |-> to]
        /\ to <= root.to
  <2>1. root.to \in Int /\ now \in Int /\ validityDays(days, 1) \in Int
    BY DEF PolicyInv, PolicyShapes, ProfileRow, validityDays
  <2>2. DatesOf(validityDays(days, 1))
    BY <2>1, DatesAreNumbers
  <2>3. /\ IssuingUntil(DaysFromNow(validityDays(days, 1)).to) \in Int
        /\ IssuingUntil(DaysFromNow(validityDays(days, 1)).to) <= root.to
    BY <2>1, <2>2, EndsEarlier DEF DatesOf
  <2> QED
    BY <2>2, <2>3 DEF createIssuing, DatesOf
<1>3. issuing' \in ProfileRow /\ issuing'.usages # {} /\ issuing'.usages \subseteq root.usages
  BY <1>2, ProfileMade DEF createIssuing, ekusWithinParent
<1>4. PolicyShapes' /\ ProfilesNest' /\ PinsAreSound'
  BY <1>1, <1>2, <1>3 DEF createIssuing, PolicyInv, PolicyShapes, ProfilesNest, PinsAreSound
<1>5. IssuesRightly
  BY <1>1 DEF IssuesRightly, NothingAskedIsClient, NamesWerePermitted, ValidWhenIssued, EnrolScep,
              EnrolEst
<1> QED
  BY <1>1, <1>2, <1>4, <1>5
     DEF createIssuing, PolicyInv, UsagesWithinCA, DeviceIsNoResponder, PinnedUsages, PinnedNamesOnly,
         RenewalNeverGains, AcmeExact, EndsWithItsCA

(* The CA that rotation makes has the usages of the one it replaces and ends *)
(* with their root.                                                          *)
LEMMA RotateStep ==
  ASSUME PolicyInv, rotateIssuing
  PROVE  PolicyInv' /\ IssuesRightly
<1>1. /\ issuing.made /\ aspect = "dates" /\ leaf' = NoCert /\ renewed' = NoCert
      /\ UNCHANGED <<aspect, now, root, rules, pin>>
  BY DEF rotateIssuing
<1>2. root.to \in Int /\ now \in Nat /\ issuing.to \in Int /\ issuing.from \in Int
  BY DEF PolicyInv, PolicyShapes, ProfileRow
<1>3. PICK from \in Int, to \in Int :
        issuing' = [issuing EXCEPT !.from = from, !.to = to] /\ to <= root.to
  <2> DEFINE days == validityDays(IF issuing.to < issuing.from THEN 0 ELSE RotatedDays, 1)
  <2>1. days \in Int
    BY <1>2 DEF validityDays, RotatedDays, Day
  <2>2. LET dates == DaysFromNow(days)
        IN issuing' = [issuing EXCEPT !.from = dates.from, !.to = IssuingUntil(dates.to)]
    BY DEF rotateIssuing
  <2> HIDE DEF days
  <2>3. DatesOf(days)
    BY <1>2, <2>1, DatesAreNumbers
  <2>4. IssuingUntil(DaysFromNow(days).to) \in Int /\ IssuingUntil(DaysFromNow(days).to) <= root.to
    BY <1>2, <2>3, EndsEarlier DEF DatesOf
  <2> QED
    BY <2>2, <2>3, <2>4 DEF DatesOf
<1>4. /\ issuing' \in ProfileRow /\ issuing'.usages = issuing.usages
      /\ (issuing'.made <=> issuing.made) /\ issuing'.to <= root.to
  BY <1>3 DEF PolicyInv, PolicyShapes, ProfileRow
<1>5. NoCert \in CertRow /\ NoCert.via = "none"
  BY DEF NoCert, CertRow, Commons
<1>6. PolicyShapes' /\ ProfilesNest' /\ PinsAreSound'
  BY <1>1, <1>4, <1>5 DEF PolicyInv, PolicyShapes, ProfilesNest, PinsAreSound
<1>7. IssuesRightly
  BY <1>1, <1>5 DEF IssuesRightly, NothingAskedIsClient, NamesWerePermitted, ValidWhenIssued, EnrolScep,
                    EnrolEst
<1> QED
  BY <1>1, <1>4, <1>5, <1>6, <1>7
     DEF PolicyInv, UsagesWithinCA, DeviceIsNoResponder, PinnedUsages, PinnedNamesOnly,
         RenewalNeverGains, AcmeExact, EndsWithItsCA

----------------------------------------------------------------------------
(* The clock, policies and pins: what was issued stays as it was.             *)

(* As time passes nothing is written.                                        *)
LEMMA TimeStep ==
  ASSUME PolicyInv, PassTime
  PROVE  PolicyInv' /\ IssuesRightly
<1>1. PolicyShapes' /\ ProfilesNest' /\ PinsAreSound'
  BY DEF PassTime, PolicyInv, PolicyShapes, ProfilesNest, PinsAreSound, Skew
<1>2. IssuesRightly
  BY DEF IssuesRightly, NothingAskedIsClient, NamesWerePermitted, ValidWhenIssued, EnrolScep, EnrolEst,
         PassTime
<1> QED
  BY <1>1, <1>2
     DEF PassTime, PolicyInv, UsagesWithinCA, DeviceIsNoResponder, PinnedUsages, PinnedNamesOnly,
         RenewalNeverGains, AcmeExact, EndsWithItsCA

(* Policies may change at any time; a list is fixed for the endpoint's kind.  *)
LEMMA RulesStep ==
  ASSUME PolicyInv,
         \/ \E wanted \in ekuInput : AllowScep(wanted) \/ AllowEst(wanted) \/ AllowAcme(wanted)
         \/ \E san \in SANRules, subjects \in {Commons, {Nameless}} : SetRules(san, subjects)
  PROVE  PolicyInv' /\ IssuesRightly
<1>1. UNCHANGED <<aspect, now, root, issuing, pin, leaf, renewed>>
  BY DEF AllowScep, AllowEst, AllowAcme, Allow, SetRules
<1>2. rules \in RulesRow /\ (rules.protocol = "scep" => rules.allowed \subseteq EKUChoices)
  BY DEF PolicyInv, PolicyShapes, PinsAreSound
<1>3. rules' \in RulesRow /\ (rules'.protocol = "scep" => rules'.allowed \subseteq EKUChoices)
  <2>1. ASSUME NEW wanted \in ekuInput, AllowScep(wanted)
        PROVE  rules' \in RulesRow /\ rules'.allowed \subseteq EKUChoices
    BY <1>2, <2>1 DEF AllowScep, Allow, ValidateAllowedEKUs, RulesRow, ekuInput
  <2>2. ASSUME NEW wanted \in ekuInput, AllowEst(wanted) \/ AllowAcme(wanted)
        PROVE  rules' \in RulesRow /\ rules'.protocol # "scep"
    BY <1>2, <2>2 DEF AllowEst, AllowAcme, Allow, RulesRow, ekuInput
  <2>3. ASSUME NEW san \in SANRules, NEW subjects \in {Commons, {Nameless}}, SetRules(san, subjects)
        PROVE  rules' \in RulesRow /\ rules'.protocol = rules.protocol /\ rules'.allowed = rules.allowed
    <3>1. subjects \subseteq Commons
      BY DEF Commons
    <3> QED
      BY <1>2, <2>3, <3>1 DEF SetRules, RulesRow
  <2> QED
    BY <1>2, <2>1, <2>2, <2>3
<1>4. PolicyShapes' /\ ProfilesNest' /\ PinsAreSound'
  BY <1>1, <1>3 DEF PolicyInv, PolicyShapes, ProfilesNest, PinsAreSound
<1>5. IssuesRightly
  <2>1. ~EnrolScep({}) /\ ~EnrolEst({})
    BY <1>1 DEF EnrolScep, EnrolEst, UsagesOnly, Sign, Issued, NoCert
  <2> QED
    BY <1>1, <2>1 DEF IssuesRightly, NothingAskedIsClient, NamesWerePermitted, ValidWhenIssued
<1> QED
  BY <1>1, <1>4, <1>5
     DEF PolicyInv, UsagesWithinCA, DeviceIsNoResponder, PinnedUsages, PinnedNamesOnly,
         RenewalNeverGains, AcmeExact, EndsWithItsCA

(* A pin is set once, and before anything is issued.                          *)
LEMMA PinStep ==
  ASSUME PolicyInv,
         \/ \E wanted \in ekuInput : mintChallenge(wanted)
         \/ \E names \in SUBSET Texts : PinCredential(names) \/ NewOrder(names)
  PROVE  PolicyInv' /\ IssuesRightly
<1>1. UNCHANGED <<aspect, now, root, issuing, rules, leaf, renewed>> /\ leaf = NoCert
  BY DEF mintChallenge, PinCredential, NewOrder
<1>2. pin \in PinRow /\ (pin.usages # {} => aspect = "usages")
  BY DEF PolicyInv, PolicyShapes, PinsAreSound
<1>3. /\ pin' \in PinRow /\ (pin'.usages # {} => aspect = "usages")
      /\ pin'.kind = "order" => pin'.names # {} /\ Wildcard \notin pin'.names
  <2>1. ASSUME NEW wanted \in ekuInput, mintChallenge(wanted)
        PROVE  pin' \in PinRow /\ pin'.kind = "challenge" /\ aspect = "usages"
    BY <1>2, <2>1 DEF mintChallenge, PinRow, ekuInput
  <2>2. ASSUME NEW names \in SUBSET Texts, PinCredential(names)
        PROVE  pin' \in PinRow /\ pin'.kind = "credential" /\ pin'.usages = pin.usages
    BY <1>2, <2>2 DEF PinCredential, PinRow
  <2>3. ASSUME NEW names \in SUBSET Texts, NewOrder(names)
        PROVE  /\ pin' \in PinRow /\ pin'.usages = pin.usages
               /\ pin'.names # {} /\ Wildcard \notin pin'.names
    BY <1>2, <2>3 DEF NewOrder, PinRow, normalizeIdentifiers
  <2> QED
    BY <1>2, <2>1, <2>2, <2>3
<1>4. leaf.via = "none"
  BY <1>1 DEF NoCert
<1>5. PolicyShapes' /\ ProfilesNest' /\ PinsAreSound'
  BY <1>1, <1>3 DEF PolicyInv, PolicyShapes, ProfilesNest, PinsAreSound
<1>6. IssuesRightly
  <2>1. ~EnrolScep({}) /\ ~EnrolEst({})
    BY <1>1, <1>4 DEF EnrolScep, EnrolEst, UsagesOnly, Sign, Issued
  <2> QED
    BY <1>1, <2>1 DEF IssuesRightly, NothingAskedIsClient, NamesWerePermitted, ValidWhenIssued
<1> QED
  BY <1>1, <1>4, <1>5, <1>6
     DEF PolicyInv, UsagesWithinCA, DeviceIsNoResponder, PinnedUsages, PinnedNamesOnly,
         RenewalNeverGains, AcmeExact, EndsWithItsCA

----------------------------------------------------------------------------
(* Certificates.                                                             *)

(* A certificate is signed, and nothing else changes.                         *)
IsSigned(c) == /\ c \in CertRow /\ leaf' = c /\ renewed' = c
               /\ UNCHANGED <<aspect, now, root, issuing, rules, pin>>

(* One that says nothing but its usages, within the CA's profile.             *)
UsagesSigned(via, given) ==
    /\ given # {} /\ given \subseteq issuing.usages
    /\ IsSigned(Issued(via, given, NoSubject, {}, [from |-> 0, to |-> 1]))

(* What a leaf is given for what it asks is within its CA's usages, and is   *)
(* what it asks when nothing is required.                                    *)
LEMMA UsagesChosen ==
  ASSUME PolicyInv, issuing.made, NEW via \in {"scep", "est", "acme", "console"},
         NEW wanted \in SUBSET Usages, NEW required \in SUBSET Usages, UsagesOnly(via, wanted, required)
  PROVE  \E given \in SUBSET Usages :
            /\ UsagesSigned(via, given)
            /\ (wanted # {} /\ required = {} => given = wanted)
<1>1. PICK given \in SUBSET Usages :
        /\ ekuSelection(wanted, required, given)
        /\ Sign(Issued(via, given, NoSubject, {}, [from |-> 0, to |-> 1]))
  BY DEF UsagesOnly
<1>2. given # {} /\ given \subseteq issuing.usages /\ (wanted # {} /\ required = {} => given = wanted)
  BY <1>1 DEF ekuSelection, PolicyInv, ProfilesNest
<1>3. Issued(via, given, NoSubject, {}, [from |-> 0, to |-> 1]) \in CertRow
  BY DEF Issued, CertRow, Commons
<1> QED
  BY <1>1, <1>2, <1>3 DEF UsagesSigned, IsSigned, Sign

(* Signing within the profile keeps everything that is not about names, dates *)
(* or a device's usages.                                                      *)
LEMMA UsagesKeep ==
  ASSUME PolicyInv, issuing.made, aspect = "usages", NEW via \in {"scep", "est", "acme", "console"},
         NEW given \in SUBSET Usages, UsagesSigned(via, given),
         via = "scep" => /\ given \intersect {Responder, AnyPurpose} = {}
                         /\ pin.usages # {} => given = pin.usages
  PROVE  PolicyInv' /\ NamesWerePermitted /\ ValidWhenIssued /\ leaf'.usages = given
<1>1. /\ leaf' \in CertRow /\ renewed' = leaf' /\ leaf'.via = via /\ leaf'.usages = given
      /\ leaf'.subject = NoSubject /\ leaf'.sans = {}
      /\ UNCHANGED <<aspect, now, root, issuing, rules, pin>>
  BY DEF UsagesSigned, IsSigned, Issued
<1>2. PolicyShapes' /\ ProfilesNest' /\ PinsAreSound'
  BY <1>1 DEF PolicyInv, PolicyShapes, ProfilesNest, PinsAreSound
<1>3. UsagesWithinCA' /\ DeviceIsNoResponder' /\ PinnedUsages'
  BY <1>1 DEF UsagesSigned, PolicyInv, ProfilesNest, UsagesWithinCA, DeviceIsNoResponder, PinnedUsages
<1>4. PinnedNamesOnly' /\ AcmeExact' /\ EndsWithItsCA' /\ NamesWerePermitted
  <2>1. aspect' = "usages" /\ pin' = pin /\ leaf'.sans = {} /\ leaf'.subject.common = Nameless
    BY <1>1 DEF NoSubject
  <2>2. Read({}) = {}
    BY DEF Read
  <2> QED
    BY <2>1, <2>2 DEF PinnedNamesOnly, AcmeExact, EndsWithItsCA, NamesWerePermitted
<1>5. RenewalNeverGains'
  BY <1>1 DEF RenewalNeverGains
<1> QED
  BY <1>1, <1>2, <1>3, <1>4, <1>5 DEF PolicyInv, ValidWhenIssued

(* What a request resolves to is on the endpoint's list, and never nothing.   *)
LEMMA Resolved ==
  ASSUME PolicyInv, NEW wanted \in SUBSET Usages, NEW given \in SUBSET Usages, ResolveEKUs(wanted, given)
  PROVE  /\ given # {} /\ given \subseteq ResolvedAllowed
         /\ (wanted = {} => given = {Client})
         /\ rules.protocol = "scep" => given \intersect {Responder, AnyPurpose} = {}
<1>1. given # {} /\ given \subseteq ResolvedAllowed /\ (wanted = {} => given = {Client})
  BY DEF ResolveEKUs, Normal
<1>2. rules.protocol = "scep" => ResolvedAllowed \intersect {Responder, AnyPurpose} = {}
  BY DEF PolicyInv, PinsAreSound, ResolvedAllowed, EKUChoices, Client, Responder, AnyPurpose
<1> QED
  BY <1>1, <1>2

(* An enrolment says what it resolved to, and nothing else.                   *)
LEMMA ScepEnrols ==
  ASSUME PolicyInv, NEW wanted \in SUBSET Usages, EnrolScep(wanted)
  PROVE  PolicyInv' /\ NamesWerePermitted /\ ValidWhenIssued /\ (wanted = {} => leaf'.usages = {Client})
<1>1. aspect = "usages" /\ issuing.made /\ rules.protocol = "scep"
  BY DEF EnrolScep
<1>2. PICK given \in SUBSET Usages :
        /\ ResolveEKUs(wanted, given) /\ (pin.usages # {} => given = pin.usages)
        /\ UsagesOnly("scep", given, {})
  BY DEF EnrolScep, sameEKUSet
<1>3. /\ given # {} /\ (wanted = {} => given = {Client})
      /\ given \intersect {Responder, AnyPurpose} = {}
  BY <1>1, <1>2, Resolved
<1>4. UsagesSigned("scep", given)
  BY <1>1, <1>2, <1>3, UsagesChosen
<1>5. PolicyInv' /\ NamesWerePermitted /\ ValidWhenIssued /\ leaf'.usages = given
  BY <1>1, <1>2, <1>3, <1>4, UsagesKeep
<1> QED
  BY <1>3, <1>5

(* So does an enrolment over EST.                                            *)
LEMMA EstEnrols ==
  ASSUME PolicyInv, NEW wanted \in SUBSET Usages, EnrolEst(wanted)
  PROVE  PolicyInv' /\ NamesWerePermitted /\ ValidWhenIssued /\ (wanted = {} => leaf'.usages = {Client})
<1>1. aspect = "usages" /\ issuing.made
  BY DEF EnrolEst
<1>2. PICK given \in SUBSET Usages : ResolveEKUs(wanted, given) /\ UsagesOnly("est", given, {})
  BY DEF EnrolEst
<1>3. given # {} /\ (wanted = {} => given = {Client})
  BY <1>2, Resolved
<1>4. UsagesSigned("est", given)
  BY <1>1, <1>2, <1>3, UsagesChosen
<1>5. PolicyInv' /\ NamesWerePermitted /\ ValidWhenIssued /\ leaf'.usages = given
  BY <1>1, <1>4, UsagesKeep
<1> QED
  BY <1>3, <1>5

(* Two of the enrolments that ask for nothing agree on what that is.          *)
LEMMA NothingAsked ==
  ASSUME PolicyInv
  PROVE  NothingAskedIsClient
  BY ScepEnrols, EstEnrols DEF NothingAskedIsClient

(* An order, or the console's forms, with usages of their own.                *)
LEMMA OtherUsages ==
  ASSUME PolicyInv,
         \/ FinalizeAcme
         \/ \E wanted \in ekuInput : signCSR(wanted) \/ issueGenerated(wanted)
  PROVE  PolicyInv' /\ NamesWerePermitted /\ ValidWhenIssued
<1>1. aspect = "usages" /\ issuing.made
  BY DEF FinalizeAcme, signCSR, issueGenerated, IssueGenerated
<1>2. \E via \in {"acme", "console"}, wanted \in SUBSET Usages, required \in SUBSET Usages :
        UsagesOnly(via, wanted, required)
  <2>1. rules.allowed \subseteq Usages
    BY DEF PolicyInv, PolicyShapes, RulesRow
  <2>2. CASE FinalizeAcme
    BY <2>1, <2>2 DEF FinalizeAcme
  <2>3. ASSUME NEW wanted \in ekuInput, signCSR(wanted) PROVE UsagesOnly("console", wanted, {})
    BY <2>3 DEF signCSR
  <2>4. ASSUME NEW wanted \in ekuInput, issueGenerated(wanted)
        PROVE  \E required \in {Client, Server} : UsagesOnly("console", wanted, {required})
    BY <2>4 DEF issueGenerated, IssueGenerated
  <2>5. \A required \in {Client, Server} : {required} \subseteq Usages
    OBVIOUS
  <2> QED
    BY <2>2, <2>3, <2>4, <2>5 DEF ekuInput
<1>3. PICK via \in {"acme", "console"}, given \in SUBSET Usages : UsagesSigned(via, given)
  BY <1>1, <1>2, UsagesChosen
<1> QED
  BY <1>1, <1>3, UsagesKeep

----------------------------------------------------------------------------
(* Names.                                                                    *)

(* The texts of the entries that are read are the texts of a request.        *)
LEMMA ReadNames ==
  ASSUME NEW sans \in SUBSET Named
  PROVE  CSRSANNames(sans) = {n.text : n \in Read(sans)}
<1>1. \A n \in sans : n.form \in {"dns", "uri", "upn", "unread"}
  BY DEF Forms
<1>2. \A n \in sans : n \in Read(sans) <=> n.form \in {"dns", "uri"} \/ n.form \in {"upn"}
  BY <1>1 DEF Read
<1> QED
  BY <1>2 DEF CSRSANNames, Parsed, UnparsedSANs, ShownAs, Read

(* Names that pass an endpoint's check match its rule; without a rule there  *)
(* are none.                                                                 *)
LEMMA CheckedNames ==
  ASSUME NEW subject, NEW names, Check(subject, names)
  PROVE  \A x \in names : rules.san.set /\ x \in rules.san.matches
  BY DEF Check

(* A name that is read is one of the texts that were checked.                *)
Matched(sans) == \A n \in Read(sans) : rules.san.set /\ n.text \in rules.san.matches

(* So they are in the certificate, by the rule of the moment.                *)
LEMMA CheckedEntries ==
  ASSUME NEW subject, NEW sans \in SUBSET Named, Check(subject, CSRSANNames(sans))
  PROVE  Matched(sans)
<1>1. \A n \in Read(sans) : n.text \in CSRSANNames(sans)
  BY ReadNames
<1> QED
  BY <1>1, CheckedNames DEF Matched

(* A certificate for names is shaped like one.                                *)
LEMMA NamedCert ==
  ASSUME NEW via \in {"scep", "est", "acme"}, NEW csr \in Requested
  PROVE  LET c == NamesOnly(via, csr) IN
         /\ c \in CertRow /\ c.via = via /\ c.usages = {Client}
         /\ c.subject = csr.subject /\ c.sans = csr.sans /\ csr.sans \in SUBSET Named
  BY DEF NamesOnly, Issued, CertRow, Requested

(* A certificate shows the subject of another and no text it does not have.  *)
ShowsNoMore(c, d) == /\ c.subject.shown = d.subject.shown
                     /\ \A n \in Read(c.sans) : \E m \in Read(d.sans) : n.text = m.text

(* A request names what its order was authorized for.                         *)
ExactlyOrdered(subject, sans) ==
    /\ {n.text : n \in Read(sans)} = pin.names /\ Wildcard \notin pin.names
    /\ \A n \in Read(sans) : n.form = "dns"
    /\ subject.common \in pin.names \union {Nameless}

(* Signing names keeps what is about usages and dates.                        *)
LEMMA NamesKeep ==
  ASSUME PolicyInv, aspect = "names", NEW via \in {"scep", "est", "acme"}, NEW csr \in Requested,
         leaf' = NamesOnly(via, csr), renewed' \in CertRow,
         UNCHANGED <<aspect, now, root, issuing, rules, pin>>,
         via = "scep" => ShowsNoMore(leaf', renewed'),
         via \in {"scep", "est"} => Matched(csr.sans),
         (via = "est" /\ pin.kind = "credential") =>
             /\ \A n \in Read(csr.sans) : n.text \in pin.names
             /\ csr.subject.common \in pin.names \union {Nameless},
         via = "acme" => ExactlyOrdered(csr.subject, csr.sans)
  PROVE  PolicyInv' /\ NamesWerePermitted /\ ValidWhenIssued
<1>1. /\ leaf' \in CertRow /\ leaf'.via = via /\ leaf'.usages = {Client}
      /\ leaf'.subject = csr.subject /\ leaf'.sans = csr.sans
  BY NamedCert
<1>2. PolicyShapes' /\ ProfilesNest' /\ PinsAreSound'
  BY <1>1 DEF PolicyInv, PolicyShapes, ProfilesNest, PinsAreSound
<1>3. UsagesWithinCA' /\ DeviceIsNoResponder' /\ PinnedUsages' /\ EndsWithItsCA'
  BY <1>1 DEF PolicyInv, PinsAreSound, UsagesWithinCA, DeviceIsNoResponder, PinnedUsages,
              EndsWithItsCA, Client, Responder, AnyPurpose
<1>4. PinnedNamesOnly' /\ RenewalNeverGains'
  BY <1>1 DEF PinnedNamesOnly, RenewalNeverGains, ShowsNoMore
<1>5. AcmeExact'
  BY <1>1 DEF AcmeExact, ExactlyOrdered
<1>6. NamesWerePermitted
  BY <1>1 DEF NamesWerePermitted, Matched
<1> QED
  BY <1>1, <1>2, <1>3, <1>4, <1>5, <1>6 DEF PolicyInv, ValidWhenIssued

(* Whatever a request for names passed, over SCEP, EST, a renewal or an      *)
(* order, the certificate names no more.                                     *)
LEMMA NamesStep ==
  ASSUME PolicyInv, NEW csr \in Requested,
         ScepNames(csr) \/ EstNames(csr) \/ RenewScep(csr) \/ FinalizeNames(csr)
  PROVE  PolicyInv' /\ NamesWerePermitted /\ ValidWhenIssued
<1>1. csr.sans \in SUBSET Named /\ CSRSANNames(csr.sans) = {n.text : n \in Read(csr.sans)}
  BY ReadNames DEF Requested
<1>2. CASE ScepNames(csr)
  <2>1. Matched(csr.sans)
    BY <1>1, <1>2, CheckedEntries DEF ScepNames, validateNames
  <2>2. ShowsNoMore(NamesOnly("scep", csr), NamesOnly("scep", csr))
    BY DEF ShowsNoMore
  <2> QED
    BY <1>2, <2>1, <2>2, NamedCert, NamesKeep DEF ScepNames, Sign
<1>3. CASE EstNames(csr)
  <2>1. Matched(csr.sans)
    BY <1>1, <1>3, CheckedEntries DEF EstNames, checkEstNames
  <2>2. pin.kind = "credential" =>
          /\ \A n \in Read(csr.sans) : n.text \in pin.names
          /\ csr.subject.common \in pin.names \union {Nameless}
    BY <1>1, <1>3 DEF EstNames, checkIdentifierPin
  <2> QED
    BY <1>3, <2>1, <2>2, NamedCert, NamesKeep DEF EstNames, Sign
<1>4. CASE RenewScep(csr)
  <2>1. Matched(csr.sans)
    BY <1>1, <1>4, CheckedEntries DEF RenewScep, validateNames
  <2>2. leaf.sans \in SUBSET Named /\ renewed \in CertRow
    BY DEF PolicyInv, PolicyShapes, CertRow
  <2>3. certSANNames(leaf) = {n.text : n \in Read(leaf.sans)}
    BY <2>2, ReadNames DEF certSANNames, CSRSANNames
  <2>4. ShowsNoMore(leaf, renewed)
    BY <1>4 DEF RenewScep, PolicyInv, RenewalNeverGains, ShowsNoMore
  <2>5. csr.subject.shown = leaf.subject.shown /\ CSRSANNames(csr.sans) \subseteq certSANNames(leaf)
    BY <1>4 DEF RenewScep, sameNames, RenderSubject
  <2>6. \A n \in Read(csr.sans) : \E m \in Read(leaf.sans) : n.text = m.text
    BY <1>1, <2>3, <2>5
  <2>7. /\ aspect = "names" /\ leaf' = NamesOnly("scep", csr)
        /\ UNCHANGED <<aspect, now, root, issuing, rules, pin, renewed>>
    BY <1>4 DEF RenewScep
  <2>8. leaf'.subject = csr.subject /\ leaf'.sans = csr.sans
    BY <2>7, NamedCert
  <2>9. ShowsNoMore(leaf', renewed')
    BY <2>4, <2>5, <2>6, <2>7, <2>8 DEF ShowsNoMore
  <2> QED
    BY <2>1, <2>2, <2>7, <2>9, NamedCert, NamesKeep
<1>5. CASE FinalizeNames(csr)
  <2>1. /\ ShownAs(csr.sans, {"upn"}) = {} /\ ShownAs(csr.sans, {"uri"}) = {}
        /\ ShownAs(csr.sans, {"dns"}) = pin.names /\ csr.subject.common \in pin.names \union {Nameless}
    BY <1>5 DEF FinalizeNames, checkCSRNames, UnparsedSANs
  <2>2. Wildcard \notin pin.names
    BY <1>5 DEF FinalizeNames, PolicyInv, PinsAreSound
  <2>3. \A n \in csr.sans : n.form \in {"dns", "uri", "upn", "unread"}
    BY <1>1 DEF Forms
  <2>4. \A n \in Read(csr.sans) : n.form = "dns"
    BY <2>1, <2>3 DEF Read, ShownAs
  <2>5. {n.text : n \in Read(csr.sans)} = ShownAs(csr.sans, {"dns"})
    BY <2>4 DEF Read, ShownAs
  <2>6. ExactlyOrdered(csr.subject, csr.sans)
    BY <2>1, <2>2, <2>4, <2>5 DEF ExactlyOrdered
  <2> QED
    BY <1>5, <2>6, NamedCert, NamesKeep DEF FinalizeNames, Sign
<1> QED
  BY <1>2, <1>3, <1>4, <1>5

----------------------------------------------------------------------------
(* Dates.                                                                    *)

(* A certificate is valid from before it is made to when its CA ends.         *)
LEMMA DatesStep ==
  ASSUME PolicyInv, NEW days \in Spans, signLeaf(days)
  PROVE  PolicyInv' /\ NamesWerePermitted /\ ValidWhenIssued
<1>1. /\ now \in Nat /\ now >= 2 /\ issuing.to \in Int /\ issuing.from \in Int
  BY DEF PolicyInv, PolicyShapes, ProfileRow, Skew
<1> DEFINE from == now - Skew
           until == LeafUntil(now + Day * leafValidityDays(days))
           cert == Issued("console", {Client}, NoSubject, {}, [from |-> from, to |-> until])
<1>2. aspect = "dates" /\ issuing.made /\ IssuerIsValid /\ until > from /\ Sign(cert)
  BY DEF signLeaf, DaysFromNow
<1>3. /\ until \in Int /\ from \in Int /\ from < until
      /\ until <= issuing.to /\ from <= now /\ now <= until
  BY <1>1, <1>2 DEF LeafUntil, Earlier, Day, Skew, leafValidityDays, IssuerIsValid
<1> HIDE DEF from, until
<1>4. /\ leaf' \in CertRow /\ renewed' = leaf' /\ leaf'.via = "console"
      /\ leaf'.from = from /\ leaf'.to = until
      /\ UNCHANGED <<aspect, now, root, issuing, rules, pin>>
  BY <1>2, <1>3 DEF Sign, Issued, CertRow, Commons
<1>5. PolicyShapes' /\ ProfilesNest' /\ PinsAreSound'
  BY <1>2, <1>4 DEF PolicyInv, PolicyShapes, ProfilesNest, PinsAreSound
<1>6. EndsWithItsCA'
  BY <1>2, <1>3, <1>4 DEF PolicyInv, EndsWithItsCA
<1>7. UsagesWithinCA' /\ DeviceIsNoResponder' /\ PinnedUsages' /\ PinnedNamesOnly' /\ RenewalNeverGains'
      /\ AcmeExact'
  BY <1>2, <1>4 DEF UsagesWithinCA, DeviceIsNoResponder, PinnedUsages, PinnedNamesOnly,
                    RenewalNeverGains, AcmeExact
<1> QED
  BY <1>2, <1>3, <1>4, <1>5, <1>6, <1>7 DEF PolicyInv, NamesWerePermitted, ValidWhenIssued

----------------------------------------------------------------------------
(* Every step keeps the invariant, and what it issues is permitted.          *)
LEMMA PolicyKept ==
  ASSUME PolicyInv, PolicyNext
  PROVE  PolicyInv' /\ IssuesRightly
<1>0. NothingAskedIsClient
  BY NothingAsked
<1>1. ASSUME NEW wanted \in SUBSET Usages, NEW days \in Spans,
             createRoot(wanted, days) \/ createIssuing(wanted, days)
      PROVE  PolicyInv' /\ IssuesRightly
  BY <1>1, RootStep, IssuingStep
<1>2. ASSUME \E wanted \in ekuInput :
                \/ AllowScep(wanted) \/ AllowEst(wanted) \/ AllowAcme(wanted) \/ mintChallenge(wanted)
                \/ signCSR(wanted) \/ issueGenerated(wanted)
      PROVE  PolicyInv' /\ IssuesRightly
  BY <1>0, <1>2, RulesStep, PinStep, OtherUsages DEF IssuesRightly
<1>3. ASSUME NEW wanted \in RequestedEKUs, EnrolScep(wanted) \/ EnrolEst(wanted)
      PROVE  PolicyInv' /\ IssuesRightly
  BY <1>0, <1>3, ScepEnrols, EstEnrols DEF IssuesRightly, RequestedEKUs
<1>4. ASSUME FinalizeAcme PROVE PolicyInv' /\ IssuesRightly
  BY <1>0, <1>4, OtherUsages DEF IssuesRightly
<1>5. ASSUME \E san \in SANRules, subjects \in {Commons, {Nameless}} : SetRules(san, subjects)
      PROVE  PolicyInv' /\ IssuesRightly
  BY <1>5, RulesStep
<1>6. ASSUME \E names \in SUBSET Texts : PinCredential(names) \/ NewOrder(names)
      PROVE  PolicyInv' /\ IssuesRightly
  BY <1>6, PinStep
<1>7. ASSUME NEW csr \in Requested,
             ScepNames(csr) \/ EstNames(csr) \/ RenewScep(csr) \/ FinalizeNames(csr)
      PROVE  PolicyInv' /\ IssuesRightly
  BY <1>0, <1>7, NamesStep DEF IssuesRightly
<1>8. ASSUME rotateIssuing \/ PassTime PROVE PolicyInv' /\ IssuesRightly
  BY <1>8, RotateStep, TimeStep
<1>9. ASSUME NEW days \in Spans, signLeaf(days) PROVE PolicyInv' /\ IssuesRightly
  BY <1>0, <1>9, DatesStep DEF IssuesRightly
<1>10. \A wanted \in (IF aspect = "usages" THEN ekuInput ELSE {{}}) : wanted \in SUBSET Usages
  BY DEF ekuInput
<1> QED
  BY <1>1, <1>2, <1>3, <1>4, <1>5, <1>6, <1>7, <1>8, <1>9, <1>10 DEF PolicyNext

(* So does a step that changes nothing.                                      *)
LEMMA PolicyStutters ==
  ASSUME PolicyInv, UNCHANGED policyVars
  PROVE  PolicyInv'
  BY DEF policyVars, PolicyInv, PolicyShapes, ProfilesNest, PinsAreSound, UsagesWithinCA,
         DeviceIsNoResponder, PinnedUsages, PinnedNamesOnly, RenewalNeverGains, AcmeExact, EndsWithItsCA

(* However profiles, policies and pins change between them, a certificate     *)
(* names, in the entries that are read and by their text, what every level    *)
(* above it permits, has usages they permit, and is valid when it is issued.  *)
THEOREM CertificatesArePermitted == PolicySpec => CertificateIsPermitted
<1>1. PolicyInv /\ [PolicyNext]_policyVars => PolicyInv'
  BY PolicyKept, PolicyStutters
<1>2. ASSUME PolicyInv, PolicyInv', [PolicyNext]_policyVars
      PROVE  [/\ UsagesWithinCA' /\ DeviceIsNoResponder' /\ PinnedUsages'
              /\ NothingAskedIsClient /\ NamesWerePermitted /\ PinnedNamesOnly' /\ RenewalNeverGains'
              /\ AcmeExact' /\ EndsWithItsCA' /\ ValidWhenIssued /\ PolicyTypeOK']_policyVars
  <2>1. PolicyTypeOK'
    BY <1>2, ShapesAreTypes, PTL DEF PolicyInv
  <2>2. PolicyNext => IssuesRightly
    BY <1>2, PolicyKept
  <2> QED
    BY <1>2, <2>1, <2>2 DEF PolicyInv, IssuesRightly
<1> QED
  BY <1>1, <1>2, PolicyFirst, PTL DEF PolicySpec, CertificateIsPermitted

=============================================================================

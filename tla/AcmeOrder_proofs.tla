-------------------------- MODULE AcmeOrder_proofs --------------------------
(* Proofs about AcmeOrder for every number of requests, orders, accounts and *)
(* serials: its types, the agreement of certificates and orders, and that it *)
(* implements OrderLifecycle.                                                *)
EXTENDS AcmeOrder, FiniteSetTheorems, TLAPS

(* A request past the SELECT holds its row; it has nothing to write before   *)
(* the CA answered, and a serial only once the CA signed it.                 *)
HoldsRow ==
    \A p \in Requests :
        /\ pc[p] # "idle" => named[p] \in Orders
        /\ pc[p] \in {"check", "issue", "reply", "commit", "reject"} => rowLock[named[p]] = p
        /\ pc[p] \in {"idle", "lock", "select", "check", "issue"} => pending[p] = NoCert
        /\ pc[p] \in {"reply", "commit"} => pending[p] # Refusal
        /\ pc[p] = "reject" => pending[p] \notin Certs

(* A serial on its way to be recorded was signed, is recorded nowhere yet,   *)
(* and is on its way in one request only.                                    *)
FreshSerial ==
    /\ \A p \in Requests : pending[p] \in Certs =>
          pending[p] \in signed /\ recorded[pending[p]] = NoOrder
    /\ \A p, q \in Requests : pending[p] \in Certs /\ pending[p] = pending[q] => p = q
    /\ \A c \in Certs : recorded[c] # NoOrder => c \in signed

(* The orders the sweep is about to retire are locked by it and still ready. *)
SweepHolds == \A o \in hits : rowLock[o] = Sweeper /\ status[o] = "ready"

(* Only rows NewOrder wrote expire; the sweep's horizon holds no other, and   *)
(* what is ready in it is either still to be visited or already held.        *)
SweepCovers ==
    /\ horizon \subseteq expired
    /\ \A o \in expired : status[o] # "absent"
    /\ \A o \in horizon : status[o] = "ready" => o \in todo \union hits

IndInv == TypeOK /\ HoldsRow /\ DecisionStands /\ FreshSerial /\ SweepHolds
          /\ CertificateAndOrderAgree

USE AcmeOrderAssumption

(* Each step keeps the types.                                                *)
LEMMA TypeStep ==
    TypeOK /\ [Next]_vars
        => TypeOK'
<1> SUFFICES ASSUME TypeOK, [Next]_vars
             PROVE TypeOK'
  OBVIOUS
<1> USE DEF TypeOK, order, tables, request, locks, sweep
<1>1. ASSUME NEW o \in Orders, NEW a \in Accounts, NewOrder(o, a) PROVE TypeOK'
  BY <1>1 DEF NewOrder
<1>2. ASSUME NEW o \in Orders, Expire(o) PROVE TypeOK'
  BY <1>2 DEF Expire
<1>3. ASSUME SetCAStatus PROVE TypeOK'
  BY <1>3 DEF SetCAStatus
<1>4. ASSUME NEW p \in Requests, NEW o \in Orders, NEW a \in Accounts, Receive(p, o, a) PROVE TypeOK'
  BY <1>4 DEF Receive
<1>5. ASSUME NEW p \in Requests, LockOrganization(p) PROVE TypeOK'
  BY <1>5 DEF LockOrganization
<1>6. ASSUME NEW p \in Requests, OrderForUpdate(p) PROVE TypeOK'
  BY <1>6 DEF OrderForUpdate, Verdict
<1>7. ASSUME NEW p \in Requests, CheckRequest(p) PROVE TypeOK'
  BY <1>7 DEF CheckRequest
<1>8. ASSUME NEW p \in Requests, IssueRefused(p) PROVE TypeOK'
  BY <1>8 DEF IssueRefused
<1>9. ASSUME NEW p \in Requests, NEW c \in Certs, Issue(p, c) PROVE TypeOK'
  BY <1>9 DEF Issue
<1>10. ASSUME NEW p \in Requests, Reply(p) PROVE TypeOK'
  BY <1>10 DEF Reply
<1>11. ASSUME NEW p \in Requests, Commit(p) PROVE TypeOK'
  BY <1>11 DEF Commit, EndRequest, Unlock
<1>12. ASSUME NEW p \in Requests, Reject(p) PROVE TypeOK'
  BY <1>12 DEF Reject, EndRequest, Unlock
<1>13. ASSUME NEW p \in Requests, Fail(p) PROVE TypeOK'
  BY <1>13 DEF Fail, EndRequest, Unlock
<1>14. ASSUME SweepStart PROVE TypeOK'
  BY <1>14 DEF SweepStart
<1>15. ASSUME NEW o \in Orders, SweepOrder(o) PROVE TypeOK'
  BY <1>15 DEF SweepOrder, StillReady
<1>16. ASSUME SweepCommit PROVE TypeOK'
  BY <1>16 DEF SweepCommit, EndSweep
<1>17. ASSUME SweepFail PROVE TypeOK'
  <2>1. failures' \in 0 .. MaxFailures
    BY <1>17 DEF SweepFail
  <2>2. rowLock' \in [Orders -> Requests \union {Free, Sweeper}]
    BY <1>17 DEF SweepFail, EndSweep
  <2> QED
    BY <1>17, <2>1, <2>2 DEF SweepFail, EndSweep
<1>18. CASE UNCHANGED vars
  BY <1>18 DEF vars
<1> QED
  BY <1>1, <1>2, <1>3, <1>4, <1>5, <1>6, <1>7, <1>8, <1>9, <1>10,
     <1>11, <1>12, <1>13, <1>14, <1>15, <1>16, <1>17, <1>18
     DEF Next, Finalize, ExpireOrders

(* Each step keeps the discipline of the row locks.                          *)
LEMMA HoldsRowStep ==
    TypeOK /\ HoldsRow /\ [Next]_vars
        => HoldsRow'
<1> SUFFICES ASSUME TypeOK /\ HoldsRow, [Next]_vars
             PROVE HoldsRow'
  OBVIOUS
<1> USE DEF TypeOK, HoldsRow, order, tables, request, locks, sweep
<1>1. ASSUME NEW o \in Orders, NEW a \in Accounts, NewOrder(o, a) PROVE HoldsRow'
  BY <1>1 DEF NewOrder
<1>2. ASSUME NEW o \in Orders, Expire(o) PROVE HoldsRow'
  BY <1>2 DEF Expire
<1>3. ASSUME SetCAStatus PROVE HoldsRow'
  BY <1>3 DEF SetCAStatus
<1>4. ASSUME NEW p \in Requests, NEW o \in Orders, NEW a \in Accounts, Receive(p, o, a) PROVE HoldsRow'
  BY <1>4 DEF Receive
<1>5. ASSUME NEW p \in Requests, LockOrganization(p) PROVE HoldsRow'
  BY <1>5 DEF LockOrganization
<1>6. ASSUME NEW p \in Requests, OrderForUpdate(p) PROVE HoldsRow'
  BY <1>6 DEF OrderForUpdate, Verdict
<1>7. ASSUME NEW p \in Requests, CheckRequest(p) PROVE HoldsRow'
  BY <1>7 DEF CheckRequest
<1>8. ASSUME NEW p \in Requests, IssueRefused(p) PROVE HoldsRow'
  BY <1>8 DEF IssueRefused
<1>9. ASSUME NEW p \in Requests, NEW c \in Certs, Issue(p, c) PROVE HoldsRow'
  BY <1>9 DEF Issue
<1>10. ASSUME NEW p \in Requests, Reply(p) PROVE HoldsRow'
  BY <1>10 DEF Reply
<1>11. ASSUME NEW p \in Requests, Commit(p) PROVE HoldsRow'
  BY <1>11 DEF Commit, EndRequest, Unlock
<1>12. ASSUME NEW p \in Requests, Reject(p) PROVE HoldsRow'
  BY <1>12 DEF Reject, EndRequest, Unlock
<1>13. ASSUME NEW p \in Requests, Fail(p) PROVE HoldsRow'
  BY <1>13 DEF Fail, EndRequest, Unlock
<1>14. ASSUME SweepStart PROVE HoldsRow'
  BY <1>14 DEF SweepStart
<1>15. ASSUME NEW o \in Orders, SweepOrder(o) PROVE HoldsRow'
  BY <1>15 DEF SweepOrder, StillReady
<1>16. ASSUME SweepCommit PROVE HoldsRow'
  BY <1>16 DEF SweepCommit, EndSweep
<1>17. ASSUME SweepFail PROVE HoldsRow'
  BY <1>17 DEF SweepFail, EndSweep
<1>18. CASE UNCHANGED vars
  BY <1>18 DEF vars
<1> QED
  BY <1>1, <1>2, <1>3, <1>4, <1>5, <1>6, <1>7, <1>8, <1>9, <1>10,
     <1>11, <1>12, <1>13, <1>14, <1>15, <1>16, <1>17, <1>18
     DEF Next, Finalize, ExpireOrders

(* No step takes a decision back under the request that made it.             *)
LEMMA DecisionStep ==
    TypeOK /\ HoldsRow /\ SweepHolds /\ DecisionStands /\ [Next]_vars
        => DecisionStands'
<1> SUFFICES ASSUME TypeOK /\ HoldsRow /\ SweepHolds /\ DecisionStands, [Next]_vars
             PROVE DecisionStands'
  OBVIOUS
<1> USE DEF TypeOK, HoldsRow, SweepHolds, DecisionStands, order, tables, request, locks, sweep
<1>1. ASSUME NEW o \in Orders, NEW a \in Accounts, NewOrder(o, a) PROVE DecisionStands'
  BY <1>1 DEF NewOrder
<1>2. ASSUME NEW o \in Orders, Expire(o) PROVE DecisionStands'
  BY <1>2 DEF Expire
<1>3. ASSUME SetCAStatus PROVE DecisionStands'
  BY <1>3 DEF SetCAStatus
<1>4. ASSUME NEW p \in Requests, NEW o \in Orders, NEW a \in Accounts, Receive(p, o, a) PROVE DecisionStands'
  BY <1>4 DEF Receive
<1>5. ASSUME NEW p \in Requests, LockOrganization(p) PROVE DecisionStands'
  BY <1>5 DEF LockOrganization
<1>6. ASSUME NEW p \in Requests, OrderForUpdate(p) PROVE DecisionStands'
  BY <1>6 DEF OrderForUpdate, Verdict
<1>7. ASSUME NEW p \in Requests, CheckRequest(p) PROVE DecisionStands'
  BY <1>7 DEF CheckRequest
<1>8. ASSUME NEW p \in Requests, IssueRefused(p) PROVE DecisionStands'
  BY <1>8 DEF IssueRefused
<1>9. ASSUME NEW p \in Requests, NEW c \in Certs, Issue(p, c) PROVE DecisionStands'
  BY <1>9 DEF Issue
<1>10. ASSUME NEW p \in Requests, Reply(p) PROVE DecisionStands'
  BY <1>10 DEF Reply
<1>11. ASSUME NEW p \in Requests, Commit(p) PROVE DecisionStands'
  BY <1>11 DEF Commit, EndRequest, Unlock
<1>12. ASSUME NEW p \in Requests, Reject(p) PROVE DecisionStands'
  BY <1>12 DEF Reject, EndRequest, Unlock
<1>13. ASSUME NEW p \in Requests, Fail(p) PROVE DecisionStands'
  BY <1>13 DEF Fail, EndRequest, Unlock
<1>14. ASSUME SweepStart PROVE DecisionStands'
  BY <1>14 DEF SweepStart
<1>15. ASSUME NEW o \in Orders, SweepOrder(o) PROVE DecisionStands'
  BY <1>15 DEF SweepOrder, StillReady
<1>16. ASSUME SweepCommit PROVE DecisionStands'
  BY <1>16 DEF SweepCommit, EndSweep
<1>17. ASSUME SweepFail PROVE DecisionStands'
  BY <1>17 DEF SweepFail, EndSweep
<1>18. CASE UNCHANGED vars
  BY <1>18 DEF vars
<1> QED
  BY <1>1, <1>2, <1>3, <1>4, <1>5, <1>6, <1>7, <1>8, <1>9, <1>10,
     <1>11, <1>12, <1>13, <1>14, <1>15, <1>16, <1>17, <1>18
     DEF Next, Finalize, ExpireOrders

(* Each step keeps the serials on their way fresh.                           *)
LEMMA FreshStep ==
    TypeOK /\ HoldsRow /\ FreshSerial /\ [Next]_vars
        => FreshSerial'
<1> SUFFICES ASSUME TypeOK /\ HoldsRow /\ FreshSerial, [Next]_vars
             PROVE FreshSerial'
  OBVIOUS
<1> USE DEF TypeOK, HoldsRow, FreshSerial, order, tables, request, locks, sweep
<1>1. ASSUME NEW o \in Orders, NEW a \in Accounts, NewOrder(o, a) PROVE FreshSerial'
  BY <1>1 DEF NewOrder
<1>2. ASSUME NEW o \in Orders, Expire(o) PROVE FreshSerial'
  BY <1>2 DEF Expire
<1>3. ASSUME SetCAStatus PROVE FreshSerial'
  BY <1>3 DEF SetCAStatus
<1>4. ASSUME NEW p \in Requests, NEW o \in Orders, NEW a \in Accounts, Receive(p, o, a) PROVE FreshSerial'
  BY <1>4 DEF Receive
<1>5. ASSUME NEW p \in Requests, LockOrganization(p) PROVE FreshSerial'
  BY <1>5 DEF LockOrganization
<1>6. ASSUME NEW p \in Requests, OrderForUpdate(p) PROVE FreshSerial'
  BY <1>6 DEF OrderForUpdate, Verdict
<1>7. ASSUME NEW p \in Requests, CheckRequest(p) PROVE FreshSerial'
  BY <1>7 DEF CheckRequest
<1>8. ASSUME NEW p \in Requests, IssueRefused(p) PROVE FreshSerial'
  BY <1>8 DEF IssueRefused
<1>9. ASSUME NEW p \in Requests, NEW c \in Certs, Issue(p, c) PROVE FreshSerial'
  BY <1>9 DEF Issue
<1>10. ASSUME NEW p \in Requests, Reply(p) PROVE FreshSerial'
  BY <1>10 DEF Reply
<1>11. ASSUME NEW p \in Requests, Commit(p) PROVE FreshSerial'
  BY <1>11 DEF Commit, EndRequest, Unlock
<1>12. ASSUME NEW p \in Requests, Reject(p) PROVE FreshSerial'
  BY <1>12 DEF Reject, EndRequest, Unlock
<1>13. ASSUME NEW p \in Requests, Fail(p) PROVE FreshSerial'
  BY <1>13 DEF Fail, EndRequest, Unlock
<1>14. ASSUME SweepStart PROVE FreshSerial'
  BY <1>14 DEF SweepStart
<1>15. ASSUME NEW o \in Orders, SweepOrder(o) PROVE FreshSerial'
  BY <1>15 DEF SweepOrder, StillReady
<1>16. ASSUME SweepCommit PROVE FreshSerial'
  BY <1>16 DEF SweepCommit, EndSweep
<1>17. ASSUME SweepFail PROVE FreshSerial'
  BY <1>17 DEF SweepFail, EndSweep
<1>18. CASE UNCHANGED vars
  BY <1>18 DEF vars
<1> QED
  BY <1>1, <1>2, <1>3, <1>4, <1>5, <1>6, <1>7, <1>8, <1>9, <1>10,
     <1>11, <1>12, <1>13, <1>14, <1>15, <1>16, <1>17, <1>18
     DEF Next, Finalize, ExpireOrders

(* Each step keeps what the sweep holds.                                     *)
LEMMA SweepStep ==
    TypeOK /\ HoldsRow /\ SweepHolds /\ [Next]_vars
        => SweepHolds'
<1> SUFFICES ASSUME TypeOK /\ HoldsRow /\ SweepHolds, [Next]_vars
             PROVE SweepHolds'
  OBVIOUS
<1> USE DEF TypeOK, HoldsRow, SweepHolds, order, tables, request, locks, sweep
<1>1. ASSUME NEW o \in Orders, NEW a \in Accounts, NewOrder(o, a) PROVE SweepHolds'
  BY <1>1 DEF NewOrder
<1>2. ASSUME NEW o \in Orders, Expire(o) PROVE SweepHolds'
  BY <1>2 DEF Expire
<1>3. ASSUME SetCAStatus PROVE SweepHolds'
  BY <1>3 DEF SetCAStatus
<1>4. ASSUME NEW p \in Requests, NEW o \in Orders, NEW a \in Accounts, Receive(p, o, a) PROVE SweepHolds'
  BY <1>4 DEF Receive
<1>5. ASSUME NEW p \in Requests, LockOrganization(p) PROVE SweepHolds'
  BY <1>5 DEF LockOrganization
<1>6. ASSUME NEW p \in Requests, OrderForUpdate(p) PROVE SweepHolds'
  BY <1>6 DEF OrderForUpdate, Verdict
<1>7. ASSUME NEW p \in Requests, CheckRequest(p) PROVE SweepHolds'
  BY <1>7 DEF CheckRequest
<1>8. ASSUME NEW p \in Requests, IssueRefused(p) PROVE SweepHolds'
  BY <1>8 DEF IssueRefused
<1>9. ASSUME NEW p \in Requests, NEW c \in Certs, Issue(p, c) PROVE SweepHolds'
  BY <1>9 DEF Issue
<1>10. ASSUME NEW p \in Requests, Reply(p) PROVE SweepHolds'
  BY <1>10 DEF Reply
<1>11. ASSUME NEW p \in Requests, Commit(p) PROVE SweepHolds'
  BY <1>11 DEF Commit, EndRequest, Unlock
<1>12. ASSUME NEW p \in Requests, Reject(p) PROVE SweepHolds'
  BY <1>12 DEF Reject, EndRequest, Unlock
<1>13. ASSUME NEW p \in Requests, Fail(p) PROVE SweepHolds'
  BY <1>13 DEF Fail, EndRequest, Unlock
<1>14. ASSUME SweepStart PROVE SweepHolds'
  BY <1>14 DEF SweepStart
<1>15. ASSUME NEW o \in Orders, SweepOrder(o) PROVE SweepHolds'
  BY <1>15 DEF SweepOrder, StillReady
<1>16. ASSUME SweepCommit PROVE SweepHolds'
  BY <1>16 DEF SweepCommit, EndSweep
<1>17. ASSUME SweepFail PROVE SweepHolds'
  BY <1>17 DEF SweepFail, EndSweep
<1>18. CASE UNCHANGED vars
  BY <1>18 DEF vars
<1> QED
  BY <1>1, <1>2, <1>3, <1>4, <1>5, <1>6, <1>7, <1>8, <1>9, <1>10,
     <1>11, <1>12, <1>13, <1>14, <1>15, <1>16, <1>17, <1>18
     DEF Next, Finalize, ExpireOrders

(* Each step keeps certificates and orders in agreement.                     *)
LEMMA AgreeStep ==
    IndInv /\ [Next]_vars
        => CertificateAndOrderAgree'
<1> SUFFICES ASSUME IndInv, [Next]_vars
             PROVE CertificateAndOrderAgree'
  OBVIOUS
<1> USE DEF IndInv, TypeOK, HoldsRow, FreshSerial, DecisionStands, SweepHolds, CertificateAndOrderAgree, order, tables, request, locks, sweep
<1>1. ASSUME NEW o \in Orders, NEW a \in Accounts, NewOrder(o, a) PROVE CertificateAndOrderAgree'
  BY <1>1 DEF NewOrder
<1>2. ASSUME NEW o \in Orders, Expire(o) PROVE CertificateAndOrderAgree'
  BY <1>2 DEF Expire
<1>3. ASSUME SetCAStatus PROVE CertificateAndOrderAgree'
  BY <1>3 DEF SetCAStatus
<1>4. ASSUME NEW p \in Requests, NEW o \in Orders, NEW a \in Accounts, Receive(p, o, a) PROVE CertificateAndOrderAgree'
  BY <1>4 DEF Receive
<1>5. ASSUME NEW p \in Requests, LockOrganization(p) PROVE CertificateAndOrderAgree'
  BY <1>5 DEF LockOrganization
<1>6. ASSUME NEW p \in Requests, OrderForUpdate(p) PROVE CertificateAndOrderAgree'
  BY <1>6 DEF OrderForUpdate, Verdict
<1>7. ASSUME NEW p \in Requests, CheckRequest(p) PROVE CertificateAndOrderAgree'
  BY <1>7 DEF CheckRequest
<1>8. ASSUME NEW p \in Requests, IssueRefused(p) PROVE CertificateAndOrderAgree'
  BY <1>8 DEF IssueRefused
<1>9. ASSUME NEW p \in Requests, NEW c \in Certs, Issue(p, c) PROVE CertificateAndOrderAgree'
  BY <1>9 DEF Issue
<1>10. ASSUME NEW p \in Requests, Reply(p) PROVE CertificateAndOrderAgree'
  BY <1>10 DEF Reply
<1>11. ASSUME NEW p \in Requests, Commit(p) PROVE CertificateAndOrderAgree'
  BY <1>11 DEF Commit, EndRequest, Unlock
<1>12. ASSUME NEW p \in Requests, Reject(p) PROVE CertificateAndOrderAgree'
  BY <1>12 DEF Reject, EndRequest, Unlock
<1>13. ASSUME NEW p \in Requests, Fail(p) PROVE CertificateAndOrderAgree'
  BY <1>13 DEF Fail, EndRequest, Unlock
<1>14. ASSUME SweepStart PROVE CertificateAndOrderAgree'
  BY <1>14 DEF SweepStart
<1>15. ASSUME NEW o \in Orders, SweepOrder(o) PROVE CertificateAndOrderAgree'
  BY <1>15 DEF SweepOrder, StillReady
<1>16. ASSUME SweepCommit PROVE CertificateAndOrderAgree'
  BY <1>16 DEF SweepCommit, EndSweep
<1>17. ASSUME SweepFail PROVE CertificateAndOrderAgree'
  BY <1>17 DEF SweepFail, EndSweep
<1>18. CASE UNCHANGED vars
  BY <1>18 DEF vars
<1> QED
  BY <1>1, <1>2, <1>3, <1>4, <1>5, <1>6, <1>7, <1>8, <1>9, <1>10,
     <1>11, <1>12, <1>13, <1>14, <1>15, <1>16, <1>17, <1>18
     DEF Next, Finalize, ExpireOrders

(* Each step keeps the sweep's list complete.                                *)
LEMMA CoverStep ==
    TypeOK /\ SweepHolds /\ HoldsRow /\ DecisionStands /\ SweepCovers /\ [Next]_vars
        => SweepCovers'
<1> SUFFICES ASSUME TypeOK /\ SweepHolds /\ HoldsRow /\ DecisionStands /\ SweepCovers, [Next]_vars
             PROVE SweepCovers'
  OBVIOUS
<1> USE DEF TypeOK, SweepHolds, HoldsRow, DecisionStands, SweepCovers, order, tables, request, locks, sweep
<1>1. ASSUME NEW o \in Orders, NEW a \in Accounts, NewOrder(o, a) PROVE SweepCovers'
  BY <1>1 DEF NewOrder
<1>2. ASSUME NEW o \in Orders, Expire(o) PROVE SweepCovers'
  BY <1>2 DEF Expire
<1>3. ASSUME SetCAStatus PROVE SweepCovers'
  BY <1>3 DEF SetCAStatus
<1>4. ASSUME NEW p \in Requests, NEW o \in Orders, NEW a \in Accounts, Receive(p, o, a) PROVE SweepCovers'
  BY <1>4 DEF Receive
<1>5. ASSUME NEW p \in Requests, LockOrganization(p) PROVE SweepCovers'
  BY <1>5 DEF LockOrganization
<1>6. ASSUME NEW p \in Requests, OrderForUpdate(p) PROVE SweepCovers'
  BY <1>6 DEF OrderForUpdate, Verdict
<1>7. ASSUME NEW p \in Requests, CheckRequest(p) PROVE SweepCovers'
  BY <1>7 DEF CheckRequest
<1>8. ASSUME NEW p \in Requests, IssueRefused(p) PROVE SweepCovers'
  BY <1>8 DEF IssueRefused
<1>9. ASSUME NEW p \in Requests, NEW c \in Certs, Issue(p, c) PROVE SweepCovers'
  BY <1>9 DEF Issue
<1>10. ASSUME NEW p \in Requests, Reply(p) PROVE SweepCovers'
  BY <1>10 DEF Reply
<1>11. ASSUME NEW p \in Requests, Commit(p) PROVE SweepCovers'
  BY <1>11 DEF Commit, EndRequest, Unlock
<1>12. ASSUME NEW p \in Requests, Reject(p) PROVE SweepCovers'
  BY <1>12 DEF Reject, EndRequest, Unlock
<1>13. ASSUME NEW p \in Requests, Fail(p) PROVE SweepCovers'
  BY <1>13 DEF Fail, EndRequest, Unlock
<1>14. ASSUME SweepStart PROVE SweepCovers'
  BY <1>14 DEF SweepStart
<1>15. ASSUME NEW o \in Orders, SweepOrder(o) PROVE SweepCovers'
  BY <1>15 DEF SweepOrder, StillReady
<1>16. ASSUME SweepCommit PROVE SweepCovers'
  BY <1>16 DEF SweepCommit, EndSweep
<1>17. ASSUME SweepFail PROVE SweepCovers'
  BY <1>17 DEF SweepFail, EndSweep
<1>18. CASE UNCHANGED vars
  BY <1>18 DEF vars
<1> QED
  BY <1>1, <1>2, <1>3, <1>4, <1>5, <1>6, <1>7, <1>8, <1>9, <1>10,
     <1>11, <1>12, <1>13, <1>14, <1>15, <1>16, <1>17, <1>18
     DEF Next, Finalize, ExpireOrders

(* Each step leaves ready orders authorized.                                 *)
LEMMA AuthorizedStep ==
    TypeOK /\ SweepCovers /\ ReadyOrderIsAuthorized /\ [Next]_vars
        => ReadyOrderIsAuthorized'
<1> SUFFICES ASSUME TypeOK /\ SweepCovers /\ ReadyOrderIsAuthorized, [Next]_vars
             PROVE ReadyOrderIsAuthorized'
  OBVIOUS
<1> USE DEF TypeOK, SweepCovers, ReadyOrderIsAuthorized, order, tables, request, locks, sweep
<1>1. ASSUME NEW o \in Orders, NEW a \in Accounts, NewOrder(o, a) PROVE ReadyOrderIsAuthorized'
  BY <1>1 DEF NewOrder
<1>2. ASSUME NEW o \in Orders, Expire(o) PROVE ReadyOrderIsAuthorized'
  BY <1>2 DEF Expire
<1>3. ASSUME SetCAStatus PROVE ReadyOrderIsAuthorized'
  BY <1>3 DEF SetCAStatus
<1>4. ASSUME NEW p \in Requests, NEW o \in Orders, NEW a \in Accounts, Receive(p, o, a) PROVE ReadyOrderIsAuthorized'
  BY <1>4 DEF Receive
<1>5. ASSUME NEW p \in Requests, LockOrganization(p) PROVE ReadyOrderIsAuthorized'
  BY <1>5 DEF LockOrganization
<1>6. ASSUME NEW p \in Requests, OrderForUpdate(p) PROVE ReadyOrderIsAuthorized'
  BY <1>6 DEF OrderForUpdate, Verdict
<1>7. ASSUME NEW p \in Requests, CheckRequest(p) PROVE ReadyOrderIsAuthorized'
  BY <1>7 DEF CheckRequest
<1>8. ASSUME NEW p \in Requests, IssueRefused(p) PROVE ReadyOrderIsAuthorized'
  BY <1>8 DEF IssueRefused
<1>9. ASSUME NEW p \in Requests, NEW c \in Certs, Issue(p, c) PROVE ReadyOrderIsAuthorized'
  BY <1>9 DEF Issue
<1>10. ASSUME NEW p \in Requests, Reply(p) PROVE ReadyOrderIsAuthorized'
  BY <1>10 DEF Reply
<1>11. ASSUME NEW p \in Requests, Commit(p) PROVE ReadyOrderIsAuthorized'
  BY <1>11 DEF Commit, EndRequest, Unlock
<1>12. ASSUME NEW p \in Requests, Reject(p) PROVE ReadyOrderIsAuthorized'
  BY <1>12 DEF Reject, EndRequest, Unlock
<1>13. ASSUME NEW p \in Requests, Fail(p) PROVE ReadyOrderIsAuthorized'
  BY <1>13 DEF Fail, EndRequest, Unlock
<1>14. ASSUME SweepStart PROVE ReadyOrderIsAuthorized'
  BY <1>14 DEF SweepStart
<1>15. ASSUME NEW o \in Orders, SweepOrder(o) PROVE ReadyOrderIsAuthorized'
  BY <1>15 DEF SweepOrder, StillReady
<1>16. ASSUME SweepCommit PROVE ReadyOrderIsAuthorized'
  BY <1>16 DEF SweepCommit, EndSweep
<1>17. ASSUME SweepFail PROVE ReadyOrderIsAuthorized'
  BY <1>17 DEF SweepFail, EndSweep
<1>18. CASE UNCHANGED vars
  BY <1>18 DEF vars
<1> QED
  BY <1>1, <1>2, <1>3, <1>4, <1>5, <1>6, <1>7, <1>8, <1>9, <1>10,
     <1>11, <1>12, <1>13, <1>14, <1>15, <1>16, <1>17, <1>18
     DEF Next, Finalize, ExpireOrders

(* The invariant the other theorems rest on.                                 *)
THEOREM Inductive == Spec => [](IndInv /\ SweepCovers /\ ReadyOrderIsAuthorized)
<1> DEFINE Inv == IndInv /\ SweepCovers /\ ReadyOrderIsAuthorized
<1>1. Init => Inv
  <2> SUFFICES ASSUME Init PROVE Inv
    OBVIOUS
  <2> USE DEF Init
  <2>1. TypeOK
    <3>1. failures \in 0 .. MaxFailures
      OBVIOUS
    <3>2. told \in [Orders -> SUBSET {"valid", "refused"}]
      OBVIOUS
    <3> QED
      BY <3>1, <3>2 DEF TypeOK
  <2>2. HoldsRow /\ DecisionStands
    BY DEF HoldsRow, DecisionStands
  <2>3. FreshSerial
    BY DEF FreshSerial
  <2>4. SweepHolds /\ SweepCovers /\ ReadyOrderIsAuthorized
    BY DEF SweepHolds, SweepCovers, ReadyOrderIsAuthorized
  <2>5. CertificateAndOrderAgree
    BY DEF CertificateAndOrderAgree
  <2> QED
    BY <2>1, <2>2, <2>3, <2>4, <2>5 DEF IndInv
<1>2. Inv /\ [Next]_vars => Inv'
  BY TypeStep, HoldsRowStep, DecisionStep, FreshStep, SweepStep, AgreeStep, CoverStep,
     AuthorizedStep DEF IndInv
<1> QED
  BY <1>1, <1>2, PTL DEF Spec

(* Every reachable state is well typed: no status, lock holder or pending    *)
(* write outside what the tables and the handlers know.                      *)
THEOREM TypeCorrect == Spec => []TypeOK
<1>1. IndInv => TypeOK
  BY DEF IndInv
<1> QED
  BY <1>1, Inductive, PTL

(* An order has a certificate exactly when it is valid, and the certificate  *)
(* recorded for it is that one, whatever runs beside its finalize.           *)
THEOREM OneCertificate == Spec => []CertificateAndOrderAgree
<1>1. IndInv => CertificateAndOrderAgree
  BY DEF IndInv
<1> QED
  BY <1>1, Inductive, PTL

(* The order a finalize found ready is locked by it and ready until it ends, *)
(* so the unconditional UPDATE of CompleteOrder overwrites nothing.          *)
THEOREM NoStaleDecision == Spec => []DecisionStands
<1>1. IndInv => DecisionStands
  BY DEF IndInv
<1> QED
  BY <1>1, Inductive, PTL

(* The sweep never expires the authorizations of an order it leaves ready.   *)
THEOREM SweepIsWhole == Spec => []ReadyOrderIsAuthorized
  BY Inductive, PTL

(* A step of the finalize path or of the sweep is a step of the order's life *)
(* or changes no order.                                                      *)
LEMMA LifecycleStep == IndInv /\ IndInv' /\ [Next]_vars => [Lifecycle!Next]_<<status, cert>>
<1> SUFFICES ASSUME IndInv, IndInv', [Next]_vars PROVE [Lifecycle!Next]_<<status, cert>>
  OBVIOUS
<1> USE DEF order, tables, request, locks, sweep
<1>1. ASSUME NEW o \in Orders, NEW a \in Accounts, NewOrder(o, a) PROVE Lifecycle!Next
  BY <1>1 DEF NewOrder, Lifecycle!Next, Lifecycle!Create
<1>2. ASSUME NEW p \in Requests, Commit(p) PROVE Lifecycle!Next \/ UNCHANGED <<status, cert>>
  <2>1. CASE UNCHANGED <<status, cert>>
    BY <2>1
  <2>2. CASE /\ pending[p] \in Certs
             /\ status' = [status EXCEPT ![named[p]] = "valid"]
             /\ cert' = [cert EXCEPT ![named[p]] = pending[p]]
    <3>1. named[p] \in Orders /\ status[named[p]] = "ready"
      BY <1>2, <2>2, AcmeOrderAssumption DEF Commit, IndInv, HoldsRow, DecisionStands
    <3>2. \A q \in Orders : cert[q] # pending[p]
      BY <2>2, AcmeOrderAssumption DEF IndInv, FreshSerial, CertificateAndOrderAgree
    <3>3. Lifecycle!Issue(named[p], pending[p])
      BY <2>2, <3>1, <3>2 DEF Lifecycle!Issue
    <3> QED
      BY <2>2, <3>1, <3>3 DEF Lifecycle!Next
  <2> QED
    BY <1>2, <2>1, <2>2 DEF Commit
<1>3. ASSUME SweepCommit PROVE Lifecycle!Next
  <2>1. Lifecycle!Retire(hits)
    BY <1>3 DEF SweepCommit, Lifecycle!Retire, IndInv, SweepHolds
  <2> QED
    BY <2>1 DEF IndInv, TypeOK, Lifecycle!Next
<1>4. ASSUME \/ \E o \in Orders : Expire(o) \/ SweepOrder(o)
             \/ SetCAStatus \/ SweepStart \/ SweepFail
             \/ \E p \in Requests, o \in Orders, a \in Accounts : Receive(p, o, a)
             \/ \E p \in Requests : \/ LockOrganization(p) \/ OrderForUpdate(p)
                                    \/ CheckRequest(p) \/ IssueRefused(p)
                                    \/ Reply(p) \/ Reject(p) \/ Fail(p)
                                    \/ \E c \in Certs : Issue(p, c)
      PROVE UNCHANGED <<status, cert>>
  BY <1>4 DEF Expire, SweepOrder, SetCAStatus, SweepStart, SweepFail, Receive, LockOrganization,
     OrderForUpdate, CheckRequest, IssueRefused, Reply, Reject, Fail, Issue
<1>5. CASE UNCHANGED vars
  BY <1>5 DEF vars
<1> QED
  BY <1>1, <1>2, <1>3, <1>4, <1>5 DEF Next, Finalize, ExpireOrders

(* The detailed order implements the abstract one: concurrent finalizes, the *)
(* sweep and failed transactions show a client nothing but an order that     *)
(* gets one certificate of its own, or is retired, once.                     *)
THEOREM Refinement == Spec => ImplementsLifecycle
<1>1. Init => Lifecycle!Init
  BY DEF Init, Lifecycle!Init
<1> QED
  BY <1>1, LifecycleStep, Inductive, PTL
     DEF Spec, ImplementsLifecycle, Lifecycle!Spec, Lifecycle!vars

(* A finalize that is answered without a certificate of its own repeats one   *)
(* that succeeded.                                                            *)
RepeatIsValid ==
    \A p \in Requests :
        pc[p] \in {"reply", "commit"} /\ pending[p] = NoCert => status[named[p]] = "valid"

(* Signatures no certificate row and no request under way knows of.           *)
Lost == {c \in signed : recorded[c] = NoOrder /\ c \notin {pending[p] : p \in Requests}}

LossesCounted == IsFiniteSet(Lost) /\ Cardinality(Lost) <= failures

(* An order that is valid stays so while its repeat is answered.            *)
LEMMA RepeatStep ==
    IndInv /\ RepeatIsValid /\ [Next]_vars
        => RepeatIsValid'
<1> SUFFICES ASSUME IndInv /\ RepeatIsValid, [Next]_vars
             PROVE RepeatIsValid'
  OBVIOUS
<1> USE DEF IndInv, TypeOK, HoldsRow, DecisionStands, SweepHolds, RepeatIsValid, order, tables, request, locks, sweep
<1>1. ASSUME NEW o \in Orders, NEW a \in Accounts, NewOrder(o, a) PROVE RepeatIsValid'
  BY <1>1 DEF NewOrder
<1>2. ASSUME NEW o \in Orders, Expire(o) PROVE RepeatIsValid'
  BY <1>2 DEF Expire
<1>3. ASSUME SetCAStatus PROVE RepeatIsValid'
  BY <1>3 DEF SetCAStatus
<1>4. ASSUME NEW p \in Requests, NEW o \in Orders, NEW a \in Accounts, Receive(p, o, a)
      PROVE  RepeatIsValid'
  BY <1>4 DEF Receive
<1>5. ASSUME NEW p \in Requests, LockOrganization(p) PROVE RepeatIsValid'
  BY <1>5 DEF LockOrganization
<1>6. ASSUME NEW p \in Requests, OrderForUpdate(p) PROVE RepeatIsValid'
  BY <1>6 DEF OrderForUpdate, Verdict
<1>7. ASSUME NEW p \in Requests, CheckRequest(p) PROVE RepeatIsValid'
  BY <1>7 DEF CheckRequest
<1>8. ASSUME NEW p \in Requests, IssueRefused(p) PROVE RepeatIsValid'
  BY <1>8 DEF IssueRefused
<1>9. ASSUME NEW p \in Requests, NEW c \in Certs, Issue(p, c) PROVE RepeatIsValid'
  BY <1>9 DEF Issue
<1>10. ASSUME NEW p \in Requests, Reply(p) PROVE RepeatIsValid'
  BY <1>10 DEF Reply
<1>11. ASSUME NEW p \in Requests, Commit(p) PROVE RepeatIsValid'
  BY <1>11 DEF Commit, EndRequest, Unlock
<1>12. ASSUME NEW p \in Requests, Reject(p) PROVE RepeatIsValid'
  BY <1>12 DEF Reject, EndRequest, Unlock
<1>13. ASSUME NEW p \in Requests, Fail(p) PROVE RepeatIsValid'
  BY <1>13 DEF Fail, EndRequest, Unlock
<1>14. ASSUME SweepStart PROVE RepeatIsValid'
  BY <1>14 DEF SweepStart
<1>15. ASSUME NEW o \in Orders, SweepOrder(o) PROVE RepeatIsValid'
  BY <1>15 DEF SweepOrder, StillReady
<1>16. ASSUME SweepCommit PROVE RepeatIsValid'
  BY <1>16 DEF SweepCommit, EndSweep
<1>17. ASSUME SweepFail PROVE RepeatIsValid'
  BY <1>17 DEF SweepFail, EndSweep
<1>18. CASE UNCHANGED vars
  BY <1>18 DEF vars
<1> QED
  BY <1>1, <1>2, <1>3, <1>4, <1>5, <1>6, <1>7, <1>8, <1>9, <1>10, <1>11, <1>12, <1>13, <1>14,
     <1>15, <1>16, <1>17, <1>18
     DEF Next, Finalize, ExpireOrders


(* Only a failing transaction loses a signature, and one at most.            *)
LEMMA LossStep ==
  IndInv /\ [Next]_vars =>
    \/ Lost' \subseteq Lost /\ failures' = failures
    \/ \E c : Lost' \subseteq Lost \union {c} /\ failures' = failures + 1
<1> SUFFICES ASSUME IndInv, [Next]_vars
             PROVE  \/ Lost' \subseteq Lost /\ failures' = failures
                    \/ \E c : Lost' \subseteq Lost \union {c} /\ failures' = failures + 1
  OBVIOUS
<1> USE DEF IndInv, TypeOK, HoldsRow, Lost, order, tables, request, locks, sweep
<1>1. ASSUME NEW p \in Requests, Fail(p)
      PROVE  Lost' \subseteq Lost \union {pending[p]} /\ failures' = failures + 1
  BY <1>1 DEF Fail, EndRequest
<1>2. ASSUME SweepFail PROVE Lost' \subseteq Lost \union {NoCert} /\ failures' = failures + 1
  BY <1>2 DEF SweepFail
<1>3. ASSUME NEW p \in Requests, Commit(p) PROVE Lost' \subseteq Lost /\ failures' = failures
  BY <1>3 DEF Commit, EndRequest
<1>4. ASSUME NEW p \in Requests, Reject(p) PROVE Lost' \subseteq Lost /\ failures' = failures
  BY <1>4 DEF Reject, EndRequest
<1>5. ASSUME NEW p \in Requests, NEW c \in Certs, Issue(p, c)
      PROVE  Lost' \subseteq Lost /\ failures' = failures
  BY <1>5 DEF Issue
<1>6. ASSUME NEW p \in Requests, IssueRefused(p)
      PROVE  Lost' \subseteq Lost /\ failures' = failures
  BY <1>6 DEF IssueRefused
<1>7. CASE UNCHANGED <<signed, recorded, pending, failures>>
  BY <1>7
<1> QED
  BY ZenonT(30), <1>1, <1>2, <1>3, <1>4, <1>5, <1>6, <1>7
     DEF Next, Finalize, ExpireOrders, vars, NewOrder, Expire, SetCAStatus, Receive,
         LockOrganization, OrderForUpdate, CheckRequest, Reply, SweepStart, SweepOrder, SweepCommit

(* So the lost signatures are never more than the failures.                  *)
LEMMA CountStep == IndInv /\ LossesCounted /\ [Next]_vars => LossesCounted'
<1> SUFFICES ASSUME IndInv, LossesCounted, [Next]_vars PROVE LossesCounted'
  OBVIOUS
<1>0. failures \in Nat /\ Cardinality(Lost) \in Nat
  BY FS_CardinalityType DEF IndInv, TypeOK, LossesCounted
<1>1. CASE Lost' \subseteq Lost /\ failures' = failures
  <2>1. IsFiniteSet(Lost') /\ Cardinality(Lost') <= Cardinality(Lost)
    BY <1>1, FS_Subset DEF LossesCounted
  <2>2. Cardinality(Lost') \in Nat
    BY <2>1, FS_CardinalityType
  <2> QED
    BY <1>0, <1>1, <2>1, <2>2 DEF LossesCounted
<1>2. ASSUME NEW c, Lost' \subseteq Lost \union {c}, failures' = failures + 1
      PROVE  LossesCounted'
  <2>1. /\ IsFiniteSet(Lost \union {c})
        /\ Cardinality(Lost \union {c}) <= Cardinality(Lost) + 1
    <3>1. IsFiniteSet(Lost)
      BY DEF LossesCounted
    <3>2. /\ IsFiniteSet(Lost \union {c})
          /\ Cardinality(Lost \union {c})
               = IF c \in Lost THEN Cardinality(Lost) ELSE Cardinality(Lost) + 1
      BY <3>1, FS_AddElement
    <3> HIDE DEF Lost
    <3> QED
      BY <1>0, <3>2
  <2>2. /\ IsFiniteSet(Lost')
        /\ Cardinality(Lost') <= Cardinality(Lost \union {c})
    BY <1>2, <2>1, FS_Subset
  <2>3. Cardinality(Lost') \in Nat /\ Cardinality(Lost \union {c}) \in Nat
    BY <2>1, <2>2, FS_CardinalityType
  <2> QED
    BY <1>0, <1>2, <2>1, <2>2, <2>3 DEF LossesCounted
<1> QED
  BY <1>1, <1>2, LossStep

(* An order the client was told is valid is so once the transaction that    *)
(* said it commits.                                                         *)
LEMMA AnswerStep ==
    IndInv /\ RepeatIsValid /\ AnswerHolds /\ [Next]_vars
        => AnswerHolds'
<1> SUFFICES ASSUME IndInv /\ RepeatIsValid /\ AnswerHolds, [Next]_vars
             PROVE AnswerHolds'
  OBVIOUS
<1> USE DEF IndInv, TypeOK, HoldsRow, DecisionStands, SweepHolds, RepeatIsValid, AnswerHolds, order, tables, request, locks, sweep
<1>1. ASSUME NEW o \in Orders, NEW a \in Accounts, NewOrder(o, a) PROVE AnswerHolds'
  BY <1>1 DEF NewOrder
<1>2. ASSUME NEW o \in Orders, Expire(o) PROVE AnswerHolds'
  BY <1>2 DEF Expire
<1>3. ASSUME SetCAStatus PROVE AnswerHolds'
  BY <1>3 DEF SetCAStatus
<1>4. ASSUME NEW p \in Requests, NEW o \in Orders, NEW a \in Accounts, Receive(p, o, a)
      PROVE  AnswerHolds'
  BY <1>4 DEF Receive
<1>5. ASSUME NEW p \in Requests, LockOrganization(p) PROVE AnswerHolds'
  BY <1>5 DEF LockOrganization
<1>6. ASSUME NEW p \in Requests, OrderForUpdate(p) PROVE AnswerHolds'
  BY <1>6 DEF OrderForUpdate, Verdict
<1>7. ASSUME NEW p \in Requests, CheckRequest(p) PROVE AnswerHolds'
  BY <1>7 DEF CheckRequest
<1>8. ASSUME NEW p \in Requests, IssueRefused(p) PROVE AnswerHolds'
  BY <1>8 DEF IssueRefused
<1>9. ASSUME NEW p \in Requests, NEW c \in Certs, Issue(p, c) PROVE AnswerHolds'
  BY <1>9 DEF Issue
<1>10. ASSUME NEW p \in Requests, Reply(p) PROVE AnswerHolds'
  BY <1>10 DEF Reply
<1>11. ASSUME NEW p \in Requests, Commit(p) PROVE AnswerHolds'
  <2>1. SUFFICES ASSUME failures = 0, NEW o \in Orders, "valid" \in told[o], status'[o] # "valid"
                 PROVE  \E q \in Requests : pc'[q] = "commit" /\ named'[q] = o
    BY <1>11 DEF Commit
  <2>2. named[p] \in Orders /\ pc[p] = "commit" /\ pending[p] \in Certs \union {NoCert}
    BY <1>11 DEF Commit
  <2>3. status'[named[p]] = "valid"
    BY <1>11, <2>2 DEF Commit
  <2>4. status[o] # "valid"
    BY <1>11, <2>1, <2>2 DEF Commit
  <2>5. PICK q \in Requests : pc[q] = "commit" /\ named[q] = o
    BY <2>1, <2>4
  <2>6. q # p
    BY <2>1, <2>3, <2>5
  <2> QED
    BY <1>11, <2>5, <2>6 DEF Commit, EndRequest
<1>12. ASSUME NEW p \in Requests, Reject(p) PROVE AnswerHolds'
  BY <1>12 DEF Reject, EndRequest, Unlock
<1>13. ASSUME NEW p \in Requests, Fail(p) PROVE AnswerHolds'
  BY <1>13 DEF Fail, EndRequest, Unlock
<1>14. ASSUME SweepStart PROVE AnswerHolds'
  BY <1>14 DEF SweepStart
<1>15. ASSUME NEW o \in Orders, SweepOrder(o) PROVE AnswerHolds'
  BY <1>15 DEF SweepOrder, StillReady
<1>16. ASSUME SweepCommit PROVE AnswerHolds'
  BY <1>16 DEF SweepCommit, EndSweep
<1>17. ASSUME SweepFail PROVE AnswerHolds'
  BY <1>17 DEF SweepFail, EndSweep
<1>18. CASE UNCHANGED vars
  BY <1>18 DEF vars
<1> QED
  BY <1>1, <1>2, <1>3, <1>4, <1>5, <1>6, <1>7, <1>8, <1>9, <1>10, <1>11, <1>12, <1>13, <1>14,
     <1>15, <1>16, <1>17, <1>18
     DEF Next, Finalize, ExpireOrders


(* service.go, handler.go: what has left the process and cannot be rolled     *)
(* back, a signature or a response, agrees with the rows: no more signatures  *)
(* are lost than transactions failed, and without a failure every "valid" a   *)
(* client was told is so.                                                     *)
THEOREM OutsideNeverAhead == Spec => []OutsideAgrees
<1> DEFINE Inv == RepeatIsValid /\ LossesCounted /\ AnswerHolds
<1>1. Init => Inv
  <2> SUFFICES ASSUME Init PROVE Inv
    OBVIOUS
  <2>1. Lost = {} /\ failures = 0
    BY DEF Init, Lost
  <2>2. LossesCounted
    BY <2>1, FS_EmptySet DEF LossesCounted
  <2>3. RepeatIsValid /\ AnswerHolds
    BY DEF Init, RepeatIsValid, AnswerHolds
  <2> QED
    BY <2>2, <2>3
<1>2. IndInv /\ Inv /\ [Next]_vars => Inv'
  BY RepeatStep, CountStep, AnswerStep
<1>3. LossesCounted => SignaturesAccountedFor
  BY DEF LossesCounted, Lost, SignaturesAccountedFor
<1> QED
  BY <1>1, <1>2, <1>3, Inductive, PTL DEF Spec, OutsideAgrees
=============================================================================

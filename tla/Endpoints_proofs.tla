--------------------------- MODULE Endpoints_proofs ---------------------------
(* Proofs about what the process serves and how: the consent flow that        *)
(* connects a directory (IntuneConnection), the signed requests of ACME       *)
(* (AcmeRequest), the server that starts, serves and stops (Server), EST      *)
(* enrolment and renewal (EstEnrollment), and the calls to Microsoft with     *)
(* their caches (IntuneClient).                                               *)
EXTENDS IntuneConnection, AcmeRequest, Server, IntuneClient,
        EstEnrollment, FiniteSetTheorems, WellFoundedInduction, TLAPS

----------------------------------------------------------------------------
(* IntuneConnection.                                                         *)

(* The cookie of the second leg names what the first leg proved, under a      *)
(* nonce that has connected nothing yet.                                      *)
CookieIsProved ==
    cookie.stage = "consent" =>
        /\ signedIn[cookie.nonce] = cookie.tenant
        /\ cookie.nonce \notin spent

(* A callback under way carries what Microsoft answered; past its checks,     *)
(* what the cookie said then.                                                 *)
TabsAreProved ==
    \A t \in Tabs :
        /\ tabs[t].at # "idle" => tabs[t].nonce \in Nonces /\ tabs[t].tenant \in Directories
        /\ tabs[t].at = "verify" =>
             /\ signedIn[tabs[t].nonce] = tabs[t].tenant
             /\ <<tabs[t].nonce, tabs[t].tenant>> \in granted

(* Microsoft sends the browser back with a consent only where it was given.   *)
AnswersAreGranted ==
    \A a \in answers : a.leg = "consent" => <<a.nonce, a.tenant>> \in granted

(* A nonce that connected a directory was set by a first leg, so it is never  *)
(* drawn again.                                                               *)
SpentWasProved == \A n \in spent : signedIn[n] # NoOne

FlowInv ==
    /\ ConnectionTypeOK
    /\ CookieIsProved
    /\ TabsAreProved
    /\ AnswersAreGranted
    /\ SpentWasProved
    /\ ConnectedIsProved

(* In the initial state no flow is under way and nothing is connected.        *)
LEMMA FlowStarts == ConnectionInit => FlowInv
  BY ConnectionAssumption
     DEF ConnectionInit, FlowInv, ConnectionTypeOK, CookieIsProved, TabsAreProved,
         AnswersAreGranted, SpentWasProved, ConnectedIsProved, NoCookie, NoTab, Unbound

(* The administrator starts a flow: the cookie is one of the first leg.       *)
LEMMA ConnectStep ==
  ASSUME FlowInv, NEW n \in Nonces, connectIntune(n)
  PROVE  FlowInv'
  BY ConnectionAssumption
     DEF FlowInv, ConnectionTypeOK, CookieIsProved, TabsAreProved, AnswersAreGranted,
         SpentWasProved, ConnectedIsProved, connectIntune, setConsentCookie, Unbound

(* Microsoft answers: a consent is granted with its answer.                   *)
LEMMA RedirectStep ==
  ASSUME FlowInv, NEW leg \in {"signin", "consent"}, NEW n \in Nonces, NEW d \in Directories,
         Redirect(leg, n, d)
  PROVE  FlowInv'
<1>1. ConnectionTypeOK'
  BY DEF FlowInv, ConnectionTypeOK, Redirect
<1>2. AnswersAreGranted'
  BY DEF FlowInv, AnswersAreGranted, Redirect
<1>3. QED
  BY <1>1, <1>2
     DEF FlowInv, CookieIsProved, TabsAreProved, SpentWasProved, ConnectedIsProved, Redirect, Unbound

(* The first leg comes back: a tab is to redeem what Microsoft answered.      *)
LEMMA StepSignIn ==
  ASSUME FlowInv, NEW t \in Tabs, NEW a \in answers, intuneSignInCallback(t, a)
  PROVE  FlowInv'
<1>0. a.nonce \in Nonces /\ a.tenant \in Directories
  BY DEF FlowInv, ConnectionTypeOK
<1>1. ConnectionTypeOK'
  BY <1>0, ConnectionAssumption
     DEF FlowInv, ConnectionTypeOK, intuneSignInCallback, consentFailed, NoCookie
<1>2. CookieIsProved'
  BY ConnectionAssumption
     DEF FlowInv, CookieIsProved, intuneSignInCallback, consentFailed, NoCookie
<1>3. TabsAreProved'
  BY <1>0 DEF FlowInv, ConnectionTypeOK, TabsAreProved, intuneSignInCallback
<1>4. QED
  BY <1>1, <1>2, <1>3
     DEF FlowInv, AnswersAreGranted, SpentWasProved, ConnectedIsProved, intuneSignInCallback, Unbound

(* The code is redeemed: the cookie of the second leg gets a nonce that no    *)
(* proof, answer or tab has, so none of theirs changes.                       *)
LEMMA RedeemStep ==
  ASSUME FlowInv, NEW t \in Tabs, redeemSignIn(t)
  PROVE  FlowInv'
<1>0. tabs[t].at = "redeem" /\ tabs[t].nonce \in Nonces /\ tabs[t].tenant \in Directories
  BY DEF FlowInv, TabsAreProved, redeemSignIn
<1>1. CASE consentFailed /\ UNCHANGED signedIn
  <2>1. ConnectionTypeOK'
    BY <1>1, ConnectionAssumption
       DEF FlowInv, ConnectionTypeOK, redeemSignIn, consentFailed, NoCookie, NoTab
  <2>2. TabsAreProved'
    BY <1>1 DEF FlowInv, ConnectionTypeOK, TabsAreProved, redeemSignIn, NoTab
  <2>3. QED
    BY <1>1, <2>1, <2>2, ConnectionAssumption
       DEF FlowInv, CookieIsProved, AnswersAreGranted, SpentWasProved, ConnectedIsProved,
           redeemSignIn, consentFailed, NoCookie, Unbound
<1>2. ASSUME NEW n \in Nonces, RandomSecret(n), setConsentCookie("consent", n, tabs[t].tenant),
             signedIn' = [signedIn EXCEPT ![n] = tabs[t].tenant]
      PROVE  FlowInv'
  <2>0. signedIn[n] = NoOne
    BY <1>2 DEF RandomSecret, Drawn
  <2>1. ConnectionTypeOK'
    BY <1>0, <1>2, ConnectionAssumption
       DEF FlowInv, ConnectionTypeOK, redeemSignIn, setConsentCookie, NoTab
  <2>2. \A m \in Nonces : m # n => signedIn'[m] = signedIn[m]
    BY <1>2 DEF FlowInv, ConnectionTypeOK
  <2>3. signedIn'[n] = tabs[t].tenant
    BY <1>2 DEF FlowInv, ConnectionTypeOK
  <2>4. CookieIsProved'
    BY <1>2, <2>0, <2>3 DEF FlowInv, CookieIsProved, SpentWasProved, redeemSignIn, setConsentCookie
  <2>5. TabsAreProved'
    <3>1. SUFFICES ASSUME NEW u \in Tabs PROVE TabsAreProved!(u)'
      BY DEF TabsAreProved
    <3>2. CASE u = t
      BY <3>2 DEF FlowInv, ConnectionTypeOK, redeemSignIn, NoTab
    <3>3. CASE u # t
      <4>1. tabs'[u] = tabs[u] /\ granted' = granted
        BY <3>3 DEF FlowInv, ConnectionTypeOK, redeemSignIn
      <4>2. tabs[u].at = "verify" => tabs[u].nonce \in Nonces /\ tabs[u].nonce # n
        BY <2>0, ConnectionAssumption DEF FlowInv, TabsAreProved
      <4>3. QED
        BY <2>2, <4>1, <4>2 DEF FlowInv, TabsAreProved
    <3>4. QED
      BY <3>2, <3>3
  <2>6. AnswersAreGranted'
    BY DEF FlowInv, AnswersAreGranted, redeemSignIn
  <2>7. SpentWasProved'
    BY <1>0, <2>2, <2>3, ConnectionAssumption
       DEF FlowInv, ConnectionTypeOK, SpentWasProved, redeemSignIn
  <2>8. ConnectedIsProved'
    <3>1. connection' = connection /\ granted' = granted
      BY DEF redeemSignIn
    <3>2. ASSUME connection # Unbound
          PROVE  connection.nonce \in Nonces /\ connection.nonce # n
      BY <2>0, <3>2, ConnectionAssumption DEF FlowInv, ConnectedIsProved, ConnectionTypeOK
    <3>3. QED
      BY <2>2, <3>1, <3>2 DEF FlowInv, ConnectedIsProved
  <2>9. QED
    BY <2>1, <2>4, <2>5, <2>6, <2>7, <2>8 DEF FlowInv
<1>3. QED
  BY <1>1, <1>2 DEF redeemSignIn

(* The second leg comes back: the nonce of the cookie is that of an answer,   *)
(* and the directory that of the cookie.                                      *)
LEMMA ConsentStep ==
  ASSUME FlowInv, NEW t \in Tabs, NEW a \in answers, intuneConsentCallback(t, a)
  PROVE  FlowInv'
<1>0. a.nonce \in Nonces /\ a.tenant \in Directories /\ <<a.nonce, a.tenant>> \in granted
  BY DEF FlowInv, ConnectionTypeOK, AnswersAreGranted, intuneConsentCallback
<1>1. ConnectionTypeOK'
  BY ConnectionAssumption
     DEF FlowInv, ConnectionTypeOK, intuneConsentCallback, consentFailed, NoCookie
<1>2. CookieIsProved'
  BY ConnectionAssumption
     DEF FlowInv, CookieIsProved, intuneConsentCallback, consentFailed, NoCookie
<1>3. TabsAreProved'
  BY SMTT(30), <1>0 DEF FlowInv, ConnectionTypeOK, TabsAreProved, CookieIsProved, intuneConsentCallback,
              readConsentCookie, matchesNonce, NamesDirectory
<1>4. QED
  BY <1>1, <1>2, <1>3
     DEF FlowInv, AnswersAreGranted, SpentWasProved, ConnectedIsProved, intuneConsentCallback, Unbound

(* Microsoft refused, or the transaction did not commit.                      *)
LEMMA VerifyStep ==
  ASSUME FlowInv, NEW t \in Tabs, VerifyIntuneTenant(t)
  PROVE  FlowInv'
<1>1. ConnectionTypeOK'
  BY ConnectionAssumption
     DEF FlowInv, ConnectionTypeOK, VerifyIntuneTenant, consentFailed, NoCookie, NoTab
<1>2. TabsAreProved'
  BY DEF FlowInv, ConnectionTypeOK, TabsAreProved, VerifyIntuneTenant, NoTab
<1>3. QED
  BY <1>1, <1>2, ConnectionAssumption
     DEF FlowInv, CookieIsProved, AnswersAreGranted, SpentWasProved, ConnectedIsProved,
         VerifyIntuneTenant, consentFailed, NoCookie, Unbound

(* The connection is what the tab carried since its checks.                   *)
LEMMA ConnectedStep ==
  ASSUME FlowInv, NEW t \in Tabs, ConnectIntune(t)
  PROVE  FlowInv'
<1>0. /\ tabs[t].nonce \in Nonces /\ tabs[t].tenant \in Directories
      /\ signedIn[tabs[t].nonce] = tabs[t].tenant
      /\ <<tabs[t].nonce, tabs[t].tenant>> \in granted
  BY DEF FlowInv, TabsAreProved, ConnectIntune
<1>1. ConnectionTypeOK'
  BY <1>0, ConnectionAssumption
     DEF FlowInv, ConnectionTypeOK, ConnectIntune, clearConsentCookie, NoCookie, NoTab
<1>2. TabsAreProved'
  BY DEF FlowInv, ConnectionTypeOK, TabsAreProved, ConnectIntune, NoTab
<1>3. CookieIsProved' /\ AnswersAreGranted'
  BY ConnectionAssumption
     DEF FlowInv, CookieIsProved, AnswersAreGranted, ConnectIntune, clearConsentCookie, NoCookie
<1>4. SpentWasProved'
  BY <1>0, ConnectionAssumption DEF FlowInv, SpentWasProved, ConnectIntune
<1>5. ConnectedIsProved'
  BY <1>0 DEF ConnectedIsProved, ConnectIntune
<1>6. QED
  BY <1>1, <1>2, <1>3, <1>4, <1>5 DEF FlowInv

(* The administrator disconnects.                                             *)
LEMMA DisconnectStep ==
  ASSUME FlowInv, DisconnectIntune
  PROVE  FlowInv'
  BY DEF FlowInv, ConnectionTypeOK, CookieIsProved, TabsAreProved, AnswersAreGranted,
         SpentWasProved, ConnectedIsProved, DisconnectIntune, Unbound

(* Every step preserves the invariant.                                        *)
LEMMA FlowSteps == FlowInv /\ [ConnectionNext]_connectionVars => FlowInv'
<1> SUFFICES ASSUME FlowInv, [ConnectionNext]_connectionVars PROVE FlowInv'
  OBVIOUS
<1>1. ASSUME NEW n \in Nonces, connectIntune(n) PROVE FlowInv'
  BY <1>1, ConnectStep
<1>2. ASSUME NEW n \in Nonces, NEW leg \in {"signin", "consent"}, NEW d \in Directories,
             Redirect(leg, n, d)
      PROVE  FlowInv'
  BY <1>2, RedirectStep
<1>3. ASSUME NEW t \in Tabs, redeemSignIn(t) PROVE FlowInv'
  BY <1>3, RedeemStep
<1>4. ASSUME NEW t \in Tabs, VerifyIntuneTenant(t) PROVE FlowInv'
  BY <1>4, VerifyStep
<1>5. ASSUME NEW t \in Tabs, ConnectIntune(t) PROVE FlowInv'
  BY <1>5, ConnectedStep
<1>6. ASSUME NEW t \in Tabs, NEW a \in answers, intuneSignInCallback(t, a) PROVE FlowInv'
  BY <1>6, StepSignIn
<1>7. ASSUME NEW t \in Tabs, NEW a \in answers, intuneConsentCallback(t, a) PROVE FlowInv'
  BY <1>7, ConsentStep
<1>8. CASE DisconnectIntune
  BY <1>8, DisconnectStep
<1>9. CASE UNCHANGED connectionVars
  BY <1>9 DEF FlowInv, ConnectionTypeOK, CookieIsProved, TabsAreProved, AnswersAreGranted,
              SpentWasProved, ConnectedIsProved, connectionVars, Unbound
<1>10. QED
  BY <1>1, <1>2, <1>3, <1>4, <1>5, <1>6, <1>7, <1>8, <1>9 DEF ConnectionNext

(* A tab passes its checks on the cookie alone, whose nonce is not spent.     *)
LEMMA PassesOnce ==
  ASSUME FlowInv, [ConnectionNext]_connectionVars
  PROVE  FlowIsSpent
<1> SUFFICES ASSUME NEW t \in Tabs, tabs[t].at = "idle", tabs'[t].at = "verify"
             PROVE  tabs'[t].nonce \notin spent
  BY DEF FlowIsSpent
<1>0. tabs \in [Tabs -> [at : {"idle", "redeem", "verify"}, nonce : Nonces \union {NoOne},
                         tenant : Directories \union {NoOne}]]
  BY DEF FlowInv, ConnectionTypeOK
<1>1. ~UNCHANGED tabs
  OBVIOUS
<1>2. PICK u \in Tabs, a \in answers : intuneConsentCallback(u, a)
  <2>1. ASSUME NEW v \in Tabs, tabs' = [tabs EXCEPT ![v] = NoTab] PROVE FALSE
    BY <1>0, <2>1 DEF NoTab
  <2>2. ASSUME NEW v \in Tabs, NEW a \in answers, intuneSignInCallback(v, a) PROVE FALSE
    BY <1>0, <1>1, <2>2 DEF intuneSignInCallback
  <2>3. \A v \in Tabs :
          ~redeemSignIn(v) /\ ~VerifyIntuneTenant(v) /\ ~ConnectIntune(v)
    BY <2>1 DEF redeemSignIn, VerifyIntuneTenant, ConnectIntune
  <2>4. ~DisconnectIntune /\ \A n \in Nonces :
          /\ ~connectIntune(n)
          /\ \A leg \in {"signin", "consent"}, d \in Directories : ~Redirect(leg, n, d)
    BY <1>1 DEF DisconnectIntune, connectIntune, Redirect
  <2>5. tabs' # tabs /\ ~UNCHANGED connectionVars
    BY <1>1 DEF connectionVars
  <2>6. QED
    BY <2>2, <2>3, <2>4, <2>5 DEF ConnectionNext
<1>3. /\ cookie.stage = "consent"
      /\ tabs' = [tabs EXCEPT ![u] = [at |-> "verify", nonce |-> cookie.nonce,
                                      tenant |-> cookie.tenant]]
  BY <1>1, <1>2 DEF intuneConsentCallback, readConsentCookie
<1>4. u = t
  BY <1>0, <1>3
<1>5. QED
  BY <1>0, <1>3, <1>4 DEF FlowInv, CookieIsProved

(* A directory is connected by one whole flow: however many tabs answer in    *)
(* whatever order, what is connected was signed in to and consented to under  *)
(* one nonce, and once it has connected no answer passes the checks again.    *)
THEOREM ConnectsOnce == ConnectionSpec => FlowIsProved
<1>1. FlowInv /\ [ConnectionNext]_connectionVars
        => [FlowIsSpent /\ ConnectedIsProved' /\ ConnectionTypeOK']_connectionVars
  BY FlowSteps, PassesOnce DEF FlowInv
<1>2. QED
  BY FlowStarts, FlowSteps, <1>1, PTL DEF ConnectionSpec, FlowIsProved

----------------------------------------------------------------------------
(* AcmeRequest.                                                              *)

AccountRow == [at : Places \union {0}, key : KeyPairs \union {"none"},
               thumbprint : (KeyPairs \union {"none"}) \X {"none", "canonical", "respelt"}, valid : BOOLEAN]

(* A thumbprint is of a key and of how its members are spelt.                 *)
LEMMA ThumbprintIs ==
  ASSUME NEW k, NEW s, NEW t, (s = "respelt") <=> (t = "respelt")
  PROVE  jwkThumbprint(k, s) = jwkThumbprint(k, t)
  BY DEF jwkThumbprint

(* What is sent was written for one endpoint, with a key of the client.       *)
IsRequest(m) ==
    /\ m.nonce \in NonceValues /\ m.by \in KeyPairs
    /\ m.op \in {"new-account", "account", "key-change"}
    /\ m.op \in {"new-account", "key-change"} => m.spelling \in Spellings
    /\ m.op = "key-change" => m.new \in KeyPairs
    /\ (m.op = "new-account") <=> (m.kid = 0)

(* A nonce is handed out by one endpoint, before a request is written with it *)
(* and at most one request is.                                                *)
NoncesAreHanded ==
    /\ unspent \subseteq handed /\ handed \subseteq Places \X NonceValues
    /\ \A p, q \in Places, v \in NonceValues : <<p, v>> \in handed /\ <<q, v>> \in handed => p = q
    /\ \A m \in sent : IsRequest(m) /\ \E p \in Places : <<p, m.nonce>> \in handed

(* What was done was asked for by a request whose nonce is spent.             *)
ActedIsSpent ==
    \A a \in acts :
        /\ a.request \in sent /\ <<a.request.at, a.request.nonce>> \in handed \ unspent
        /\ a.at = a.request.at /\ a.op = a.request.op /\ ~a.altered /\ ~a.again
        /\ a.op = "account" => a.request.path = a.request.kid
        /\ a.key = a.request.by \/ a.overtaken

OpenRow == [request : sent, altered : {FALSE}, at : Places, op : {"new-account", "account", "key-change"},
            found : BOOLEAN, overtaken : BOOLEAN]

Made(n) == registered[n].at # 0

(* A request under way was authenticated by the account it names, which it    *)
(* has not changed yet, and holds its nonce.                                  *)
IsAuthentic(o) ==
    /\ o \in OpenRow /\ o.at = o.request.at /\ o.op = o.request.op
    /\ <<o.at, o.request.nonce>> \in unspent
    /\ IF o.op = "new-account" THEN o.request.by \in {"RSA", "EC"}
       ELSE /\ o.request.kid \in Numbers /\ Made(o.request.kid) /\ registered[o.request.kid].at = o.at
            /\ registered[o.request.kid].key = o.request.by \/ o.overtaken
    /\ o.op = "account" => o.request.path = o.request.kid
    /\ o.op = "key-change" => o.request.new \in {"RSA", "EC"}

OpenIsAuthentic ==
    /\ \A o \in open : IsAuthentic(o)
    /\ \A o, p \in open : o.at = p.at /\ o.request.nonce = p.request.nonce => o = p

(* An account is made of a usable key, and its thumbprint is its own.         *)
AccountsAreKeyed ==
    /\ registered \in [Numbers -> AccountRow]
    /\ \A n \in Numbers : Made(n) =>
         /\ registered[n].key \in {"RSA", "EC"}
         /\ \E s \in Spellings : registered[n].thumbprint = jwkThumbprint(registered[n].key, s)
    /\ \A n \in Numbers : ~Made(n) => registered[n] = NotMade
    /\ \A n, l \in Numbers : Made(n) /\ l < n => Made(l)
    /\ \A n, l \in Numbers :
         Made(n) /\ Made(l) /\ registered[n].at = registered[l].at
           /\ registered[n].thumbprint = registered[l].thumbprint => n = l

RequestInv == NoncesAreHanded /\ ActedIsSpent /\ OpenIsAuthentic /\ AccountsAreKeyed

(* Nothing has been handed out, sent or registered.                           *)
LEMMA RequestStarts == RequestInit => RequestInv
<1> SUFFICES ASSUME RequestInit PROVE RequestInv
  OBVIOUS
<1>1. NotMade \in AccountRow /\ NotMade.at = 0
  BY DEF NotMade, AccountRow
<1>2. AccountsAreKeyed
  <2>1. registered \in [Numbers -> AccountRow] /\ \A n \in Numbers : registered[n] = NotMade
    BY <1>1 DEF RequestInit
  <2> HIDE DEF NotMade
  <2> QED
    BY <1>1, <2>1 DEF AccountsAreKeyed, Made
<1> QED
  BY <1>2 DEF RequestInit, RequestInv, NoncesAreHanded, ActedIsSpent, OpenIsAuthentic

(* A nonce that is handed out is one nobody has.                              *)
LEMMA HandsOut ==
  ASSUME RequestInv, NEW e \in Places, NewNonce(e)
  PROVE  RequestInv'
<1>1. PICK v \in NonceValues :
        /\ \A u \in NonceValues : u < v <=> \E p \in Places : <<p, u>> \in handed
        /\ handed' = handed \union {<<e, v>>} /\ unspent' = unspent \union {<<e, v>>}
  BY DEF NewNonce
<1>2. \A p \in Places : <<p, v>> \notin handed
  BY <1>1, RequestAssumption
<1>3. NoncesAreHanded'
  <2>1. unspent' \subseteq handed' /\ handed' \subseteq Places \X NonceValues
    BY <1>1 DEF RequestInv, NoncesAreHanded
  <2>2. ASSUME NEW p \in Places, NEW q \in Places, NEW u \in NonceValues,
               <<p, u>> \in handed', <<q, u>> \in handed'
        PROVE  p = q
    <3>1. CASE u = v
      BY <1>1, <1>2, <2>2, <3>1
    <3>2. CASE u # v
      BY <1>1, <2>2, <3>2 DEF RequestInv, NoncesAreHanded
    <3> QED
      BY <3>1, <3>2
  <2>3. \A m \in sent' : IsRequest(m) /\ \E p \in Places : <<p, m.nonce>> \in handed'
    BY <1>1 DEF RequestInv, NoncesAreHanded, NewNonce
  <2> QED
    BY <2>1, <2>2, <2>3 DEF NoncesAreHanded
<1>4. ActedIsSpent'
  <2> SUFFICES ASSUME NEW a \in acts
               PROVE  <<a.request.at, a.request.nonce>> \in handed' \ unspent'
    BY DEF RequestInv, ActedIsSpent, NewNonce
  <2>1. <<a.request.at, a.request.nonce>> \in handed \ unspent
    BY DEF RequestInv, ActedIsSpent
  <2>2. <<a.request.at, a.request.nonce>> # <<e, v>>
    BY <1>2, <2>1
  <2> QED
    BY <1>1, <2>1, <2>2
<1>5. AccountsAreKeyed'
  BY DEF RequestInv, AccountsAreKeyed, Made, NewNonce
<1>6. OpenIsAuthentic'
  <2>1. unspent \subseteq unspent' /\ UNCHANGED <<sent, registered, open>>
    BY <1>1 DEF NewNonce
  <2>2. OpenRow' = OpenRow
    BY <2>1 DEF OpenRow
  <2>3. \A o \in open : IsAuthentic(o) => IsAuthentic(o)'
    BY <2>1, <2>2 DEF IsAuthentic, Made
  <2> QED
    BY <2>1, <2>3 DEF RequestInv, OpenIsAuthentic
<1> QED
  BY <1>3, <1>4, <1>5, <1>6 DEF RequestInv

(* A client writes what it can with a nonce it was given.                     *)
LEMMA Writes ==
  ASSUME RequestInv, NEW e \in Places, NEW v \in NonceValues, Write(e, v)
  PROVE  RequestInv'
<1>1. PICK m \in Writable(e, v) : sent' = sent \union {m}
  BY DEF Write
<1>2. IsRequest(m) /\ m.nonce = v
  <2>1. ASSUME NEW k \in KeyPairs, NEW s \in Spellings, m = Registration(e, v, k, s)
        PROVE  IsRequest(m) /\ m.nonce = v
    BY <2>1 DEF Registration, IsRequest
  <2>2. ASSUME NEW k \in KeyPairs, NEW n \in Numbers, NEW path, m = Update(e, v, k, n, path)
        PROVE  IsRequest(m) /\ m.nonce = v
    BY <2>2, RequestAssumption DEF Update, IsRequest
  <2>3. ASSUME NEW k \in KeyPairs, NEW n \in Numbers, NEW new \in KeyPairs, NEW s \in Spellings,
               m = Change(e, v, k, n, new, s)
        PROVE  IsRequest(m) /\ m.nonce = v
    BY <2>3, RequestAssumption DEF Change, IsRequest
  <2>4. \/ \E k \in KeyPairs, s \in Spellings : m = Registration(e, v, k, s)
        \/ \E k \in KeyPairs, n \in Numbers, path \in Numbers : m = Update(e, v, k, n, path)
        \/ \E k \in KeyPairs, n \in Numbers, new \in KeyPairs, s \in Spellings :
              m = Change(e, v, k, n, new, s)
    <3>1. \/ m \in Registrations(e, v) \/ m = Registration(e, v, "short RSA", "canonical")
          \/ m \in Updates(e, v) \/ m \in Changes(e, v)
      BY <1>1 DEF Writable
    <3>2. /\ Told(e) \subseteq Numbers /\ {"RSA", "EC"} \subseteq KeyPairs
          /\ {"canonical", "respelt"} \subseteq Spellings
      BY DEF Told, KeyPairs, Spellings
    <3>3. CASE m = Registration(e, v, "short RSA", "canonical")
      BY <3>3 DEF KeyPairs, Spellings
    <3>4. CASE m \in Registrations(e, v)
      <4>1. \E k \in {"RSA", "EC"}, s \in Spellings : m = Registration(e, v, k, s)
        BY <3>4 DEF Registrations
      <4> QED
        BY <3>2, <4>1
    <3>5. CASE m \in Updates(e, v)
      <4>1. \E k \in {"RSA", "EC"}, n \in Told(e), path \in Told(e) : m = Update(e, v, k, n, path)
        BY <3>5 DEF Updates
      <4> QED
        BY <3>2, <4>1
    <3>6. CASE m \in Changes(e, v)
      <4>1. \E k \in {"RSA", "EC"}, n \in Told(e), new \in KeyPairs, s \in {"canonical", "respelt"} :
              m = Change(e, v, k, n, new, s)
        BY <3>6 DEF Changes
      <4> QED
        BY <3>2, <4>1
    <3> QED
      BY <3>1, <3>3, <3>4, <3>5, <3>6
  <2> QED
    BY <2>1, <2>2, <2>3, <2>4
<1>3. NoncesAreHanded'
  BY <1>1, <1>2 DEF RequestInv, NoncesAreHanded, Write
<1>4. ActedIsSpent' /\ AccountsAreKeyed'
  BY <1>1 DEF RequestInv, ActedIsSpent, AccountsAreKeyed, Made, Write
<1>5. OpenIsAuthentic'
  <2>1. sent \subseteq sent' /\ UNCHANGED <<unspent, registered, open>>
    BY <1>1 DEF Write
  <2>2. OpenRow \subseteq OpenRow'
    BY <2>1 DEF OpenRow
  <2>3. \A o \in open : IsAuthentic(o) => IsAuthentic(o)'
    BY <2>1, <2>2 DEF IsAuthentic, Made
  <2> QED
    BY <2>1, <2>3 DEF RequestInv, OpenIsAuthentic
<1> QED
  BY <1>3, <1>4, <1>5 DEF RequestInv

(* A request that is accepted is authentic, and the only one with its nonce.  *)
LEMMA Accepts ==
  ASSUME RequestInv, NEW m \in sent, NEW f \in Flaws, NEW e \in Places,
         NEW op \in {"new-account", "account", "key-change"}, NEW found \in BOOLEAN,
         Accept(m, f, e, op, found), consumeNonce(m, e), f # "altered", m.at = e, m.op = op,
         IF op = "new-account" THEN m.by \in {"RSA", "EC"}
         ELSE m.kid \in Numbers /\ Made(m.kid) /\ registered[m.kid].at = e /\ registered[m.kid].key = m.by,
         op = "account" => m.path = m.kid,
         op = "key-change" => m.new \in {"RSA", "EC"}
  PROVE  RequestInv'
<1>1. PICK o : o = [request |-> m, altered |-> FALSE, at |-> e, op |-> op, found |-> found,
                    overtaken |-> FALSE]
  OBVIOUS
<1>2. open' = open \union {o} /\ UNCHANGED <<handed, unspent, sent, registered, acts>>
  <2>1. (f = "altered") = FALSE
    OBVIOUS
  <2> QED
    BY <1>1, <2>1 DEF Accept
<1>3. o \in OpenRow /\ o.request = m /\ o.at = e /\ o.op = op
  BY <1>1 DEF OpenRow
<1>4. <<e, m.nonce>> \in unspent /\ \A p \in open : p.at = e => p.request.nonce # m.nonce
  BY DEF consumeNonce
<1>5. IsAuthentic(o)
  BY <1>3, <1>4 DEF IsAuthentic
<1>6. OpenIsAuthentic'
  <2>1. \A p : IsAuthentic(p) => IsAuthentic(p)'
    BY <1>2 DEF IsAuthentic, OpenRow, Made
  <2> QED
    BY <1>2, <1>3, <1>4, <1>5, <2>1 DEF RequestInv, OpenIsAuthentic
<1>7. NoncesAreHanded' /\ ActedIsSpent' /\ AccountsAreKeyed'
  BY <1>2 DEF RequestInv, NoncesAreHanded, ActedIsSpent, AccountsAreKeyed, Made
<1> QED
  BY <1>6, <1>7 DEF RequestInv

(* The signature of a registration is checked with the key it carries.        *)
LEMMA AcceptsRegistration ==
  ASSUME RequestInv, NEW m \in sent, NEW f \in Flaws, NEW e \in Places, NewAccount(m, f, e)
  PROVE  RequestInv'
<1>1. PICK found \in BOOLEAN : Accept(m, f, e, "new-account", found)
  BY DEF NewAccount
<1>2. consumeNonce(m, e) /\ f # "altered" /\ m.at = e /\ m.op = "new-account" /\ m.by # "short RSA"
  BY DEF NewAccount, AuthenticateByKey, checkOuter, verify
<1>3. m.by \in {"RSA", "EC"}
  BY <1>2 DEF RequestInv, NoncesAreHanded, IsRequest, KeyPairs
<1> QED
  BY <1>1, <1>2, <1>3, Accepts

(* That of another request with the key of an account of the endpoint.        *)
LEMMA AuthenticatedAccount ==
  ASSUME RequestInv, NEW m \in sent, NEW f \in Flaws, NEW e \in Places, NEW op,
         AuthenticateByAccount(m, f, e, op)
  PROVE  /\ f # "altered" /\ m.at = e /\ m.op = op /\ consumeNonce(m, e)
         /\ m.kid \in Numbers /\ Made(m.kid) /\ registered[m.kid].at = e
         /\ m.by = registered[m.kid].key
  BY RequestAssumption DEF AuthenticateByAccount, checkOuter, verify, accountFromKID, Made

(* A request for an account is accepted.                                      *)
LEMMA AcceptsUpdate ==
  ASSUME RequestInv, NEW m \in sent, NEW f \in Flaws, NEW e \in Places,
         AccountRequest(m, f, e) \/ KeyChange(m, f, e)
  PROVE  RequestInv'
<1>1. CASE AccountRequest(m, f, e)
  <2>1. Accept(m, f, e, "account", TRUE) /\ m.path = m.kid
    BY <1>1 DEF AccountRequest
  <2>2. /\ f # "altered" /\ m.at = e /\ m.op = "account" /\ consumeNonce(m, e)
        /\ m.kid \in Numbers /\ Made(m.kid) /\ registered[m.kid].at = e
        /\ m.by = registered[m.kid].key
    BY <1>1, AuthenticatedAccount DEF AccountRequest
  <2> QED
    BY <2>1, <2>2, Accepts
<1>2. CASE KeyChange(m, f, e)
  <2>1. Accept(m, f, e, "key-change", TRUE) /\ m.new # "short RSA"
    BY <1>2 DEF KeyChange, ProvenKey, parseJWK
  <2>2. /\ f # "altered" /\ m.at = e /\ m.op = "key-change" /\ consumeNonce(m, e)
        /\ m.kid \in Numbers /\ Made(m.kid) /\ registered[m.kid].at = e
        /\ m.by = registered[m.kid].key
    BY <1>2, AuthenticatedAccount DEF KeyChange
  <2>3. m.new \in {"RSA", "EC"}
    BY <2>1, <2>2 DEF RequestInv, NoncesAreHanded, IsRequest, KeyPairs
  <2> QED
    BY <2>1, <2>2, <2>3, Accepts
<1> QED
  BY <1>1, <1>2

(* What is done was asked for once, and its nonce is nobody else's.           *)
LEMMA ActsAreSpent ==
  ASSUME RequestInv, NEW o \in open, NEW key, Commit(o, key), key = o.request.by \/ o.overtaken
  PROVE  /\ NoncesAreHanded' /\ ActedIsSpent' /\ sent' = sent
         /\ \A p \in open \ {o} : <<p.at, p.request.nonce>> \in unspent'
<1>1. /\ IsAuthentic(o) /\ o.request \in sent /\ ~o.altered
      /\ <<o.request.at, o.request.nonce>> \in unspent /\ o.at = o.request.at
  BY DEF RequestInv, OpenIsAuthentic, IsAuthentic, OpenRow
<1>2. \A a \in acts : a.request # o.request
  BY <1>1 DEF RequestInv, ActedIsSpent
<1>3. NoncesAreHanded'
  BY DEF RequestInv, NoncesAreHanded, Commit, ConsumeNonceRow
<1> DEFINE new == [request |-> o.request, altered |-> o.altered, at |-> o.at, op |-> o.op, key |-> key,
                   overtaken |-> o.overtaken, again |-> \E a \in acts : a.request = o.request]
<1>4. /\ new.request = o.request /\ ~new.altered /\ new.at = o.at /\ new.op = o.op /\ new.key = key
      /\ new.overtaken = o.overtaken
  BY <1>1
<1>5. ~new.again
  BY <1>2
<1>6. acts' = acts \union {new} /\ sent' = sent /\ handed' = handed
      /\ unspent' = unspent \ {<<o.at, o.request.nonce>>}
  BY DEF Commit, ConsumeNonceRow
<1> HIDE DEF new
<1>7. ActedIsSpent'
  <2> SUFFICES ASSUME NEW a \in acts'
               PROVE  /\ a.request \in sent /\ <<a.request.at, a.request.nonce>> \in handed \ unspent'
                      /\ a.at = a.request.at /\ a.op = a.request.op /\ ~a.altered /\ ~a.again
                      /\ (a.op = "account" => a.request.path = a.request.kid)
                      /\ (a.key = a.request.by \/ a.overtaken)
    BY <1>6 DEF ActedIsSpent
  <2>1. CASE a = new
    <3>1. o.op = o.request.op /\ (o.op = "account" => o.request.path = o.request.kid)
      BY <1>1 DEF IsAuthentic
    <3>2. <<a.request.at, a.request.nonce>> \in handed \ unspent'
      BY <1>1, <1>4, <1>6, <2>1 DEF RequestInv, NoncesAreHanded
    <3> QED
      BY <1>1, <1>4, <1>5, <2>1, <3>1, <3>2
  <2>2. CASE a \in acts
    BY <1>6, <2>2 DEF RequestInv, ActedIsSpent
  <2> QED
    BY <1>6, <2>1, <2>2
<1>8. ASSUME NEW p \in open \ {o} PROVE <<p.at, p.request.nonce>> \in unspent'
  <2>1. <<p.at, p.request.nonce>> \in unspent /\ <<p.at, p.request.nonce>> # <<o.at, o.request.nonce>>
    BY DEF RequestInv, OpenIsAuthentic, IsAuthentic
  <2> QED
    BY <1>6, <2>1
<1> QED
  BY <1>3, <1>6, <1>7, <1>8

(* One account gets the row it is given; thumbprints of an endpoint differ.   *)
LEMMA AccountSet ==
  ASSUME AccountsAreKeyed, NEW n \in Numbers, NEW w \in AccountRow,
         registered' = [registered EXCEPT ![n] = w],
         w.at \in Places, w.key \in {"RSA", "EC"},
         NEW s \in Spellings, w.thumbprint = jwkThumbprint(w.key, s),
         \A l \in Numbers : l < n => Made(l),
         \A l \in Numbers \ {n} : Made(l) /\ registered[l].at = w.at => registered[l].thumbprint # w.thumbprint
  PROVE  /\ AccountsAreKeyed' /\ registered'[n] = w
         /\ \A l \in Numbers \ {n} : registered'[l] = registered[l]
         /\ \A l \in Numbers : Made(l) => Made(l)'
<1>1. /\ registered' \in [Numbers -> AccountRow] /\ registered'[n] = w
      /\ \A l \in Numbers \ {n} : registered'[l] = registered[l]
  BY DEF AccountsAreKeyed
<1>2. Made(n)' /\ \A l \in Numbers \ {n} : Made(l)' <=> Made(l)
  BY <1>1, RequestAssumption DEF Made
<1>3. \A l, k \in Numbers : Made(l)' /\ k < l => Made(k)'
  BY <1>2, RequestAssumption DEF AccountsAreKeyed
<1>4. \A l, k \in Numbers :
         Made(l)' /\ Made(k)' /\ registered'[l].at = registered'[k].at
           /\ registered'[l].thumbprint = registered'[k].thumbprint => l = k
  BY <1>1, <1>2 DEF AccountsAreKeyed
<1>5. \A l \in Numbers : Made(l)' =>
         /\ registered'[l].key \in {"RSA", "EC"}
         /\ \E t \in Spellings : registered'[l].thumbprint = jwkThumbprint(registered'[l].key, t)
  BY <1>1, <1>2 DEF AccountsAreKeyed
<1>6. \A l \in Numbers : ~Made(l)' => registered'[l] = NotMade
  BY <1>1, <1>2 DEF AccountsAreKeyed
<1>7. AccountsAreKeyed'
  BY <1>1, <1>3, <1>4, <1>5, <1>6 DEF AccountsAreKeyed, Made
<1> QED
  BY <1>1, <1>2, <1>7

(* Requests under way stay authentic when accounts stay and keep their keys.  *)
LEMMA OpenStays ==
  ASSUME RequestInv, NEW o \in open, open' = open \ {o}, sent' = sent,
         \A p \in open \ {o} : <<p.at, p.request.nonce>> \in unspent',
         \A l \in Numbers : Made(l) => /\ Made(l)' /\ registered'[l].at = registered[l].at
                                       /\ registered'[l].key = registered[l].key
  PROVE  OpenIsAuthentic'
<1>1. ASSUME NEW p \in open \ {o} PROVE IsAuthentic(p)'
  <2>1. IsAuthentic(p)
    BY DEF RequestInv, OpenIsAuthentic
  <2>2. OpenRow' = OpenRow
    BY DEF OpenRow
  <2>3. p.op # "new-account" =>
          /\ p.request.kid \in Numbers /\ Made(p.request.kid)' /\ registered'[p.request.kid].at = p.at
          /\ (registered'[p.request.kid].key = p.request.by \/ p.overtaken)
    BY <2>1 DEF IsAuthentic
  <2> QED
    BY <2>1, <2>2, <2>3 DEF IsAuthentic
<1> QED
  BY <1>1 DEF RequestInv, OpenIsAuthentic

(* A registration finds the account of the thumbprint or makes the only one.  *)
LEMMA Registers ==
  ASSUME RequestInv, NEW o \in open, CreateAccount(o)
  PROVE  RequestInv'
<1> DEFINE m == o.request
           thumbprint == jwkThumbprint(m.by, m.spelling)
<1>1. /\ IsAuthentic(o) /\ o.at \in Places /\ m \in sent /\ m.op = "new-account" /\ m.by \in {"RSA", "EC"}
      /\ Commit(o, m.by) /\ open' = open \ {o}
  BY DEF RequestInv, OpenIsAuthentic, IsAuthentic, OpenRow, CreateAccount
<1>2. /\ NoncesAreHanded' /\ ActedIsSpent' /\ sent' = sent
      /\ \A p \in open \ {o} : <<p.at, p.request.nonce>> \in unspent'
  BY <1>1, ActsAreSpent
<1>3. CASE UNCHANGED registered
  <2>1. AccountsAreKeyed'
    BY <1>3 DEF RequestInv, AccountsAreKeyed, Made
  <2>2. OpenIsAuthentic'
    BY <1>1, <1>2, <1>3, OpenStays DEF Made
  <2> QED
    BY <1>2, <2>1, <2>2 DEF RequestInv
<1>4. ASSUME NEW n \in Numbers, ByThumbprint(o.at, thumbprint) = {},
             \A l \in Numbers : l < n <=> registered[l] # NotMade,
             registered' = [registered EXCEPT ![n] =
               [at |-> o.at, key |-> m.by, thumbprint |-> thumbprint, valid |-> TRUE]]
      PROVE  RequestInv'
  <2>1. m.spelling \in Spellings
    BY <1>1 DEF RequestInv, NoncesAreHanded, IsRequest
  <2> DEFINE w == [at |-> o.at, key |-> m.by, thumbprint |-> thumbprint, valid |-> TRUE]
  <2>2. thumbprint \in (KeyPairs \union {"none"}) \X {"none", "canonical", "respelt"}
    BY <1>1 DEF jwkThumbprint, KeyPairs
  <2>3. w \in AccountRow /\ w.at = o.at /\ w.key = m.by /\ w.thumbprint = thumbprint
    <3> HIDE DEF thumbprint
    <3> QED
      BY <1>1, <2>2 DEF AccountRow, KeyPairs
  <2>4. \A l \in Numbers : l < n => Made(l)
    BY <1>4 DEF RequestInv, AccountsAreKeyed
  <2>5. \A l \in Numbers : Made(l) /\ registered[l].at = o.at => registered[l].thumbprint # thumbprint
    <3> HIDE DEF thumbprint
    <3> QED
      BY <1>4 DEF RequestInv, AccountsAreKeyed, ByThumbprint
  <2>6. registered' = [registered EXCEPT ![n] = w] /\ ~Made(n)
    <3>1. ~(n < n)
      BY RequestAssumption
    <3> QED
      BY <1>4, <3>1 DEF Made, NotMade
  <2>7. w.thumbprint = jwkThumbprint(w.key, m.spelling)
    BY <2>3
  <2> HIDE DEF w, thumbprint
  <2>8. /\ AccountsAreKeyed' /\ registered'[n] = w
        /\ \A l \in Numbers \ {n} : registered'[l] = registered[l]
        /\ \A l \in Numbers : Made(l) => Made(l)'
    BY <1>1, <2>1, <2>3, <2>4, <2>5, <2>6, <2>7, AccountSet DEF RequestInv
  <2>9. OpenIsAuthentic'
    <3>1. \A l \in Numbers : Made(l) => Made(l)' /\ registered'[l] = registered[l]
      BY <2>6, <2>8
    <3> QED
      BY <1>1, <1>2, <3>1, OpenStays
  <2> QED
    BY <1>2, <2>8, <2>9 DEF RequestInv
<1> QED
  BY <1>3, <1>4 DEF CreateAccount

(* What a request under way does, it does to an account it was verified with. *)
LEMMA ActsOnAccount ==
  ASSUME RequestInv, NEW o \in open, o.op # "new-account"
  PROVE  /\ o.at \in Places /\ o.request \in sent /\ o.request.op = o.op
         /\ o.request.kid \in Numbers /\ Made(o.request.kid) /\ registered[o.request.kid].at = o.at
         /\ registered[o.request.kid] \in AccountRow
         /\ (registered[o.request.kid].key = o.request.by \/ o.overtaken)
         /\ (o.op = "key-change" => o.request.new \in {"RSA", "EC"} /\ o.request.spelling \in Spellings)
<1>1. IsAuthentic(o)
  BY DEF RequestInv, OpenIsAuthentic
<1>2. o.at \in Places /\ o.request \in sent /\ o.request.op = o.op
  BY <1>1 DEF IsAuthentic, OpenRow
<1>3. o.op = "key-change" => o.request.spelling \in Spellings
  BY <1>2 DEF RequestInv, NoncesAreHanded, IsRequest
<1>4. o.request.kid \in Numbers /\ Made(o.request.kid) /\ registered[o.request.kid].at = o.at
      /\ (registered[o.request.kid].key = o.request.by \/ o.overtaken)
      /\ (o.op = "key-change" => o.request.new \in {"RSA", "EC"})
  BY <1>1 DEF IsAuthentic
<1> QED
  BY <1>2, <1>3, <1>4 DEF RequestInv, AccountsAreKeyed

(* An update changes whether the account is valid, not its key.               *)
LEMMA IsUpdated ==
  ASSUME RequestInv, NEW o \in open, NEW remains \in BOOLEAN, UpdateAccount(o, remains)
  PROVE  RequestInv'
<1> DEFINE n == o.request.kid
           w == [registered[n] EXCEPT !.valid = remains]
<1>1. /\ o.at \in Places /\ n \in Numbers /\ Made(n) /\ registered[n].at = o.at
      /\ registered[n] \in AccountRow /\ (registered[n].key = o.request.by \/ o.overtaken)
      /\ open' = open \ {o} /\ Commit(o, registered[n].key)
  BY ActsOnAccount DEF UpdateAccount
<1>2. /\ NoncesAreHanded' /\ ActedIsSpent' /\ sent' = sent
      /\ \A p \in open \ {o} : <<p.at, p.request.nonce>> \in unspent'
  BY <1>1, ActsAreSpent
<1>3. w \in AccountRow
  BY <1>1, Zenon DEF AccountRow
<1>4. w.at = o.at /\ w.key = registered[n].key /\ w.thumbprint = registered[n].thumbprint
  BY <1>1 DEF AccountRow
<1>5. registered' = [registered EXCEPT ![n] = w]
  BY DEF UpdateAccount
<1>6. PICK s \in Spellings : w.key \in {"RSA", "EC"} /\ w.thumbprint = jwkThumbprint(w.key, s)
  BY <1>1, <1>4 DEF RequestInv, AccountsAreKeyed
<1>7. \A l \in Numbers : l < n => Made(l)
  BY <1>1 DEF RequestInv, AccountsAreKeyed
<1>8. \A l \in Numbers \ {n} : Made(l) /\ registered[l].at = w.at => registered[l].thumbprint # w.thumbprint
  BY <1>1, <1>4 DEF RequestInv, AccountsAreKeyed
<1> HIDE DEF w, n
<1>9. /\ AccountsAreKeyed' /\ registered'[n] = w
      /\ \A l \in Numbers \ {n} : registered'[l] = registered[l]
      /\ \A l \in Numbers : Made(l) => Made(l)'
  BY <1>1, <1>3, <1>4, <1>5, <1>6, <1>7, <1>8, AccountSet DEF RequestInv
<1>10. OpenIsAuthentic'
  <2>1. \A l \in Numbers : Made(l) => /\ Made(l)' /\ registered'[l].at = registered[l].at
                                      /\ registered'[l].key = registered[l].key
    BY <1>1, <1>4, <1>9
  <2> QED
    BY <1>1, <1>2, <2>1, OpenStays
<1> QED
  BY <1>2, <1>9, <1>10 DEF RequestInv

(* A key change takes a thumbprint no other account of the endpoint has, and  *)
(* overtakes the requests of the account that are under way.                  *)
LEMMA ChangesKey ==
  ASSUME RequestInv, NEW o \in open, RekeyAccount(o)
  PROVE  RequestInv'
<1> DEFINE n == o.request.kid
           thumbprint == jwkThumbprint(o.request.new, o.request.spelling)
           w == [registered[n] EXCEPT !.key = o.request.new, !.thumbprint = thumbprint]
           After(p) == IF p.request.kid = n THEN [p EXCEPT !.overtaken = TRUE] ELSE p
<1>1. /\ o.at \in Places /\ n \in Numbers /\ Made(n) /\ registered[n].at = o.at
      /\ registered[n] \in AccountRow /\ (registered[n].key = o.request.by \/ o.overtaken)
      /\ o.request.new \in {"RSA", "EC"} /\ o.request.spelling \in Spellings
  BY ActsOnAccount DEF RekeyAccount
<1>2. /\ Commit(o, registered[n].key) /\ ByThumbprint(o.at, thumbprint) \subseteq {n}
      /\ open' = {After(p) : p \in open \ {o}}
      /\ registered' = [registered EXCEPT ![n].key = o.request.new, ![n].thumbprint = thumbprint]
  BY DEF RekeyAccount
<1>3. /\ NoncesAreHanded' /\ ActedIsSpent' /\ sent' = sent
      /\ \A p \in open \ {o} : <<p.at, p.request.nonce>> \in unspent'
  BY <1>1, <1>2, ActsAreSpent
<1>4. thumbprint \in (KeyPairs \union {"none"}) \X {"none", "canonical", "respelt"}
  BY <1>1 DEF jwkThumbprint, KeyPairs
<1>5. w \in AccountRow /\ w.at = o.at /\ w.key = o.request.new /\ w.thumbprint = thumbprint
  <2> HIDE DEF thumbprint
  <2> QED
    BY <1>1, <1>4 DEF AccountRow, KeyPairs
<1>6. registered' = [registered EXCEPT ![n] = w]
  <2> HIDE DEF thumbprint
  <2> QED
    BY <1>1, <1>2 DEF RequestInv, AccountsAreKeyed, AccountRow
<1>7. \A l \in Numbers : l < n => Made(l)
  BY <1>1 DEF RequestInv, AccountsAreKeyed
<1>8. \A l \in Numbers \ {n} : Made(l) /\ registered[l].at = w.at => registered[l].thumbprint # w.thumbprint
  <2> HIDE DEF thumbprint, w
  <2> QED
    BY <1>2, <1>5 DEF ByThumbprint
<1>9. w.thumbprint = jwkThumbprint(w.key, o.request.spelling)
  BY <1>5
<1> HIDE DEF w, thumbprint
<1>10. /\ AccountsAreKeyed' /\ registered'[n] = w
       /\ \A l \in Numbers \ {n} : registered'[l] = registered[l]
       /\ \A l \in Numbers : Made(l) => Made(l)'
  <2> HIDE DEF n
  <2> QED
    BY <1>1, <1>5, <1>6, <1>7, <1>8, <1>9, AccountSet DEF RequestInv
<1>11. ASSUME NEW p \in open \ {o}
       PROVE  /\ After(p).request = p.request /\ After(p).at = p.at
              /\ IsAuthentic(After(p))'
  <2>1. IsAuthentic(p) /\ p \in OpenRow
    BY DEF RequestInv, OpenIsAuthentic, IsAuthentic
  <2>2. After(p) \in OpenRow
    BY <2>1 DEF OpenRow
  <2>3. After(p).request = p.request /\ After(p).at = p.at /\ After(p).op = p.op
    BY <2>1 DEF OpenRow
  <2>4. After(p) \in OpenRow'
    BY <1>3, <2>2 DEF OpenRow
  <2>5. IF p.request.kid = n THEN After(p).overtaken ELSE After(p).overtaken = p.overtaken
    BY <2>1 DEF OpenRow
  <2>6. <<p.at, p.request.nonce>> \in unspent'
    BY <1>3
  <2>7. p.op # "new-account" =>
          /\ p.request.kid \in Numbers /\ Made(p.request.kid)' /\ registered'[p.request.kid].at = p.at
          /\ (registered'[p.request.kid].key = p.request.by \/ After(p).overtaken)
    <3> HIDE DEF After, n
    <3> QED
      BY <1>1, <1>5, <1>10, <2>1, <2>5 DEF IsAuthentic
  <2> HIDE DEF After, n
  <2> QED
    BY <2>1, <2>3, <2>4, <2>6, <2>7 DEF IsAuthentic
<1>12. OpenIsAuthentic'
  <2>1. \A q \in open' : \E p \in open \ {o} : q = After(p)
    BY <1>2
  <2>2. \A p, q \in open : p.at = q.at /\ p.request.nonce = q.request.nonce => p = q
    BY DEF RequestInv, OpenIsAuthentic
  <2> HIDE DEF After, n
  <2>3. \A p, q \in open' : p.at = q.at /\ p.request.nonce = q.request.nonce => p = q
    BY <1>11, <2>1, <2>2
  <2>4. \A q \in open' : IsAuthentic(q)'
    BY <1>11, <2>1
  <2> QED
    BY <2>3, <2>4 DEF OpenIsAuthentic
<1> QED
  BY <1>3, <1>10, <1>12 DEF RequestInv

(* A transaction that ends without a commit leaves everything as it was.      *)
LEMMA GivesUp ==
  ASSUME RequestInv, NEW o \in open, GiveUp(o)
  PROVE  RequestInv'
<1>1. NoncesAreHanded' /\ ActedIsSpent' /\ AccountsAreKeyed'
  BY DEF GiveUp, RequestInv, NoncesAreHanded, ActedIsSpent, AccountsAreKeyed, Made
<1>2. OpenIsAuthentic'
  <2>1. \A p \in open : <<p.at, p.request.nonce>> \in unspent
    BY DEF RequestInv, OpenIsAuthentic, IsAuthentic
  <2> QED
    BY <2>1, OpenStays DEF GiveUp, Made
<1> QED
  BY <1>1, <1>2 DEF RequestInv

(* Every step keeps the invariant.                                            *)
LEMMA RequestSteps == RequestInv /\ [RequestNext]_requestVars => RequestInv'
<1> SUFFICES ASSUME RequestInv, [RequestNext]_requestVars PROVE RequestInv'
  OBVIOUS
<1>1. CASE UNCHANGED requestVars
  <2>1. OpenRow' = OpenRow /\ UNCHANGED <<unspent, registered, open>>
    BY <1>1 DEF OpenRow, requestVars
  <2>2. \A o \in open : IsAuthentic(o) => IsAuthentic(o)'
    BY <2>1 DEF IsAuthentic, Made
  <2>3. OpenIsAuthentic'
    BY <2>1, <2>2 DEF RequestInv, OpenIsAuthentic
  <2> QED
    BY <1>1, <2>3 DEF RequestInv, NoncesAreHanded, ActedIsSpent, AccountsAreKeyed, Made, requestVars
<1>2. CASE \E e \in Places : NewNonce(e) \/ \E v \in NonceValues : Write(e, v)
  BY <1>2, HandsOut, Writes
<1>3. CASE \E m \in sent, e \in Places : consumeNonce(m, e) /\ \E f \in Flaws :
             NewAccount(m, f, e) \/ AccountRequest(m, f, e) \/ KeyChange(m, f, e)
  BY <1>3, AcceptsRegistration, AcceptsUpdate
<1>4. CASE \E o \in open : \/ CreateAccount(o) \/ RekeyAccount(o) \/ GiveUp(o)
                           \/ \E remains \in BOOLEAN : UpdateAccount(o, remains)
  BY <1>4, Registers, ChangesKey, GivesUp, IsUpdated
<1> QED
  BY <1>1, <1>2, <1>3, <1>4 DEF RequestNext

(* Over a network that repeats, delays, changes and misdirects, and however   *)
(* requests overlap, a request is acted on once, as it was signed, and        *)
(* accounts stay usable and are told apart by key and spelling (jws.go,       *)
(* service.go).                                                               *)
THEOREM ActsOnceAsSigned == RequestSpec => []ActsAsAsked
<1>1. RequestInv => ActsAsAsked
  <2> SUFFICES ASSUME RequestInv PROVE ActsAsAsked
    OBVIOUS
  <2>1. \A n \in Numbers : registered[n] # NotMade => Made(n)
    BY DEF RequestInv, AccountsAreKeyed
  <2>2. NotMade.at = 0 /\ ~NotMade.valid
    BY DEF NotMade
  <2> HIDE DEF NotMade
  <2>3. ActsOnce /\ ActsAsSigned
    BY DEF RequestInv, ActedIsSpent, ActsOnce, ActsAsSigned
  <2>4. OneAccountPerKey
    <3> SUFFICES ASSUME NEW n \in Numbers, NEW l \in Numbers, Made(n), Made(l), n # l,
                        registered[n].at = registered[l].at, registered[n].key = registered[l].key
                 PROVE  \E s, t \in Spellings :
                          /\ (s = "respelt") # (t = "respelt")
                          /\ registered[n].thumbprint = jwkThumbprint(registered[n].key, s)
                          /\ registered[l].thumbprint = jwkThumbprint(registered[l].key, t)
      BY <2>1 DEF OneAccountPerKey
    <3>1. PICK s \in Spellings : registered[n].thumbprint = jwkThumbprint(registered[n].key, s)
      BY DEF RequestInv, AccountsAreKeyed
    <3>2. PICK t \in Spellings : registered[l].thumbprint = jwkThumbprint(registered[l].key, t)
      BY DEF RequestInv, AccountsAreKeyed
    <3>3. jwkThumbprint(registered[n].key, s) # jwkThumbprint(registered[n].key, t)
      BY <3>1, <3>2 DEF RequestInv, AccountsAreKeyed
    <3>4. (s = "respelt") # (t = "respelt")
      BY <3>3, ThumbprintIs
    <3> QED
      BY <3>1, <3>2, <3>4
  <2>5. AccountsStayUsable
    BY <2>2 DEF RequestInv, AccountsAreKeyed, AccountsStayUsable, parseJWK
  <2>6. RequestTypeOK
    <3>1. \A n \in Numbers : registered[n].valid => registered[n].at \in Places
      BY <2>2 DEF RequestInv, AccountsAreKeyed, AccountRow, Made
    <3>2. \A n, l \in Numbers : (registered[n] # NotMade /\ l < n) => registered[l] # NotMade
      BY <2>1, <2>2 DEF RequestInv, AccountsAreKeyed, Made
    <3>3. \A n \in Numbers : registered[n] # NotMade =>
            \E s \in Spellings : registered[n].thumbprint = jwkThumbprint(registered[n].key, s)
      BY <2>1 DEF RequestInv, AccountsAreKeyed
    <3> QED
      BY <3>1, <3>2, <3>3 DEF RequestTypeOK, RequestInv, NoncesAreHanded, OpenIsAuthentic, IsAuthentic,
                              OpenRow
  <2> QED
    BY <2>3, <2>4, <2>5, <2>6 DEF ActsAsAsked
<1> QED
  BY <1>1, RequestStarts, RequestSteps, PTL DEF RequestSpec

----------------------------------------------------------------------------
(* Server.                                                                   *)

Stages == Migrating \union {"off", "reading", "locking", "checking", "serving", "draining", "waiting"}
Units == {"none", "open", "committing"}
InstanceRow == [at : Stages, build : SUBSET Files, toRun : SUBSET Files, stopping : BOOLEAN,
                left : Nat, requests : BOOLEAN, unit : Units, late : {FALSE}]

(* What one instance is at any stage.                                         *)
Sound(n) ==
    /\ n.toRun \subseteq n.build /\ n.left <= Grace
    /\ n.at \notin {"serving", "draining", "waiting"} => ~n.requests /\ n.unit = "none"
    /\ n.at \in {"draining", "waiting"} => n.stopping
    /\ n.at = "waiting" /\ n.requests => n.left = 0
    /\ n.at = "executed" => n.toRun # {}

(* What is left to run is all that is not in effect, once it has been read    *)
(* and as long as nothing is left of it.                                      *)
RestIsApplied ==
    \A i \in Instances :
        /\ instances[i].at \in {"locking", "migrating", "executed", "checking", "serving"} =>
             instances[i].build \subseteq schema \union instances[i].toRun
        /\ instances[i].at \in {"checking", "serving"} => instances[i].toRun = {}
        /\ instances[i].at = "serving" => instances[i].build \intersect Unguarded = {}

(* Whoever migrates has made the lock table, and nobody makes it twice.       *)
MigratorLocks ==
    /\ \A i \in Instances : instances[i].at \in Migrating => lockTable
    /\ \A i, j \in Instances : instances[i].at \in Migrating /\ instances[j].at \in Migrating => i = j

ServerInv ==
    /\ schema \subseteq Files /\ schema = recorded /\ lockTable \in BOOLEAN
    /\ instances \in [Instances -> InstanceRow]
    /\ \A i \in Instances : Sound(instances[i])
    /\ RestIsApplied
    /\ MigratorLocks
    /\ abandoned \in [Instances -> {"nothing", "killed", "cut off"}]

(* A set of naturals that is not empty has a least member.                    *)
LEMMA LeastNatural ==
  ASSUME NEW T, T \subseteq Nat, T # {}
  PROVE  \E m \in T : \A o \in T : m <= o
<1>1. \E m \in T : \A o \in T : ~(<<o, m>> \in OpToRel(<, Nat))
  BY NatLessThanWellFounded, WFMin
<1>2. \E m \in T : \A o \in T : ~(o < m)
  BY <1>1 DEF OpToRel
<1> QED
  BY <1>2

(* So the migrations that are left to run have a first one.                   *)
LEMMA FileIsFirst ==
  ASSUME ServerInv, NEW i \in Instances, instances[i].toRun # {}
  PROVE  File(i) \in instances[i].toRun
<1>1. instances[i].toRun \subseteq Nat
  BY ServerAssumption DEF ServerInv, InstanceRow
<1> QED
  BY <1>1, LeastNatural DEF File

(* One instance becomes n, the others stay what they are.                     *)
Becomes(i, n) ==
    /\ n \in InstanceRow
    /\ instances' = [instances EXCEPT ![i] = n]

(* What RestIsApplied and MigratorLocks ask of the one.                       *)
Rest(n, applied) ==
    /\ n.at \in {"locking", "migrating", "executed", "checking", "serving"} =>
         n.build \subseteq applied \union n.toRun
    /\ n.at \in {"checking", "serving"} => n.toRun = {}
    /\ n.at = "serving" => n.build \intersect Unguarded = {}

(* It is enough to look at the one: the schema grows, and only an instance    *)
(* that migrates drops the lock table, as it stops migrating.                 *)
LEMMA OneMoves ==
  ASSUME ServerInv, NEW i \in Instances, NEW n, Becomes(i, n),
         schema' \subseteq Files, schema \subseteq schema', schema' = recorded', lockTable' \in BOOLEAN,
         Sound(n), Rest(n, schema'),
         n.at \in Migrating => lockTable' /\ (~lockTable \/ instances[i].at \in Migrating),
         lockTable => lockTable' \/ instances[i].at \in Migrating,
         abandoned' \in [Instances -> {"nothing", "killed", "cut off"}]
  PROVE  ServerInv'
<1>1. /\ instances' \in [Instances -> InstanceRow] /\ instances'[i] = n
      /\ \A j \in Instances \ {i} : instances'[j] = instances[j]
  BY DEF ServerInv, Becomes
<1>2. \A j \in Instances : Sound(instances'[j])
  BY <1>1 DEF ServerInv
<1>3. RestIsApplied'
  BY <1>1 DEF ServerInv, RestIsApplied, Rest
<1>4. MigratorLocks'
  BY <1>1 DEF ServerInv, MigratorLocks, Migrating
<1> QED
  BY <1>1, <1>2, <1>3, <1>4 DEF ServerInv

(* An instance that is not running is sound, whatever became of it before.    *)
LEMMA NotRunningIsSound ==
  NotRunning \in InstanceRow /\ Sound(NotRunning) /\ \A applied : Rest(NotRunning, applied)
  BY ServerAssumption DEF NotRunning, InstanceRow, Stages, Units, Sound, Rest, Migrating

(* Nothing runs at first.                                                     *)
LEMMA ServerStarts == ServerInit => ServerInv
<1> SUFFICES ASSUME ServerInit PROVE ServerInv
  OBVIOUS
<1>1. /\ schema = {} /\ recorded = {} /\ lockTable = FALSE
      /\ \A i \in Instances : instances[i] = NotRunning
      /\ instances \in [Instances -> {NotRunning}]
      /\ abandoned \in [Instances -> {"nothing", "killed", "cut off"}]
  BY DEF ServerInit
<1>2. NotRunning.at \notin Migrating
  BY DEF NotRunning, Migrating
<1> HIDE DEF NotRunning
<1>3. RestIsApplied
  BY <1>1, NotRunningIsSound DEF RestIsApplied, Rest
<1>4. MigratorLocks
  BY <1>1, <1>2 DEF MigratorLocks
<1> QED
  BY <1>1, <1>3, <1>4, NotRunningIsSound DEF ServerInv

(* A process ends at any stage: killed, failing in a migration, or refused.   *)
LEMMA Ends ==
  ASSUME ServerInv, NEW i \in Instances, Become(i, NotRunning), UNCHANGED <<schema, recorded>>,
         lockTable' = lockTable \/ (lockTable' = FALSE /\ instances[i].at \in Migrating),
         abandoned' \in [Instances -> {"nothing", "killed", "cut off"}]
  PROVE  ServerInv'
<1>1. Becomes(i, NotRunning) /\ Sound(NotRunning) /\ Rest(NotRunning, schema')
  BY NotRunningIsSound DEF Becomes, Become
<1>2. NotRunning.at \notin Migrating
  BY DEF NotRunning, Migrating
<1> HIDE DEF NotRunning
<1> QED
  BY <1>1, <1>2, OneMoves DEF ServerInv

(* Steps that move an instance while the tables stay.                         *)
LEMMA TablesStay ==
  ASSUME ServerInv, NEW i \in Instances, NEW n, Becomes(i, n), UNCHANGED Tables,
         Sound(n), Rest(n, schema), n.at \notin Migrating \/ instances[i].at \in Migrating
  PROVE  ServerInv'
<1>1. n.at \in Migrating => lockTable
  BY DEF ServerInv, MigratorLocks
<1> QED
  BY <1>1, OneMoves DEF ServerInv, Tables

(* What the invariant says of an instance.                                    *)
Row(i) == instances[i] \in InstanceRow /\ Sound(instances[i]) /\ Rest(instances[i], schema)

(* It holds of every one of them.                                             *)
LEMMA Rows == ASSUME ServerInv, NEW i \in Instances PROVE Row(i)
  BY DEF ServerInv, RestIsApplied, Rest, Row

(* A process starts: it is reading what is applied.                           *)
LEMMA StartsReading ==
  ASSUME ServerInv, NEW i \in Instances, NEW build \in Builds, Migrations(i, build)
  PROVE  ServerInv'
<1> DEFINE n == [NotRunning EXCEPT !.at = "reading", !.build = build]
<1>1. Row(i) /\ schema = recorded /\ schema \subseteq Files
  BY Rows DEF ServerInv
<1>2. n \in InstanceRow
  BY <1>1, ServerAssumption DEF Row, InstanceRow, Stages, Units, Migrating, Is, Migrations, NotRunning
<1>3. Sound(n) /\ Rest(n, schema) /\ (n.at \notin Migrating \/ instances[i].at \in Migrating)
  BY <1>1, ServerAssumption DEF Row, InstanceRow, Sound, Rest, Migrating, Is, Migrations, NotRunning
<1>4. Becomes(i, n) /\ UNCHANGED Tables
  BY <1>2 DEF Becomes, Become, Tables, Migrations, NotRunning
<1> HIDE DEF n
<1> QED
  BY <1>3, <1>4, TablesStay

(* What is not recorded is left to run.                                       *)
LEMMA Reads ==
  ASSUME ServerInv, NEW i \in Instances, ReadApplied(i)
  PROVE  ServerInv'
<1> DEFINE n == [instances[i] EXCEPT !.toRun = instances[i].build \ recorded,
                          !.at = IF instances[i].build \ recorded = {} THEN "checking" ELSE "locking"]
<1>1. Row(i) /\ schema = recorded /\ schema \subseteq Files
  BY Rows DEF ServerInv
<1>2. n \in InstanceRow
  BY <1>1, ServerAssumption DEF Row, InstanceRow, Stages, Units, Migrating, Is, ReadApplied
<1>3. Sound(n) /\ Rest(n, schema) /\ (n.at \notin Migrating \/ instances[i].at \in Migrating)
  BY <1>1, ServerAssumption DEF Row, InstanceRow, Sound, Rest, Migrating, Is, ReadApplied
<1>4. Becomes(i, n) /\ UNCHANGED Tables
  BY <1>2 DEF Becomes, Become, Tables, ReadApplied
<1> HIDE DEF n
<1> QED
  BY <1>3, <1>4, TablesStay

(* The first migration left is run.                                           *)
LEMMA Executes ==
  ASSUME ServerInv, NEW i \in Instances, migrate(i), File(i) \notin schema
  PROVE  ServerInv'
<1> DEFINE n == [instances[i] EXCEPT !.at = "executed"]
<1>1. Row(i) /\ schema = recorded /\ schema \subseteq Files
  BY Rows DEF ServerInv
<1>2. n \in InstanceRow
  BY <1>1, ServerAssumption DEF Row, InstanceRow, Stages, Units, Migrating, Is, migrate, Onto
<1>3. Sound(n) /\ Rest(n, schema) /\ (n.at \notin Migrating \/ instances[i].at \in Migrating)
  BY <1>1, ServerAssumption DEF Row, InstanceRow, Sound, Rest, Migrating, Is, migrate, Onto
<1>4. Becomes(i, n) /\ UNCHANGED Tables
  BY <1>2 DEF Becomes, Become, Tables, migrate, Onto
<1> HIDE DEF n
<1> QED
  BY <1>3, <1>4, TablesStay

(* The check passed.                                                          *)
LEMMA Serves ==
  ASSUME ServerInv, NEW i \in Instances, serve(i), AssertRLSEnforced(i)
  PROVE  ServerInv'
<1> DEFINE n == [instances[i] EXCEPT !.at = "serving"]
<1>1. Row(i) /\ schema = recorded /\ schema \subseteq Files
  BY Rows DEF ServerInv
<1>2. n \in InstanceRow
  BY <1>1, ServerAssumption DEF Row, InstanceRow, Stages, Units, Migrating, Is, serve, Onto,
          AssertRLSEnforced
<1>3. Sound(n) /\ Rest(n, schema) /\ (n.at \notin Migrating \/ instances[i].at \in Migrating)
  BY <1>1, ServerAssumption DEF Row, InstanceRow, Sound, Rest, Migrating, Is, serve, Onto,
          AssertRLSEnforced
<1>4. Becomes(i, n) /\ UNCHANGED Tables
  BY <1>2 DEF Becomes, Become, Tables, serve, Onto, AssertRLSEnforced
<1> HIDE DEF n
<1> QED
  BY <1>3, <1>4, TablesStay

(* A request arrives.                                                         *)
LEMMA Takes ==
  ASSUME ServerInv, NEW i \in Instances, TakeRequest(i)
  PROVE  ServerInv'
<1> DEFINE n == [instances[i] EXCEPT !.requests = TRUE]
<1>1. Row(i) /\ schema = recorded /\ schema \subseteq Files
  BY Rows DEF ServerInv
<1>2. n \in InstanceRow
  BY <1>1, ServerAssumption DEF Row, InstanceRow, Stages, Units, Migrating, Is, TakeRequest
<1>3. Sound(n) /\ Rest(n, schema) /\ (n.at \notin Migrating \/ instances[i].at \in Migrating)
  BY <1>1, ServerAssumption DEF Row, InstanceRow, Sound, Rest, Migrating, Is, TakeRequest
<1>4. Becomes(i, n) /\ UNCHANGED Tables
  BY <1>2 DEF Becomes, Become, Tables, TakeRequest
<1> HIDE DEF n
<1> QED
  BY <1>3, <1>4, TablesStay

(* A request is answered.                                                     *)
LEMMA Answers ==
  ASSUME ServerInv, NEW i \in Instances, AnswerRequests(i)
  PROVE  ServerInv'
<1> DEFINE n == [instances[i] EXCEPT !.requests = FALSE]
<1>1. Row(i) /\ schema = recorded /\ schema \subseteq Files
  BY Rows DEF ServerInv
<1>2. n \in InstanceRow
  BY <1>1, ServerAssumption DEF Row, InstanceRow, Stages, Units, Migrating, Is, AnswerRequests
<1>3. Sound(n) /\ Rest(n, schema) /\ (n.at \notin Migrating \/ instances[i].at \in Migrating)
  BY <1>1, ServerAssumption DEF Row, InstanceRow, Sound, Rest, Migrating, Is, AnswerRequests
<1>4. Becomes(i, n) /\ UNCHANGED Tables
  BY <1>2 DEF Becomes, Become, Tables, AnswerRequests
<1> HIDE DEF n
<1> QED
  BY <1>3, <1>4, TablesStay

(* The signal comes.                                                          *)
LEMMA IsSignalled ==
  ASSUME ServerInv, NEW i \in Instances, Signal(i)
  PROVE  ServerInv'
<1> DEFINE n == [instances[i] EXCEPT !.at = "draining", !.stopping = TRUE, !.left = Grace]
<1>1. Row(i) /\ schema = recorded /\ schema \subseteq Files
  BY Rows DEF ServerInv
<1>2. n \in InstanceRow
  BY <1>1, ServerAssumption DEF Row, InstanceRow, Stages, Units, Migrating, Is, Signal
<1>3. Sound(n) /\ Rest(n, schema) /\ (n.at \notin Migrating \/ instances[i].at \in Migrating)
  BY <1>1, ServerAssumption DEF Row, InstanceRow, Sound, Rest, Migrating, Is, Signal
<1>4. Becomes(i, n) /\ UNCHANGED Tables
  BY <1>2 DEF Becomes, Become, Tables, Signal
<1> HIDE DEF n
<1> QED
  BY <1>3, <1>4, TablesStay

(* Time passes.                                                               *)
LEMMA Drains ==
  ASSUME ServerInv, NEW i \in Instances, Drain(i)
  PROVE  ServerInv'
<1> DEFINE n == [instances[i] EXCEPT !.left = @ - 1]
<1>1. Row(i) /\ schema = recorded /\ schema \subseteq Files
  BY Rows DEF ServerInv
<1>a. /\ instances[i].left - 1 \in Nat /\ instances[i].left - 1 <= Grace
      /\ instances[i].at = "draining" /\ instances[i] \in InstanceRow
  <2>1. instances[i].left \in Nat /\ instances[i].left > 0 /\ instances[i].left <= Grace
    BY <1>1 DEF Row, InstanceRow, Sound, Drain
  <2> QED
    BY <1>1, <2>1, ServerAssumption DEF Row, Is, Drain
<1>2. n \in InstanceRow
  BY <1>a DEF InstanceRow
<1>3. Sound(n) /\ Rest(n, schema) /\ (n.at \notin Migrating \/ instances[i].at \in Migrating)
  BY <1>1, <1>a DEF Row, InstanceRow, Sound, Rest, Migrating
<1>4. Becomes(i, n) /\ UNCHANGED Tables
  BY <1>2 DEF Becomes, Become, Tables, Drain
<1> HIDE DEF n
<1> QED
  BY <1>3, <1>4, TablesStay

(* Requests are over.                                                         *)
LEMMA ShutsDown ==
  ASSUME ServerInv, NEW i \in Instances, Shutdown(i)
  PROVE  ServerInv'
<1> DEFINE n == [instances[i] EXCEPT !.at = "waiting"]
<1>1. Row(i) /\ schema = recorded /\ schema \subseteq Files
  BY Rows DEF ServerInv
<1>2. n \in InstanceRow
  BY <1>1, ServerAssumption DEF Row, InstanceRow, Stages, Units, Migrating, Is, Shutdown, Onto
<1>3. Sound(n) /\ Rest(n, schema) /\ (n.at \notin Migrating \/ instances[i].at \in Migrating)
  BY <1>1, ServerAssumption DEF Row, InstanceRow, Sound, Rest, Migrating, Is, Shutdown, Onto
<1>4. Becomes(i, n) /\ UNCHANGED Tables
  BY <1>2 DEF Becomes, Become, Tables, Shutdown, Onto
<1> HIDE DEF n
<1> QED
  BY <1>3, <1>4, TablesStay

(* A unit of work begins, unless its context is cancelled.                    *)
LEMMA Begins ==
  ASSUME ServerInv, NEW i \in Instances, runOnce(i)
  PROVE  ServerInv'
<1> DEFINE n == BeginUnit(i)
<1>1. Row(i) /\ Working(i)
  BY Rows DEF runOnce
<1>2. n \in InstanceRow
  BY <1>1 DEF Row, InstanceRow, Units, BeginUnit
<1>3. Sound(n) /\ Rest(n, schema) /\ n.at = instances[i].at
  BY <1>1, ServerAssumption DEF Row, InstanceRow, Sound, Rest, Working, BeginUnit
<1>4. Becomes(i, n) /\ UNCHANGED Tables
  BY <1>2 DEF Becomes, Become, runOnce
<1> HIDE DEF n
<1> QED
  BY <1>3, <1>4, TablesStay

(* COMMIT is sent before the signal.                                          *)
LEMMA Commits ==
  ASSUME ServerInv, NEW i \in Instances, CommitUnit(i)
  PROVE  ServerInv'
<1> DEFINE n == [instances[i] EXCEPT !.unit = "committing"]
<1>1. Row(i) /\ Working(i) /\ instances[i].stopping = FALSE /\ instances[i].late = FALSE
  BY Rows DEF CommitUnit, Cancelled, Row, InstanceRow
<1>2. n \in InstanceRow
  BY <1>1 DEF Row, InstanceRow, Units
<1>3. Sound(n) /\ Rest(n, schema) /\ n.at = instances[i].at
  BY <1>1, ServerAssumption DEF Row, InstanceRow, Sound, Rest, Working
<1>4. Becomes(i, n) /\ UNCHANGED Tables
  <2>1. [instances[i] EXCEPT !.unit = "committing", !.late = @ \/ instances[i].stopping] = n
    BY <1>1 DEF Row, InstanceRow
  <2> QED
    BY <1>2, <2>1 DEF Becomes, Become, CommitUnit
<1> HIDE DEF n
<1> QED
  BY <1>3, <1>4, TablesStay

(* A unit of work ends, committed or not.                                     *)
LEMMA UnitEnds ==
  ASSUME ServerInv, NEW i \in Instances, EndUnit(i)
  PROVE  ServerInv'
<1> DEFINE n == [instances[i] EXCEPT !.unit = "none"]
<1>1. Row(i) /\ Working(i)
  BY Rows DEF EndUnit
<1>2. n \in InstanceRow
  BY <1>1 DEF Row, InstanceRow, Units
<1>3. Sound(n) /\ Rest(n, schema) /\ n.at = instances[i].at
  BY <1>1, ServerAssumption DEF Row, InstanceRow, Sound, Rest, Working
<1>4. Becomes(i, n) /\ UNCHANGED Tables
  BY <1>2 DEF Becomes, Become, EndUnit
<1> HIDE DEF n
<1> QED
  BY <1>3, <1>4, TablesStay

(* What is abandoned was killed, or cut off when the workers were done.       *)
LEMMA Leaves ==
  ASSUME ServerInv, NEW i \in Instances, NEW how \in {"nothing", "killed", "cut off"}, Leave(i, how)
  PROVE  abandoned' \in [Instances -> {"nothing", "killed", "cut off"}]
  BY DEF ServerInv, Leave

(* The process is killed, or returns once its workers have.                   *)
LEMMA Stops ==
  ASSUME ServerInv, NEW i \in Instances, Stop(i) \/ Killed(i)
  PROVE  ServerInv'
<1>1. Become(i, NotRunning) /\ UNCHANGED <<schema, recorded, lockTable>>
  BY DEF Stop, Killed
<1>2. \E how \in {"nothing", "killed", "cut off"} : Leave(i, how)
  BY DEF Stop, WorkersWait, Killed
<1> QED
  BY <1>1, <1>2, Leaves, Ends

(* The database ends what was abandoned.                                      *)
LEMMA SessionsEnd ==
  ASSUME ServerInv, NEW i \in Instances, SessionEnds(i)
  PROVE  ServerInv'
<1>1. abandoned' \in [Instances -> {"nothing", "killed", "cut off"}]
  BY DEF SessionEnds, ServerInv
<1> QED
  BY <1>1 DEF SessionEnds, ServerInv, RestIsApplied, MigratorLocks

(* The lock table is made by one that finds none.                             *)
LEMMA Locks ==
  ASSUME ServerInv, NEW i \in Instances, CreateLock(i), ~lockTable
  PROVE  ServerInv'
<1> DEFINE n == [instances[i] EXCEPT !.at = "migrating"]
<1>1. Row(i) /\ instances[i].at = "locking" /\ schema = recorded /\ schema \subseteq Files
  BY Rows DEF ServerInv, CreateLock, Is
<1>2. n \in InstanceRow
  BY <1>1 DEF Row, InstanceRow, Stages, Migrating
<1>3. Sound(n) /\ Rest(n, schema) /\ n.at \in Migrating
  BY <1>1, ServerAssumption DEF Row, InstanceRow, Sound, Rest, Migrating
<1>4. Becomes(i, n) /\ lockTable' /\ UNCHANGED <<schema, recorded>>
  BY <1>2 DEF Becomes, Become, CreateLock, Onto
<1>5. lockTable' \in BOOLEAN /\ abandoned' \in [Instances -> {"nothing", "killed", "cut off"}]
  BY DEF CreateLock, ServerInv
<1> HIDE DEF n
<1> QED
  BY <1>1, <1>3, <1>4, <1>5, OneMoves

(* The statements and the row of a migration are committed together.          *)
LEMMA Migrates ==
  ASSUME ServerInv, NEW i \in Instances, MigrationCommits(i)
  PROVE  ServerInv'
<1> DEFINE n == [instances[i] EXCEPT !.toRun = @ \ {File(i)}, !.at = "migrating"]
<1>1. Row(i) /\ instances[i].at = "executed" /\ schema = recorded /\ schema \subseteq Files
  BY Rows DEF ServerInv, MigrationCommits, Is
<1>2. File(i) \in instances[i].toRun /\ instances[i].toRun \subseteq Files
  BY <1>1, FileIsFirst DEF Row, Sound, InstanceRow
<1> HIDE DEF File
<1>3. n \in InstanceRow
  BY <1>1 DEF Row, InstanceRow, Stages, Migrating
<1>4. Sound(n) /\ Rest(n, schema \union {File(i)}) /\ n.at \in Migrating
  BY <1>1, <1>2, ServerAssumption DEF Row, InstanceRow, Sound, Rest, Migrating
<1>5. /\ Becomes(i, n) /\ lockTable' = lockTable
      /\ schema' = schema \union {File(i)} /\ recorded' = recorded \union {File(i)}
  BY <1>3 DEF Becomes, Become, MigrationCommits
<1>6. instances[i].at \in Migrating /\ lockTable
  BY <1>1 DEF ServerInv, MigratorLocks, Migrating
<1>7. abandoned' \in [Instances -> {"nothing", "killed", "cut off"}]
  BY DEF MigrationCommits, ServerInv
<1> HIDE DEF n
<1> QED
  BY <1>1, <1>2, <1>4, <1>5, <1>6, <1>7, OneMoves

(* With nothing left to run the lock table goes.                              *)
LEMMA Unlocks ==
  ASSUME ServerInv, NEW i \in Instances, DropLock(i)
  PROVE  ServerInv'
<1> DEFINE n == [instances[i] EXCEPT !.at = "checking"]
<1>1. /\ Row(i) /\ instances[i].at = "migrating" /\ instances[i].toRun = {}
      /\ schema = recorded /\ schema \subseteq Files
  BY Rows DEF ServerInv, DropLock, Is
<1>2. n \in InstanceRow
  BY <1>1 DEF Row, InstanceRow, Stages
<1>3. Sound(n) /\ Rest(n, schema) /\ n.at \notin Migrating /\ instances[i].at \in Migrating
  BY <1>1, ServerAssumption DEF Row, InstanceRow, Sound, Rest, Migrating
<1>4. Becomes(i, n) /\ lockTable' = FALSE /\ UNCHANGED <<schema, recorded>>
  BY <1>2 DEF Becomes, Become, DropLock, Onto
<1>5. abandoned' \in [Instances -> {"nothing", "killed", "cut off"}]
  BY DEF DropLock, ServerInv
<1> HIDE DEF n
<1> QED
  BY <1>1, <1>3, <1>4, <1>5, OneMoves

(* Every step keeps the invariant.                                            *)
LEMMA ServerSteps == ServerInv /\ [ServerNext]_serverVars => ServerInv'
<1> SUFFICES ASSUME ServerInv, [ServerNext]_serverVars PROVE ServerInv'
  OBVIOUS
<1>1. CASE UNCHANGED serverVars
  BY <1>1 DEF ServerInv, RestIsApplied, MigratorLocks, serverVars
<1>2. CASE ServerNext
  <2> PICK i \in Instances :
        \/ \E build \in Builds : Migrations(i, build)
        \/ ReadApplied(i) \/ CreateLock(i) \/ migrate(i) \/ MigrationCommits(i) \/ DropLock(i)
        \/ MigrationFails(i) \/ Killed(i) \/ SessionEnds(i)
        \/ serve(i) \/ TakeRequest(i) \/ AnswerRequests(i) \/ runOnce(i) \/ CommitUnit(i) \/ EndUnit(i)
        \/ Signal(i) \/ Drain(i) \/ Shutdown(i) \/ Stop(i)
    BY <1>2 DEF ServerNext
  <2>1. CASE \E build \in Builds : Migrations(i, build)
    BY <2>1, StartsReading
  <2>2. CASE ReadApplied(i)
    BY <2>2, Reads
  <2>3. CASE CreateLock(i)
    <3>1. CASE lockTable
      <4>1. Become(i, NotRunning) /\ UNCHANGED <<schema, recorded, abandoned>> /\ lockTable' = lockTable
        BY <2>3, <3>1 DEF CreateLock, ServerInv
      <4> QED
        BY <4>1, Ends DEF ServerInv
    <3> QED
      BY <2>3, <3>1, Locks
  <2>4. CASE migrate(i)
    <3>1. CASE File(i) \in schema
      <4>1. /\ Become(i, NotRunning) /\ UNCHANGED <<schema, recorded, abandoned>> /\ lockTable' = FALSE
            /\ instances[i].at \in Migrating
        BY <2>4, <3>1 DEF migrate, Is, Migrating
      <4> QED
        BY <4>1, Ends DEF ServerInv
    <3> QED
      BY <2>4, <3>1, Executes
  <2>5. CASE MigrationCommits(i)
    BY <2>5, Migrates
  <2>6. CASE DropLock(i)
    BY <2>6, Unlocks
  <2>7. CASE MigrationFails(i)
    <3>1. /\ Become(i, NotRunning) /\ UNCHANGED <<schema, recorded, abandoned>> /\ lockTable' = FALSE
          /\ instances[i].at \in Migrating
      BY <2>7 DEF MigrationFails
    <3> QED
      BY <3>1, Ends DEF ServerInv
  <2>8. CASE Killed(i)
    BY <2>8, Stops
  <2>9. CASE serve(i)
    <3>1. CASE ~AssertRLSEnforced(i)
      <4>1. Become(i, NotRunning) /\ UNCHANGED Tables
        BY <2>9, <3>1 DEF serve
      <4> QED
        BY <4>1, Ends DEF Tables, ServerInv
    <3> QED
      BY <2>9, <3>1, Serves
  <2>10. CASE TakeRequest(i)
    BY <2>10, Takes
  <2>11. CASE AnswerRequests(i)
    BY <2>11, Answers
  <2>12. CASE runOnce(i)
    BY <2>12, Begins
  <2>13. CASE EndUnit(i)
    BY <2>13, UnitEnds
  <2>18. CASE CommitUnit(i)
    BY <2>18, Commits
  <2>19. CASE SessionEnds(i)
    BY <2>19, SessionsEnd
  <2>14. CASE Signal(i)
    BY <2>14, IsSignalled
  <2>15. CASE Drain(i)
    BY <2>15, Drains
  <2>16. CASE Shutdown(i)
    BY <2>16, ShutsDown
  <2>17. CASE Stop(i)
    BY <2>17, Stops
  <2> QED
    BY <2>1, <2>2, <2>3, <2>4, <2>5, <2>6, <2>7, <2>8, <2>9, <2>10, <2>11, <2>12, <2>13,
       <2>14, <2>15, <2>16, <2>17, <2>18, <2>19
<1> QED
  BY <1>1, <1>2

(* One that migrates is the only one.                                         *)
LEMMA MigratesAlone == ServerInv => OneMigrates
<1> SUFFICES ASSUME ServerInv PROVE OneMigrates
  OBVIOUS
<1> DEFINE S == {i \in Instances : instances[i].at \in Migrating}
<1>1. CASE S = {}
  BY <1>1, FS_EmptySet DEF OneMigrates
<1>2. ASSUME NEW i \in S PROVE OneMigrates
  <2>1. S = {i}
    BY DEF ServerInv, MigratorLocks
  <2>2. Cardinality(S) = 1
    BY <2>1, FS_Singleton
  <2> QED
    BY <2>2 DEF OneMigrates
<1> QED
  BY <1>1, <1>2

(* A process is migrated before it serves and done when it stops, whichever   *)
(* other starts, serves or dies beside it (database.go, rls.go, worker.go,    *)
(* main.go).                                                                  *)
THEOREM ServesWhole == ServerSpec => []StartsAndStopsWhole
<1>1. ServerInv => StartsAndStopsWhole
  <2> SUFFICES ASSUME ServerInv PROVE StartsAndStopsWhole
    OBVIOUS
  <2>2. ServesMigrated
    BY DEF ServerInv, ServesMigrated, RestIsApplied
  <2>3. NothingAfterSignal
    BY DEF ServerInv, NothingAfterSignal, Sound, InstanceRow, Units
  <2>4. ServerTypeOK
    <3>1. abandoned \in [Instances -> {"nothing", "killed", "stopped", "cut off"}]
      BY DEF ServerInv
    <3> QED
      BY <3>1 DEF ServerInv, ServerTypeOK, Sound, InstanceRow, Stages, MigratorLocks
  <2> QED
    BY <2>2, <2>3, <2>4, MigratesAlone DEF StartsAndStopsWhole
<1> QED
  BY <1>1, ServerStarts, ServerSteps, PTL DEF ServerSpec

----------------------------------------------------------------------------
(* EstEnrollment.                                                            *)

EndpointRow == [row : {"live", "deleted"}, enabled : BOOLEAN, same : BOOLEAN, always : BOOLEAN]
CredentialRow == [state : {"none", "live", "lapsed", "revoked", "deleted"},
                  name : Usernames \union {Absent}]
IssuedRow == [state : {"none", "fresh", "due", "over"}, op : {"enroll", "reenroll", Absent},
              row : BOOLEAN, cred : Creds \union {Absent}, subject : Subjects \union {Absent},
              key : PublicKeys \union {Absent}]
ClientRow == [at : {"idle", "known", "checked", "refused", "turned away"},
              op : {"enroll", "reenroll", Absent}, cred : Creds \union {Absent},
              subject : Subjects \union {Absent}, key : PublicKeys \union {Absent}, same : BOOLEAN]

EstRows ==
    /\ topic \in Topics /\ est \in EndpointRow
    /\ credentials \in [Creds -> CredentialRow] /\ issued \in [Issues -> IssuedRow]
    /\ refused \subseteq Creds /\ clients \in [Clients -> ClientRow]

Was(i) == issued[i].state # "none"
IsMinted(c) == c \in Creds /\ credentials[c].state # "none"
InForce(c) == credentials[c].state \in {"live", "lapsed"}

OneInForce == \A c, d \in Creds : InForce(c) /\ InForce(d) /\ NameOf(c) = NameOf(d) => c = d

IssuedInOrder == \A i, j \in Issues : Was(i) /\ j < i => Was(j)

(* Certificate j was enrolled by the username of credential c for subject s;  *)
(* under a policy that always required it, with key k.                        *)
Origin(j, c, s, k) ==
    /\ Was(j) /\ issued[j].op = "enroll" /\ issued[j].subject = s
    /\ NameOf(issued[j].cred) = NameOf(c)
    /\ est.always => issued[j].key = k

(* A certificate names a credential that was minted, and behind a renewed one *)
(* is an older one that its username enrolled.                                *)
CertificateFits(i) ==
    /\ Was(i) => IsMinted(issued[i].cred) /\ issued[i].op \in {"enroll", "reenroll"}
    /\ issued[i].op = "reenroll" => Was(i) /\ \E j \in Issues :
         j < i /\ Origin(j, issued[i].cred, issued[i].subject, issued[i].key)

(* So does a request, and there is an origin of what it may renew.            *)
ClientFits(w) ==
    /\ w.at # "idle" => IsMinted(w.cred)
    /\ w.at \in {"known", "checked"} => /\ w.op \in {"enroll", "reenroll"} /\ w.subject \in Subjects
                                        /\ w.key \in PublicKeys /\ (est.always => w.same)
    /\ w.at = "checked" /\ w.op = "reenroll" =>
         \E j \in Issues : Origin(j, w.cred, w.subject, w.key)

EstInv ==
    /\ EstRows /\ (est.always => est.same) /\ OneInForce /\ IssuedInOrder
    /\ \A i \in Issues : CertificateFits(i)
    /\ \A r \in Clients : ClientFits(clients[r])

(* What is minted keeps its name and what is issued its enrollment; a policy  *)
(* that did not always require the key never will have.                       *)
NothingForgotten ==
    /\ \A c \in Creds : IsMinted(c) => IsMinted(c)' /\ NameOf(c)' = NameOf(c)
    /\ \A i \in Issues : Was(i) =>
         /\ Was(i)' /\ issued'[i].op = issued[i].op /\ issued'[i].cred = issued[i].cred
         /\ issued'[i].subject = issued[i].subject /\ issued'[i].key = issued[i].key
    /\ est'.always => est.always

(* So an origin remains one.                                                  *)
LEMMA OriginStays ==
  ASSUME EstInv, NothingForgotten, NEW j \in Issues, NEW c, IsMinted(c), NEW s, NEW k, Origin(j, c, s, k)
  PROVE  Origin(j, c, s, k)'
<1>1. Was(j) /\ IsMinted(issued[j].cred) /\ NameOf(issued[j].cred) = NameOf(c)
  BY DEF Origin, EstInv, CertificateFits
<1>2. /\ Was(j)' /\ issued'[j].op = issued[j].op /\ issued'[j].cred = issued[j].cred
      /\ issued'[j].subject = issued[j].subject /\ issued'[j].key = issued[j].key
  BY <1>1 DEF NothingForgotten
<1>3. NameOf(issued[j].cred)' = NameOf(c)'
  <2>1. \A d : IsMinted(d) => NameOf(d)' = NameOf(d)
    BY DEF NothingForgotten, IsMinted
  <2>2. credentials'[issued[j].cred].name = credentials[issued[j].cred].name
    BY <1>1, <2>1 DEF NothingForgotten, IsMinted, NameOf
  <2> QED
    BY <1>1, <1>2, <2>1, <2>2 DEF NameOf
<1> QED
  BY <1>2, <1>3 DEF Origin, NothingForgotten

(* A request goes on as it is, whatever others do.                            *)
LEMMA ClientStays ==
  ASSUME EstInv, NothingForgotten, NEW w, ClientFits(w)
  PROVE  ClientFits(w)'
<1>1. w.at # "idle" => IsMinted(w.cred) /\ IsMinted(w.cred)'
  BY DEF ClientFits, NothingForgotten, IsMinted
<1>2. ASSUME w.at = "checked", w.op = "reenroll"
      PROVE  \E j \in Issues : Origin(j, w.cred, w.subject, w.key)'
  <2>1. PICK j \in Issues : Origin(j, w.cred, w.subject, w.key)
    BY <1>2 DEF ClientFits
  <2> QED
    BY <1>1, <1>2, <2>1, OriginStays
<1> QED
  BY <1>1, <1>2 DEF ClientFits, NothingForgotten

(* And so does a certificate.                                                 *)
LEMMA CertificateStays ==
  ASSUME EstInv, NothingForgotten, NEW i \in Issues, issued'[i].op = issued[i].op, Was(i)' => Was(i)
  PROVE  CertificateFits(i)'
<1>1. CertificateFits(i)
  BY DEF EstInv
<1>2. CASE ~Was(i)
  BY <1>1, <1>2 DEF CertificateFits
<1>3. CASE Was(i)
  <2>1. PICK c, s, k : c = issued[i].cred /\ s = issued[i].subject /\ k = issued[i].key
    OBVIOUS
  <2>2. /\ Was(i)' /\ issued'[i].op = issued[i].op /\ issued'[i].cred = c
        /\ issued'[i].subject = s /\ issued'[i].key = k
    BY <1>3, <2>1 DEF NothingForgotten
  <2>3. IsMinted(c) /\ IsMinted(c)'
    BY <1>1, <1>3, <2>1 DEF CertificateFits, NothingForgotten, IsMinted
  <2>4. ASSUME issued[i].op = "reenroll" PROVE \E j \in Issues : j < i /\ Origin(j, c, s, k)'
    <3>1. PICK j \in Issues : j < i /\ Origin(j, c, s, k)
      BY <1>1, <2>1, <2>4 DEF CertificateFits
    <3> QED
      BY <2>3, <3>1, OriginStays
  <2> QED
    BY <1>1, <1>3, <2>2, <2>3, <2>4 DEF CertificateFits, Origin, IsMinted, NameOf
<1> QED
  BY <1>2, <1>3

(* A request takes a step of its own, to where it fits.                       *)
LEMMA ClientMoves ==
  ASSUME EstInv, NEW r \in Clients, NEW w \in ClientRow, ClientFits(w),
         clients' = [clients EXCEPT ![r] = w],
         UNCHANGED <<topic, est, credentials, issued>>, refused' \subseteq Creds
  PROVE  EstInv'
<1>1. NothingForgotten
  BY DEF NothingForgotten, IsMinted, NameOf, Was
<1>2. EstRows'
  BY DEF EstInv, EstRows
<1>3. \A q \in Clients : ClientFits(clients[q])'
  <2>1. ASSUME NEW q \in Clients, NEW v, v = clients'[q] PROVE ClientFits(v)'
    <3>1. v = w \/ v = clients[q]
      BY <2>1 DEF EstInv, EstRows
    <3> QED
      BY <1>1, <3>1, ClientStays DEF EstInv
  <2> QED
    BY <2>1 DEF ClientFits
<1>4. \A i \in Issues : CertificateFits(i)'
  BY <1>1, CertificateStays DEF Was
<1> QED
  BY <1>2, <1>3, <1>4 DEF EstInv, OneInForce, IssuedInOrder, InForce, NameOf, Was

(* A request that ends fits everywhere.                                       *)
LEMMA EndFits == NoClient \in ClientRow /\ ClientFits(NoClient)
  BY DEF NoClient, ClientRow, ClientFits

(* The password is of a credential, and the policy is read with it.           *)
LEMMA Authenticates ==
  ASSUME EstInv, NEW r \in Clients, NEW c \in Creds, NEW op \in {"enroll", "reenroll"},
         NEW s \in Subjects, NEW k \in PublicKeys, AuthenticateEst(r, c, op, s, k)
  PROVE  EstInv'
<1> DEFINE known == [at |-> "known", op |-> op, cred |-> c, subject |-> s, key |-> k,
                     same |-> est.same]
           away == [NoClient EXCEPT !.at = "turned away", !.cred = c]
<1>1. IsMinted(c) /\ est.same \in BOOLEAN /\ (est.always => est.same)
  BY DEF AuthenticateEst, IsMinted, EstInv, EstRows, EndpointRow
<1>2. known \in ClientRow /\ ClientFits(known)
  BY <1>1 DEF ClientRow, ClientFits
<1>3. away \in ClientRow /\ ClientFits(away)
  BY <1>1 DEF ClientRow, ClientFits, NoClient
<1>4. clients' = [clients EXCEPT ![r] = known] \/ clients' = [clients EXCEPT ![r] = away]
  BY DEF AuthenticateEst
<1>5. UNCHANGED <<topic, est, credentials, issued>> /\ refused' \subseteq Creds
  BY DEF AuthenticateEst, EstInv, EstRows
<1> HIDE DEF known, away
<1> QED
  BY <1>2, <1>3, <1>4, <1>5, ClientMoves

(* An answer, a refusal with its row or a failure ends the request.           *)
LEMMA ClientEnds ==
  ASSUME EstInv, NEW r \in Clients, unauthorized(r) \/ RollBack(r) \/ RecordFailure(r)
  PROVE  EstInv'
<1>1. clients[r].at = "refused" => clients[r].cred \in Creds
  BY DEF EstInv, ClientFits, IsMinted
<1>2. EndClient(r) /\ UNCHANGED <<topic, est, credentials, issued>> /\ refused' \subseteq Creds
  BY <1>1 DEF unauthorized, RollBack, RecordFailure, EstInv, EstRows
<1> QED
  BY <1>2, EndFits, ClientMoves DEF EndClient

(* A request that is refused, or may enrol, needs no origin.                  *)
LEMMA VerdictMoves ==
  ASSUME EstInv, NEW r \in Clients, NEW verdict \in {"checked", "refused"}, clients[r].at = "known",
         clients' = [clients EXCEPT ![r].at = verdict],
         UNCHANGED <<topic, est, credentials, issued, refused>>,
         verdict = "checked" /\ clients[r].op = "reenroll" =>
           \E j \in Issues : Origin(j, clients[r].cred, clients[r].subject, clients[r].key)
  PROVE  EstInv'
<1> DEFINE w == [clients[r] EXCEPT !.at = verdict]
<1>1. clients[r] \in ClientRow /\ ClientFits(clients[r])
  BY DEF EstInv, EstRows
<1>2. /\ w \in ClientRow /\ w.at = verdict /\ w.op = clients[r].op /\ w.cred = clients[r].cred
      /\ w.subject = clients[r].subject /\ w.key = clients[r].key /\ w.same = clients[r].same
  BY <1>1 DEF ClientRow
<1>3. clients' = [clients EXCEPT ![r] = w]
  BY DEF EstInv, EstRows
<1> HIDE DEF w
<1>4. ClientFits(w)
  BY <1>1, <1>2 DEF ClientFits
<1> QED
  BY <1>2, <1>3, <1>4, ClientMoves DEF EstInv, EstRows

(* The names are checked; an enrollment needs no more.                       *)
LEMMA ChecksNames == ASSUME EstInv, NEW r \in Clients, checkNames(r) PROVE EstInv'
  BY VerdictMoves DEF checkNames

(* The certificate that is renewed has an origin, or is one.                  *)
LEMMA Renews ==
  ASSUME EstInv, NEW r \in Clients, Reenroll(r)
  PROVE  EstInv'
<1> DEFINE req == clients[r]
<1>1. req.at = "known" /\ UNCHANGED <<topic, est, credentials, issued, refused>>
  BY DEF Reenroll
<1>2. CASE clients' = [clients EXCEPT ![r].at = "refused"]
  BY <1>1, <1>2, VerdictMoves
<1>3. ASSUME NEW i \in RenewableCertificate(req.cred, req.subject), req.same => samePublicKey(i, req.key)
      PROVE  \E j \in Issues : Origin(j, req.cred, req.subject, req.key)
  <2>1. /\ i \in Issues /\ Was(i) /\ issued[i].subject = req.subject
        /\ NameOf(issued[i].cred) = NameOf(req.cred)
    BY <1>3 DEF RenewableCertificate, Alive, Was
  <2>2. est.always => issued[i].key = req.key
    BY <1>1, <1>3 DEF EstInv, ClientFits, samePublicKey
  <2>3. CASE issued[i].op = "enroll"
    BY <2>1, <2>2, <2>3 DEF Origin
  <2>4. CASE issued[i].op = "reenroll"
    <3>1. PICK j \in Issues : Origin(j, issued[i].cred, issued[i].subject, issued[i].key)
      BY <2>1, <2>4 DEF EstInv, CertificateFits
    <3> QED
      BY <2>1, <2>2, <3>1 DEF Origin
  <2> QED
    BY <2>1, <2>3, <2>4 DEF EstInv, CertificateFits
<1>4. ASSUME NEW i \in RenewableCertificate(req.cred, req.subject), NEW due \in BOOLEAN,
             LET allowed == due /\ (req.same => samePublicKey(i, req.key))
             IN clients' = [clients EXCEPT ![r].at = IF allowed THEN "checked" ELSE "refused"]
      PROVE  EstInv'
  <2>1. CASE req.same => samePublicKey(i, req.key)
    <3>1. \E j \in Issues : Origin(j, req.cred, req.subject, req.key)
      BY <1>3, <2>1
    <3>2. clients' = [clients EXCEPT ![r].at = IF due THEN "checked" ELSE "refused"]
      BY <1>4, <2>1
    <3> QED
      BY <1>1, <3>1, <3>2, VerdictMoves
  <2> QED
    BY <1>2, <1>4, <2>1
<1> QED
  BY <1>2, <1>4 DEF Reenroll

(* The certificate is the next one; its origin is older.                      *)
LEMMA Enrols ==
  ASSUME EstInv, NEW r \in Clients, enroll(r)
  PROVE  EstInv'
<1> DEFINE req == clients[r]
<1>1. req.at = "checked" /\ req \in ClientRow /\ ClientFits(req)
  BY DEF enroll, EstInv, EstRows
<1>2. EndClient(r) /\ UNCHANGED <<topic, est, credentials, refused>>
  BY DEF enroll
<1>3. CASE UNCHANGED issued
  BY <1>2, <1>3, EndFits, ClientMoves DEF EndClient, EstInv, EstRows
<1>4. ASSUME NEW i \in Issues, First(i, {j \in Issues : issued[j].state = "none"}),
             issued' = [issued EXCEPT ![i] =
               [state |-> "fresh", op |-> req.op, row |-> TRUE, cred |-> req.cred,
                subject |-> req.subject, key |-> req.key]]
      PROVE  EstInv'
  <2> DEFINE w == [state |-> "fresh", op |-> req.op, row |-> TRUE, cred |-> req.cred,
                   subject |-> req.subject, key |-> req.key]
  <2>1. /\ w \in IssuedRow /\ w.state = "fresh" /\ w.op = req.op /\ w.cred = req.cred
        /\ w.subject = req.subject /\ w.key = req.key
    BY <1>1 DEF IssuedRow, ClientFits, IsMinted
  <2>2. /\ issued' \in [Issues -> IssuedRow] /\ issued'[i] = w
        /\ \A j \in Issues \ {i} : issued'[j] = issued[j]
    BY <1>4, <2>1 DEF EstInv, EstRows
  <2> HIDE DEF w
  <2>3. ~Was(i) /\ \A j \in Issues : j < i => Was(j)
    BY <1>4, EstAssumption DEF First, Was
  <2>4. NothingForgotten
    BY <1>2, <2>2, <2>3 DEF NothingForgotten, IsMinted, NameOf, Was
  <2>5. CertificateFits(i)'
    <3>1. PICK c, s, k : c = req.cred /\ s = req.subject /\ k = req.key
      OBVIOUS
    <3>2. IsMinted(c) /\ IsMinted(c)' /\ req.op \in {"enroll", "reenroll"}
      BY <1>1, <2>4, <3>1 DEF ClientFits, NothingForgotten, IsMinted
    <3>3. ASSUME req.op = "reenroll" PROVE \E j \in Issues : j < i /\ Origin(j, c, s, k)'
      <4>1. PICK j \in Issues : Origin(j, c, s, k)
        BY <1>1, <3>1, <3>3 DEF ClientFits
      <4>2. j < i
        BY <2>3, <4>1, EstAssumption DEF Origin, EstInv, IssuedInOrder
      <4> QED
        BY <2>4, <3>2, <4>1, <4>2, OriginStays
    <3> QED
      BY <2>1, <2>2, <3>1, <3>2, <3>3 DEF CertificateFits, Origin, IsMinted, Was, NameOf
  <2>6. \A j \in Issues : CertificateFits(j)'
    BY <2>2, <2>4, <2>5, CertificateStays DEF Was
  <2>7. \A q \in Clients : ClientFits(clients[q])'
    <3>1. ASSUME NEW q \in Clients, NEW v, v = clients'[q] PROVE ClientFits(v)'
      <4>1. v = NoClient \/ v = clients[q]
        BY <1>2, <3>1 DEF EndClient, EstInv, EstRows
      <4> QED
        BY <2>4, <4>1, EndFits, ClientStays DEF EstInv
    <3> QED
      BY <3>1 DEF ClientFits
  <2>8. EstRows'
    BY <1>2, <2>2, EndFits DEF EndClient, EstInv, EstRows
  <2>9. IssuedInOrder'
    BY <2>1, <2>2, <2>3 DEF EstInv, IssuedInOrder, Was
  <2> QED
    BY <1>2, <2>6, <2>7, <2>8, <2>9 DEF EstInv, OneInForce, InForce, NameOf
<1> QED
  BY <1>3, <1>4 DEF enroll

(* What the administrator and time do to rows, with all requests staying.     *)
LEMMA RowsMove ==
  ASSUME EstInv, NothingForgotten, EstRows', OneInForce', est'.always => est'.same,
         UNCHANGED clients,
         \A i \in Issues : issued'[i].op = issued[i].op /\ (Was(i)' => Was(i))
  PROVE  EstInv'
<1>1. \A i \in Issues : CertificateFits(i)'
  BY CertificateStays
<1>2. \A q \in Clients : ClientFits(clients[q])'
  <2>1. ASSUME NEW q \in Clients, NEW v, v = clients[q] PROVE ClientFits(v)'
    BY <2>1, ClientStays DEF EstInv
  <2> QED
    BY <2>1 DEF ClientFits
<1>3. IssuedInOrder'
  BY DEF EstInv, IssuedInOrder, NothingForgotten
<1> QED
  BY <1>1, <1>2, <1>3 DEF EstInv

(* A name is given once among the credentials in force.                       *)
LEMMA Creates ==
  ASSUME EstInv, NEW c \in Creds, NEW n \in Usernames, createCredential(c, n)
  PROVE  EstInv'
<1> DEFINE w == [state |-> "live", name |-> n]
<1>1. w \in CredentialRow /\ w.state = "live" /\ w.name = n
  BY DEF CredentialRow
<1>2. /\ credentials' = [credentials EXCEPT ![c] = w] /\ credentials[c].state = "none"
      /\ UNCHANGED <<topic, est, issued, refused, clients>> /\ CreateCredential(n)
  BY DEF createCredential, First
<1> HIDE DEF w
<1>3. /\ credentials' \in [Creds -> CredentialRow] /\ credentials'[c] = w
      /\ \A d \in Creds \ {c} : credentials'[d] = credentials[d]
  BY <1>1, <1>2 DEF EstInv, EstRows
<1>4. EstRows'
  BY <1>2, <1>3 DEF EstInv, EstRows
<1>5. OneInForce'
  BY <1>1, <1>2, <1>3 DEF EstInv, OneInForce, InForce, NameOf, CreateCredential
<1>6. NothingForgotten
  BY <1>2, <1>3 DEF NothingForgotten, IsMinted, NameOf, Was
<1> QED
  BY <1>2, <1>4, <1>5, <1>6, RowsMove DEF EstInv, Was

(* A credential changes its state, and is in force only if it was.            *)
LEMMA CredentialStateSet ==
  ASSUME EstInv, NEW c \in Creds, NEW v \in {"lapsed", "revoked"}, InForce(c),
         credentials' = [credentials EXCEPT ![c].state = v],
         UNCHANGED <<topic, est, issued, refused, clients>>
  PROVE  EstInv'
<1> DEFINE w == [credentials[c] EXCEPT !.state = v]
<1>1. w \in CredentialRow /\ w.state = v /\ w.name = credentials[c].name
  BY DEF EstInv, EstRows, CredentialRow
<1>2. credentials' = [credentials EXCEPT ![c] = w]
  BY DEF EstInv, EstRows
<1> HIDE DEF w
<1>3. /\ credentials' \in [Creds -> CredentialRow] /\ credentials'[c] = w
      /\ \A d \in Creds \ {c} : credentials'[d] = credentials[d]
  BY <1>1, <1>2 DEF EstInv, EstRows
<1>4. EstRows'
  BY <1>3 DEF EstInv, EstRows
<1>5. OneInForce'
  BY <1>1, <1>3 DEF EstInv, OneInForce, InForce, NameOf
<1>6. NothingForgotten
  BY <1>1, <1>3 DEF NothingForgotten, IsMinted, InForce, NameOf, Was
<1> QED
  BY <1>4, <1>5, <1>6, RowsMove DEF EstInv, Was

(* A revoked credential is out of force.                                     *)
LEMMA Revokes == ASSUME EstInv, NEW c \in Creds, revokeEstCredential(c) PROVE EstInv'
  BY CredentialStateSet DEF revokeEstCredential, InForce

(* One whose time has passed is still in force, and its name taken.          *)
LEMMA Lapses == ASSUME EstInv, NEW c \in Creds, Usable(c) PROVE EstInv'
  BY CredentialStateSet DEF Usable, InForce

(* The policy that always required the key requires it now.                   *)
LEMMA EndpointSet ==
  ASSUME EstInv, NEW w \in EndpointRow, est' = w, w.always => w.same /\ est.always,
         UNCHANGED <<topic, credentials, issued, refused, clients>>
  PROVE  EstInv'
<1>1. NothingForgotten
  BY DEF NothingForgotten, IsMinted, NameOf, Was
<1>2. EstRows' /\ OneInForce'
  BY DEF EstInv, EstRows, OneInForce, InForce, NameOf
<1> QED
  BY <1>1, <1>2, RowsMove DEF EstInv, Was

(* Pausing leaves the policy alone.                                          *)
LEMMA Pauses == ASSUME EstInv, NEW on \in BOOLEAN, setEstEnabled(on) PROVE EstInv'
<1> DEFINE w == [est EXCEPT !.enabled = on]
<1>1. est \in EndpointRow
  BY DEF EstInv, EstRows
<1>2. w \in EndpointRow
  BY <1>1, Zenon DEF EndpointRow
<1>3. w.always = est.always /\ w.same = est.same
  BY <1>1 DEF EndpointRow
<1>4. est' = w /\ UNCHANGED <<topic, credentials, issued, refused, clients>>
  BY DEF setEstEnabled
<1> HIDE DEF w
<1> QED
  BY <1>2, <1>3, <1>4, EndpointSet DEF EstInv

(* The policy that is set joins what always was.                             *)
LEMMA ChangesPolicy == ASSUME EstInv, NEW same \in BOOLEAN, updateEstPolicy(same) PROVE EstInv'
<1> DEFINE w == [est EXCEPT !.same = same, !.always = @ /\ same]
<1>1. est \in EndpointRow
  BY DEF EstInv, EstRows
<1>2. w \in EndpointRow
  BY <1>1, Zenon DEF EndpointRow
<1>3. w.same = same /\ (w.always => est.always /\ same)
  BY <1>1 DEF EndpointRow
<1>4. est' = w /\ UNCHANGED <<topic, credentials, issued, refused, clients>>
  BY DEF updateEstPolicy
<1> HIDE DEF w
<1> QED
  BY <1>2, <1>3, <1>4, EndpointSet

(* Of what was minted nothing is left in force, of what was issued no row.    *)
LEMMA Deletes == ASSUME EstInv, deleteEndpoint PROVE EstInv'
<1>1. est \in EndpointRow /\ credentials \in [Creds -> CredentialRow] /\ issued \in [Issues -> IssuedRow]
  BY DEF EstInv, EstRows
<1>2. est' = [est EXCEPT !.row = "deleted"] /\ UNCHANGED <<topic, clients>> /\ refused' = {}
  BY DEF deleteEndpoint
<1>3. est' \in EndpointRow /\ est'.always = est.always /\ est'.same = est.same
  <2> DEFINE w == [est EXCEPT !.row = "deleted"]
  <2>1. w \in EndpointRow
    BY <1>1, Zenon DEF EndpointRow
  <2>2. w.always = est.always /\ w.same = est.same
    BY <1>1 DEF EndpointRow
  <2> QED
    BY <1>2, <2>1, <2>2
<1>4. /\ credentials' \in [Creds -> CredentialRow]
      /\ \A c \in Creds : ~InForce(c)' /\ NameOf(c)' = NameOf(c) /\ (IsMinted(c)' <=> IsMinted(c))
  <2>1. \A c \in Creds : /\ [credentials[c] EXCEPT !.state = "deleted"] \in CredentialRow
                         /\ [credentials[c] EXCEPT !.state = "deleted"].state = "deleted"
                         /\ [credentials[c] EXCEPT !.state = "deleted"].name = credentials[c].name
    BY <1>1 DEF CredentialRow
  <2>2. credentials' = [c \in Creds |-> IF credentials[c].state = "none" THEN credentials[c]
                                        ELSE [credentials[c] EXCEPT !.state = "deleted"]]
    BY DEF deleteEndpoint
  <2> QED
    BY <1>1, <2>1, <2>2 DEF InForce, NameOf, IsMinted
<1>5. /\ issued' \in [Issues -> IssuedRow]
      /\ \A i \in Issues : /\ issued'[i].state = issued[i].state /\ issued'[i].op = issued[i].op
                           /\ issued'[i].cred = issued[i].cred /\ issued'[i].key = issued[i].key
                           /\ issued'[i].subject = issued[i].subject
  <2>1. ASSUME NEW i \in Issues
        PROVE  LET w == [issued[i] EXCEPT !.row = FALSE] IN
               /\ w \in IssuedRow /\ w.state = issued[i].state /\ w.op = issued[i].op
               /\ w.cred = issued[i].cred /\ w.key = issued[i].key /\ w.subject = issued[i].subject
    BY <1>1 DEF IssuedRow
  <2>2. issued' = [i \in Issues |-> [issued[i] EXCEPT !.row = FALSE]]
    BY DEF deleteEndpoint
  <2> QED
    BY <2>1, <2>2
<1>6. NothingForgotten
  BY <1>3, <1>4, <1>5 DEF NothingForgotten, Was
<1>7. EstRows' /\ OneInForce'
  BY <1>2, <1>3, <1>4, <1>5 DEF EstInv, EstRows, OneInForce
<1> QED
  BY <1>2, <1>3, <1>5, <1>6, <1>7, RowsMove DEF EstInv, Was

(* A certificate comes of age, as what it was issued.                         *)
LEMMA Ages == ASSUME EstInv, NEW i \in Issues, Age(i) PROVE EstInv'
<1> DEFINE v == IF issued[i].state = "fresh" THEN "due" ELSE "over"
           w == [issued[i] EXCEPT !.state = v]
<1>1. issued[i] \in IssuedRow /\ Was(i)
  BY DEF EstInv, EstRows, Age, Alive, Was
<1>2. /\ w \in IssuedRow /\ w.state # "none" /\ w.op = issued[i].op /\ w.cred = issued[i].cred
      /\ w.key = issued[i].key /\ w.subject = issued[i].subject
  BY <1>1 DEF IssuedRow
<1>3. issued' = [issued EXCEPT ![i] = w] /\ UNCHANGED <<topic, est, credentials, refused, clients>>
  BY DEF Age, EstInv, EstRows
<1> HIDE DEF w
<1>4. /\ issued' \in [Issues -> IssuedRow] /\ issued'[i] = w
      /\ \A j \in Issues \ {i} : issued'[j] = issued[j]
  BY <1>2, <1>3 DEF EstInv, EstRows
<1>5. NothingForgotten
  BY <1>2, <1>3, <1>4 DEF NothingForgotten, IsMinted, NameOf, Was
<1>6. EstRows' /\ OneInForce'
  BY <1>3, <1>4 DEF EstInv, EstRows, OneInForce, InForce, NameOf
<1> QED
  BY <1>1, <1>2, <1>3, <1>4, <1>5, <1>6, RowsMove DEF EstInv, Was

(* Nothing is minted or issued at first.                                      *)
LEMMA EstStarts == EstInit => EstInv
<1> SUFFICES ASSUME EstInit PROVE EstInv
  OBVIOUS
<1>1. est \in EndpointRow /\ (est.always => est.same)
  BY DEF EstInit, EndpointRow
<1>2. /\ credentials \in [Creds -> CredentialRow] /\ \A c \in Creds : credentials[c].state = "none"
      /\ issued \in [Issues -> IssuedRow]
      /\ \A i \in Issues : issued[i].state = "none" /\ issued[i].op = Absent
      /\ clients \in [Clients -> ClientRow] /\ \A r \in Clients : clients[r] = NoClient
  BY EndFits DEF EstInit, CredentialRow, IssuedRow
<1>3. \A i \in Issues : CertificateFits(i)
  BY <1>2, EstAssumption DEF CertificateFits, Was
<1>4. topic \in Topics /\ refused \subseteq Creds
  BY DEF EstInit
<1> QED
  BY <1>1, <1>2, <1>3, <1>4, EndFits
     DEF EstInv, EstRows, OneInForce, InForce, IssuedInOrder, Was

(* Every step keeps the invariant.                                            *)
LEMMA EstSteps == EstInv /\ [EstNext]_estVars => EstInv'
<1> SUFFICES ASSUME EstInv, [EstNext]_estVars PROVE EstInv'
  OBVIOUS
<1>1. CASE UNCHANGED estVars
  <2>1. NothingForgotten /\ EstRows' /\ OneInForce'
    BY <1>1 DEF estVars, NothingForgotten, IsMinted, NameOf, Was, EstInv, EstRows, OneInForce, InForce
  <2> QED
    BY <1>1, <2>1, RowsMove DEF estVars, EstInv, Was
<1>2. CASE EstNext
  BY <1>2, Authenticates, ClientEnds, Renews, ChecksNames, Enrols, Revokes, Lapses, Creates, Pauses,
     ChangesPolicy, Deletes, Ages DEF EstNext, EstAdmin
<1> QED
  BY <1>1, <1>2

(* Only a request whose credential was not in force is turned away.           *)
LEMMA AcceptsTheLive == EstInv /\ [EstNext]_estVars => LiveIsAccepted
<1> SUFFICES ASSUME EstInv, EstNext, NEW q \in Clients, clients[q].at = "idle",
                    clients'[q].at = "turned away"
             PROVE  credentials[clients'[q].cred].state # "live"
  BY DEF LiveIsAccepted, estVars
<1>1. NoClient.at = "idle"
  BY DEF NoClient
<1>2. ASSUME NEW r \in Clients, NEW c \in Creds, NEW op \in {"enroll", "reenroll"},
             NEW s \in Subjects, NEW k \in PublicKeys, AuthenticateEst(r, c, op, s, k)
      PROVE  credentials[clients'[q].cred].state # "live"
  <2> DEFINE away == [NoClient EXCEPT !.at = "turned away", !.cred = c]
             known == [at |-> "known", op |-> op, cred |-> c, subject |-> s, key |-> k,
                       same |-> est.same]
  <2>1. PICK found \in CredentialByUsername(NameOf(c)) \union {Absent} :
          /\ found = Absent => CredentialByUsername(NameOf(c)) = {}
          /\ clients' = [clients EXCEPT ![r] =
               IF found = c /\ credentials[c].state = "live" THEN known ELSE away]
    BY <1>2 DEF AuthenticateEst
  <2>2. known.at = "known" /\ away.cred = c
    BY DEF NoClient
  <2> HIDE DEF known, away
  <2>3. q = r /\ ~(found = c /\ credentials[c].state = "live") /\ clients'[q].cred = c
    BY <2>1, <2>2 DEF EstInv, EstRows
  <2>4. credentials[c].state = "live" => found = c
    BY <2>1, EstAssumption DEF CredentialByUsername, EstInv, OneInForce, InForce, NameOf
  <2> QED
    BY <2>3, <2>4
<1>3. ASSUME NEW r \in Clients, clients[r].at # "idle", NEW w, clients' = [clients EXCEPT ![r] = w]
      PROVE  FALSE
  BY <1>3 DEF EstInv, EstRows
<1>4. ASSUME NEW r \in Clients, clients[r].at # "idle", EndClient(r) PROVE FALSE
  BY <1>3, <1>4 DEF EndClient
<1>5. ASSUME NEW r \in Clients, Reenroll(r) \/ checkNames(r) PROVE FALSE
  <2>1. PICK v \in {"checked", "refused"} :
          clients[r].at = "known" /\ clients' = [clients EXCEPT ![r].at = v]
    BY <1>5 DEF Reenroll, checkNames
  <2> QED
    BY <2>1 DEF EstInv, EstRows
<1>6. CASE UNCHANGED clients
  BY <1>6
<1> QED
  BY <1>2, <1>4, <1>5, <1>6
     DEF EstNext, EstAdmin, unauthorized, enroll, RollBack, RecordFailure, createCredential,
         revokeEstCredential, setEstEnabled, updateEstPolicy, deleteEndpoint, Usable, Age

(* A certificate comes of an enrollment row, which a deleted endpoint has not.*)
LEMMA IssuesWhileThere == EstInv /\ [EstNext]_estVars => DeletedIssuesNothing
<1> SUFFICES ASSUME EstInv, EstNext, est.row = "deleted", NEW i \in Issues, issued[i].state = "none"
             PROVE  issued'[i].state = "none"
  BY DEF DeletedIssuesNothing, estVars
<1>1. ASSUME NEW j \in Issues, Age(j) PROVE issued'[i].state = "none"
  BY <1>1 DEF Age, Alive, EstInv, EstRows
<1>2. ASSUME deleteEndpoint PROVE FALSE
  BY <1>2 DEF deleteEndpoint
<1>3. ASSUME NEW r \in Clients, enroll(r) PROVE UNCHANGED issued
  BY <1>3 DEF enroll, CreateEnrollment
<1>4. CASE UNCHANGED issued
  BY <1>4
<1> QED
  BY ZenonT(30), <1>1, <1>2, <1>3, <1>4
     DEF EstNext, EstAdmin, AuthenticateEst, unauthorized, Reenroll, checkNames, RollBack,
         RecordFailure, createCredential, revokeEstCredential, setEstEnabled, updateEstPolicy, Usable

(* Nobody renews what another enrolled, over however many renewals, rotated   *)
(* passwords and changes of the policy; a live credential is accepted, and a  *)
(* deleted endpoint issues nothing (service.go, repo.go).                     *)
THEOREM EnrolsItsOwn == EstSpec => IdentityIsKept
<1>1. EstInv => RenewalIsOwn /\ KeyIsKept /\ EstTypeOK
  <2> SUFFICES ASSUME EstInv PROVE RenewalIsOwn /\ KeyIsKept /\ EstTypeOK
    OBVIOUS
  <2>1. RenewalIsOwn
    BY DEF EstInv, CertificateFits, Origin, RenewalIsOwn
  <2>2. KeyIsKept
    BY DEF EstInv, CertificateFits, Origin, KeyIsKept
  <2>3. EstTypeOK
    BY DEF EstInv, EstRows, EndpointRow, CredentialRow, IssuedRow, ClientRow, OneInForce, InForce,
           NameOf, EstTypeOK
  <2> QED
    BY <2>1, <2>2, <2>3
<1> QED
  BY <1>1, EstStarts, EstSteps, AcceptsTheLive, IssuesWhileThere, PTL DEF EstSpec, IdentityIsKept

----------------------------------------------------------------------------
(* IntuneClient.                                                             *)

TokenRow == [tenant : Tenants \union {NoTenant}, roles : BOOLEAN, minted : Nat, until : Nat]
MapRow == [tenant : Tenants \union {NoTenant}, read : Nat]
DialogRow == [at : Flights \union {"idle", "services", "token"}, what : {"none", "post", "check"},
              tenant : Tenants \union {NoTenant}, began : Nat, sent : Nat, attempt : 0..Attempts,
              token : TokenRow, map : MapRow, result : {"none", "ok", "refused", "failed"}]
ConsentRow == [is : {"none", "created", "granted", "withdrawn"}, since : Nat]

ClientRows ==
    /\ question \in Questions /\ tick \in Published
    /\ consent \in [Tenants -> ConsentRow]
    /\ tokens \in [Tenants \X Scopes -> TokenRow]
    /\ services \in [Tenants -> MapRow]
    /\ dialogs \in [Callers -> DialogRow]

(* A token is its tenant's, and one without roles is older than the consent.  *)
TokenFits(w, t) ==
    w # NoToken =>
      /\ w.tenant = t /\ t \in Tenants /\ w.minted <= tick
      /\ ~w.roles /\ consent[t].is = "granted" => w.minted <= consent[t].since

(* A cached one is left out long enough before it lapses.                     *)
Dropped(w) == w # NoToken => w.until + Margin <= w.minted + CallTime + Ttl

CachesFit ==
    \A t \in Tenants :
      /\ consent[t].since <= tick
      /\ services[t] # NoMap => services[t].tenant = t
      /\ \A s \in Scopes : TokenFits(tokens[<<t, s>>], t) /\ Dropped(tokens[<<t, s>>])

(* While a verification has not called out, no time has passed, and what is   *)
(* cached for its tenant was put there since by a call that was under way.    *)
FitsTheCaches(d) ==
    d.what = "check" /\ d.at \in {"services", "token"} =>
      /\ d.began = tick
      /\ \A s \in Scopes : LET w == tokens[<<d.tenant, s>>]
                           IN w # NoToken => d.began <= w.minted + CallTime
      /\ services[d.tenant] # NoMap => d.began <= services[d.tenant].read + CallTime

(* How long a call has been under way, and how old what it carries is.        *)
FitsTheTime(d) ==
    /\ d.at \in Flights => d.began <= d.sent /\ d.sent <= tick /\ tick <= d.sent + CallTime
    /\ d.at = "minted" => d.token # NoToken /\ d.sent <= d.token.minted
    /\ d.at \in {"discovering", "posting"} =>
         /\ d.token # NoToken /\ d.sent + CallTime < d.token.minted + Ttl
         /\ d.what = "check" => d.began <= d.token.minted + CallTime
    /\ d.at = "discovered" => d.map # NoMap /\ d.sent <= d.map.read /\ d.map.read <= tick

(* A call's tenant, token and map are of one tenant; a verification is        *)
(* undecided until it ends, and looks for the map only.                       *)
FitsItself(d) ==
    /\ d.at # "idle" \/ d.what = "check" => d.tenant \in Tenants
    /\ d.map # NoMap => d.map.tenant = d.tenant
    /\ d.what # "check" => d.began = 0
    /\ d.what = "check" /\ d.at # "idle" => d.result = "none" /\ d.at # "posting"
    /\ d.what = "check" /\ d.at # "discovered" => d.map = NoMap

DialogFits(d) ==
    FitsItself(d) /\ FitsTheTime(d) /\ FitsTheCaches(d) /\ TokenFits(d.token, d.tenant)

ClientInv == ClientRows /\ CachesFit /\ \A p \in Callers : DialogFits(dialogs[p])

(* What a call may leave in the caches: a token or a map that was made while  *)
(* the call was under way.                                                    *)
NewToken(w, t) ==
    /\ w \in TokenRow /\ w # NoToken /\ TokenFits(w, t) /\ Dropped(w) /\ tick <= w.minted + CallTime
NewMap(m, t) == m \in MapRow /\ m.tenant = t /\ tick <= m.read + CallTime

CachesMove ==
    /\ UNCHANGED <<question, tick, consent>>
    /\ tokens' \in [Tenants \X Scopes -> TokenRow] /\ services' \in [Tenants -> MapRow]
    /\ \A t \in Tenants :
         /\ services'[t] \in {services[t], NoMap} \/ NewMap(services'[t], t)
         /\ \A s \in Scopes :
              tokens'[<<t, s>>] \in {tokens[<<t, s>>], NoToken} \/ NewToken(tokens'[<<t, s>>], t)

(* No token and no map fit anywhere.                                         *)
LEMMA NoTokenFits == NoToken \in TokenRow /\ NoToken.tenant = NoTenant /\ NoToken.minted = 0
                     /\ \A t : TokenFits(NoToken, t) /\ Dropped(NoToken)
<1>1. NoToken \in TokenRow
  BY Zenon DEF NoToken, TokenRow
<1> QED
  BY <1>1 DEF NoToken, TokenFits, Dropped

(* No map is a map of no tenant.                                              *)
LEMMA NoMapFits == NoMap \in MapRow /\ NoMap.tenant = NoTenant
  BY DEF NoMap, MapRow

(* A call goes on as it is, whatever others put in the caches.                *)
LEMMA DialogStays ==
  ASSUME ClientInv, CachesMove, NEW d \in DialogRow, DialogFits(d)
  PROVE  DialogFits(d)'
<1>1. tick' = tick /\ consent' = consent /\ tick \in Nat
  BY DEF CachesMove, ClientInv, ClientRows, Published
<1>2. FitsItself(d)' /\ FitsTheTime(d)' /\ TokenFits(d.token, d.tenant)'
  BY <1>1 DEF DialogFits, FitsItself, FitsTheTime, TokenFits
<1>3. ASSUME d.what = "check", d.at \in {"services", "token"}
      PROVE  FitsTheCaches(d)'
  <2>1. d.tenant \in Tenants /\ d.began = tick
    BY <1>3 DEF DialogFits, FitsItself, FitsTheCaches
  <2>2. services'[d.tenant] # NoMap => d.began <= services'[d.tenant].read + CallTime
    BY <1>3, <2>1 DEF DialogFits, FitsTheCaches, CachesMove, NewMap
  <2>3. ASSUME NEW s \in Scopes, tokens'[<<d.tenant, s>>] # NoToken
        PROVE  d.began <= tokens'[<<d.tenant, s>>].minted + CallTime
    BY <1>3, <2>1, <2>3 DEF DialogFits, FitsTheCaches, CachesMove, NewToken
  <2> QED
    BY <1>1, <2>1, <2>2, <2>3 DEF FitsTheCaches
<1>4. FitsTheCaches(d)'
  BY <1>3 DEF FitsTheCaches
<1> QED
  BY <1>2, <1>4 DEF DialogFits

(* And the caches fit.                                                       *)
LEMMA CachesStayFit ==
  ASSUME ClientInv, CachesMove
  PROVE  CachesFit'
<1>1. tick' = tick /\ consent' = consent
  BY DEF CachesMove
<1>2. ASSUME NEW t \in Tenants, NEW s \in Scopes
      PROVE  TokenFits(tokens[<<t, s>>], t)' /\ Dropped(tokens[<<t, s>>])'
  <2>1. PICK w : w = tokens'[<<t, s>>]
    OBVIOUS
  <2>2. TokenFits(w, t) /\ Dropped(w)
    BY <2>1, NoTokenFits DEF ClientInv, CachesFit, CachesMove, NewToken
  <2> QED
    BY <1>1, <2>1, <2>2 DEF TokenFits, Dropped
<1>3. \A t \in Tenants : services'[t] # NoMap => services'[t].tenant = t
  BY NoMapFits DEF ClientInv, CachesFit, CachesMove, NewMap
<1> QED
  BY <1>1, <1>2, <1>3 DEF ClientInv, CachesFit

(* A call takes a step of its own, to where it fits.                          *)
LEMMA DialogMoves ==
  ASSUME ClientInv, CachesMove, NEW p \in Callers, NEW w \in DialogRow, DialogFits(w)',
         dialogs' = [dialogs EXCEPT ![p] = w]
  PROVE  ClientInv'
<1>1. ClientRows'
  BY DEF ClientInv, ClientRows, CachesMove
<1>2. ASSUME NEW q \in Callers, NEW v, v = dialogs'[q] PROVE DialogFits(v)'
  <2>1. v = w \/ (v = dialogs[q] /\ v \in DialogRow)
    BY <1>2 DEF ClientInv, ClientRows
  <2> QED
    BY <2>1, DialogStays DEF ClientInv
<1>3. \A q \in Callers : DialogFits(dialogs[q])'
  BY <1>2 DEF DialogFits, FitsItself, FitsTheTime, FitsTheCaches, TokenFits
<1> QED
  BY <1>1, <1>3, CachesStayFit DEF ClientInv

(* If it leaves the caches, it fits before and after.                         *)
LEMMA DialogMovesAlone ==
  ASSUME ClientInv, NEW p \in Callers, NEW w \in DialogRow, DialogFits(w),
         dialogs' = [dialogs EXCEPT ![p] = w], UNCHANGED <<question, tick, consent, tokens, services>>
  PROVE  ClientInv'
<1>1. CachesMove
  BY DEF CachesMove, ClientInv, ClientRows
<1>2. DialogFits(w)'
  BY <1>1, DialogStays
<1> QED
  BY <1>1, <1>2, DialogMoves

(* Where a call goes that is over.                                            *)
Closed(d, result) ==
    IF d.what = "post" THEN NoDialog
    ELSE [NoDialog EXCEPT !.what = "check", !.result = result, !.tenant = d.tenant,
                          !.attempt = IF result = "ok" THEN Attempts ELSE d.attempt]

(* A call that is not being made fits.                                       *)
LEMMA NoDialogFits ==
  /\ NoDialog \in DialogRow /\ DialogFits(NoDialog) /\ NoDialog.at = "idle"
  /\ NoDialog.token = NoToken /\ NoDialog.map = NoMap /\ NoDialog.result = "none" /\ NoDialog.began = 0
<1>1. NoDialog \in DialogRow
  BY NoTokenFits, NoMapFits, ClientAssumption DEF NoDialog, DialogRow
<1>2. /\ NoDialog.at = "idle" /\ NoDialog.what = "none" /\ NoDialog.token = NoToken
      /\ NoDialog.map = NoMap /\ NoDialog.result = "none" /\ NoDialog.began = 0
  BY DEF NoDialog
<1> QED
  BY <1>1, <1>2, NoTokenFits, NoMapFits
  DEF DialogFits, FitsItself, FitsTheTime, FitsTheCaches, Flights

(* So does one that is over.                                                 *)
LEMMA ClosedFits ==
  ASSUME NEW d \in DialogRow, DialogFits(d), d.at # "idle", NEW result \in {"ok", "refused", "failed"}
  PROVE  Closed(d, result) \in DialogRow /\ DialogFits(Closed(d, result))
<1> DEFINE n == IF result = "ok" THEN Attempts ELSE d.attempt
           w == [NoDialog EXCEPT !.what = "check", !.result = result, !.tenant = d.tenant,
                                 !.attempt = n]
<1>1. CASE d.what = "post"
  BY <1>1, NoDialogFits DEF Closed
<1>0. n \in 0..Attempts /\ d.tenant \in Tenants \union {NoTenant}
  BY ClientAssumption DEF DialogRow
<1> HIDE DEF n
<1>2. /\ w \in DialogRow /\ w.at = "idle" /\ w.what = "check" /\ w.tenant = d.tenant
      /\ w.token = NoToken /\ w.map = NoMap
  BY <1>0, NoDialogFits DEF DialogRow
<1> HIDE DEF w
<1>3. d.tenant \in Tenants
  BY DEF DialogFits, FitsItself
<1>4. DialogFits(w)
  BY <1>2, <1>3, NoTokenFits, NoMapFits
  DEF DialogFits, FitsItself, FitsTheTime, FitsTheCaches, Flights
<1> QED
  BY <1>1, <1>2, <1>4 DEF Closed, w, n

(* Every row of the tables has its type.                                      *)
LEMMA DialogIs ==
  ASSUME ClientInv, NEW p \in Callers
  PROVE  dialogs[p] \in DialogRow /\ DialogFits(dialogs[p])
  BY DEF ClientInv, ClientRows

(* A call that ends leaves what it may in the caches.                         *)
LEMMA Closes ==
  ASSUME ClientInv, CachesMove, NEW p \in Callers, dialogs[p].at # "idle",
         NEW result \in {"ok", "refused", "failed"}, Close(p, result)
  PROVE  ClientInv'
<1>1. PICK w : w = Closed(dialogs[p], result)
  OBVIOUS
<1>2. w \in DialogRow /\ DialogFits(w)
  BY <1>1, DialogIs, ClosedFits
<1>3. DialogFits(w)'
  BY <1>2, DialogStays
<1>4. dialogs' = [dialogs EXCEPT ![p] = w]
  BY <1>1 DEF Close, Move, Closed
<1> QED
  BY <1>2, <1>3, <1>4, DialogMoves

(* Caches that are left alone have moved as they may.                        *)
LEMMA Unmoved ==
  ASSUME ClientInv, Same, UNCHANGED <<tokens, services>> PROVE CachesMove
  BY DEF CachesMove, Same, ClientInv, ClientRows

(* So have those that forgot a map.                                          *)
LEMMA MapForgotten ==
  ASSUME ClientInv, Same, UNCHANGED tokens, NEW t \in Tenants, forgetServices(t) PROVE CachesMove
  BY NoMapFits DEF CachesMove, Same, ClientInv, ClientRows, forgetServices

(* A verification begins with empty caches for its tenant.                    *)
LEMMA Checks ==
  ASSUME ClientInv, Same, NEW p \in Callers, NEW t \in Tenants, NEW n \in 0..Attempts,
         CheckTenant(p, t, n)
  PROVE  ClientInv'
<1>1. PICK w : w = Fresh("check", t, n)
  OBVIOUS
<1>2. tick \in Nat /\ tick' = tick
  BY DEF ClientInv, ClientRows, Published, Same
<1>3. /\ w \in DialogRow /\ w.at = "services" /\ w.what = "check" /\ w.tenant = t /\ w.began = tick
      /\ w.token = NoToken /\ w.map = NoMap /\ w.result = "none"
  BY <1>1, <1>2, NoDialogFits DEF Fresh, DialogRow
<1>4. /\ services' \in [Tenants -> MapRow] /\ services'[t] = NoMap
      /\ \A u \in Tenants : services'[u] \in {services[u], NoMap}
  BY NoMapFits DEF CheckTenant, forgetTenant, forgetServices, ClientInv, ClientRows
<1>5. tokens' = [k \in Tenants \X Scopes |-> IF k[1] = t THEN NoToken ELSE tokens[k]]
  BY DEF CheckTenant, forgetTenant, ClientInv, ClientRows
<1>6. /\ tokens' \in [Tenants \X Scopes -> TokenRow]
      /\ \A s \in Scopes : tokens'[<<t, s>>] = NoToken
      /\ \A u \in Tenants, s \in Scopes : tokens'[<<u, s>>] \in {tokens[<<u, s>>], NoToken}
  BY <1>5, NoTokenFits DEF ClientInv, ClientRows
<1>7. CachesMove
  BY <1>4, <1>6 DEF CachesMove, Same
<1>8. DialogFits(w)'
  <2>1. FitsItself(w) /\ FitsTheTime(w) /\ TokenFits(w.token, w.tenant)'
    BY <1>3, NoTokenFits, NoMapFits DEF FitsItself, FitsTheTime, TokenFits, Flights
  <2>2. FitsTheTime(w)'
    BY <1>3 DEF FitsTheTime, Flights
  <2>3. FitsTheCaches(w)'
    BY <1>2, <1>3, <1>4, <1>6 DEF FitsTheCaches
  <2> QED
    BY <2>1, <2>2, <2>3 DEF DialogFits, FitsItself
<1>9. dialogs' = [dialogs EXCEPT ![p] = w]
  BY <1>1 DEF CheckTenant, Move, Fresh, Same
<1> QED
  BY <1>3, <1>7, <1>8, <1>9, DialogMoves

(* A verification starts, or tries again.                                    *)
LEMMA Verifies ==
  ASSUME ClientInv, NEW p \in Callers,
         (\E t \in Tenants : VerifyTenant(p, t)) \/ VerifyAgain(p)
  PROVE  ClientInv'
<1>1. ASSUME NEW t \in Tenants, VerifyTenant(p, t) PROVE ClientInv'
  BY <1>1, Checks, ClientAssumption DEF VerifyTenant
<1>2. ASSUME VerifyAgain(p) PROVE ClientInv'
  <2>1. dialogs[p].tenant \in Tenants /\ dialogs[p].attempt + 1 \in 0..Attempts
    BY <1>2, DialogIs, ClientAssumption DEF VerifyAgain, DialogFits, FitsItself, DialogRow
  <2>2. CheckTenant(p, dialogs[p].tenant, dialogs[p].attempt + 1) /\ Same
    BY <1>2 DEF VerifyAgain
  <2> QED
    BY <2>1, <2>2, Checks
<1> QED
  BY <1>1, <1>2

(* A call to the service starts with nothing.                                *)
LEMMA Posts ==
  ASSUME ClientInv, NEW p \in Callers, NEW t \in Tenants, postTo(p, t)
  PROVE  ClientInv'
<1>0. 0 \in 0..Attempts
  BY ClientAssumption
<1>1. PICK w : w = [NoDialog EXCEPT !.at = "services", !.what = "post", !.tenant = t,
                                    !.attempt = 0, !.began = 0]
  OBVIOUS
<1>4. dialogs' = [dialogs EXCEPT ![p] = w]
  BY <1>1 DEF postTo, Move, Fresh
<1>2. /\ w \in DialogRow /\ w.at = "services" /\ w.what = "post" /\ w.tenant = t
      /\ w.token = NoToken /\ w.map = NoMap /\ w.began = 0
  BY <1>0, <1>1, NoDialogFits DEF DialogRow
<1>3. DialogFits(w)
  BY <1>2, NoTokenFits, NoMapFits
  DEF DialogFits, FitsItself, FitsTheTime, FitsTheCaches, Flights
<1> QED
  BY <1>2, <1>3, <1>4, DialogMovesAlone DEF postTo, Same

(* The address is known: a verification ends with it, another call goes on.   *)
LEMMA GoesOn ==
  ASSUME ClientInv, CachesMove, NEW p \in Callers, dialogs[p].at # "idle", NEW m \in MapRow,
         m # NoMap => m.tenant = dialogs[p].tenant, Addressed(p, m)
  PROVE  ClientInv'
<1>1. CASE dialogs[p].what = "check"
  BY <1>1, Closes DEF Addressed
<1>2. CASE dialogs[p].what # "check"
  <2>1. PICK w : w = [dialogs[p] EXCEPT !.at = "token", !.map = m, !.token = NoToken, !.sent = 0]
    OBVIOUS
  <2>2. /\ w \in DialogRow /\ w.at = "token" /\ w.what # "check" /\ w.tenant = dialogs[p].tenant
        /\ w.token = NoToken /\ w.map = m /\ w.began = dialogs[p].began /\ w.what = dialogs[p].what
    BY ZenonT(30), <1>2, <2>1, DialogIs, NoTokenFits DEF DialogRow
  <2>3. DialogFits(w)
    BY <2>2, DialogIs, NoTokenFits
    DEF DialogFits, FitsItself, FitsTheTime, FitsTheCaches, Flights
  <2>4. dialogs' = [dialogs EXCEPT ![p] = w]
    BY <1>2, <2>1 DEF Addressed, Move
  <2> QED
    BY <2>2, <2>3, <2>4, DialogStays, DialogMoves
<1> QED
  BY <1>1, <1>2

(* The service is known from the cache, or a token is needed to find it.     *)
LEMMA LooksUp ==
  ASSUME ClientInv, NEW p \in Callers, serviceEndpoint(p)
  PROVE  ClientInv'
<1> DEFINE t == dialogs[p].tenant
<1>1. t \in Tenants /\ dialogs[p].at = "services" /\ Same /\ UNCHANGED <<tokens, services>>
  BY DialogIs DEF serviceEndpoint, At, DialogFits, FitsItself
<1>2. services[t] \in MapRow /\ (services[t] # NoMap => services[t].tenant = t)
  BY <1>1 DEF ClientInv, ClientRows, CachesFit
<1>3. CASE services[t] # NoMap
  BY <1>1, <1>2, <1>3, Unmoved, GoesOn DEF serviceEndpoint
<1>4. CASE services[t] = NoMap
  <2>1. PICK w : w = [dialogs[p] EXCEPT !.at = "token"]
    OBVIOUS
  <2>2. /\ w \in DialogRow /\ w.at = "token" /\ w.what = dialogs[p].what /\ w.tenant = t
        /\ w.token = dialogs[p].token /\ w.map = dialogs[p].map /\ w.began = dialogs[p].began
        /\ w.result = dialogs[p].result
    BY <2>1, DialogIs DEF DialogRow
  <2>3. DialogFits(w)
    BY <1>1, <2>2, DialogIs
    DEF DialogFits, FitsItself, FitsTheTime, FitsTheCaches, Flights
  <2>4. dialogs' = [dialogs EXCEPT ![p] = w]
    BY <1>4, <2>1 DEF serviceEndpoint, Move
  <2> QED
    BY <1>1, <2>2, <2>3, <2>4, DialogMovesAlone DEF Same
<1> QED
  BY <1>3, <1>4

(* A cached token has its margin left, which two calls do not use up.         *)
LEMMA TakesToken ==
  ASSUME ClientInv, NEW p \in Callers, token(p)
  PROVE  ClientInv'
<1> DEFINE t == dialogs[p].tenant
<1>1. /\ t \in Tenants /\ dialogs[p].at = "token" /\ Scope(p) \in Scopes /\ tick \in Nat
      /\ UNCHANGED <<question, tick, consent, tokens, services>>
  BY DialogIs DEF token, At, DialogFits, FitsItself, Scope, Scopes, Same, ClientInv, ClientRows,
                  Published
<1>2. CASE ~Cached(t, Scope(p))
  <2>1. PICK w : w = [dialogs[p] EXCEPT !.at = "minting", !.sent = tick]
    OBVIOUS
  <2>2. /\ w \in DialogRow /\ w.at = "minting" /\ w.what = dialogs[p].what /\ w.tenant = t
        /\ w.token = dialogs[p].token /\ w.map = dialogs[p].map /\ w.began = dialogs[p].began
        /\ w.result = dialogs[p].result /\ w.sent = tick
    BY <1>1, <2>1, DialogIs DEF DialogRow, Flights
  <2>3. dialogs' = [dialogs EXCEPT ![p] = w]
    BY <1>2, <2>1 DEF token, Move
  <2>4. DialogFits(w)
    BY <1>1, <2>2, DialogIs, ClientAssumption
    DEF DialogFits, FitsItself, FitsTheTime, FitsTheCaches, Flights, DialogRow
  <2> QED
    BY <1>1, <2>2, <2>3, <2>4, DialogMovesAlone
<1>3. CASE Cached(t, Scope(p))
  <2>1. PICK k : k = tokens[<<t, Scope(p)>>]
    OBVIOUS
  <2>2. /\ k \in TokenRow /\ k # NoToken /\ tick < k.until /\ TokenFits(k, t) /\ Dropped(k)
        /\ dialogs[p].what = "check" => dialogs[p].began <= k.minted + CallTime
    <3>1. k \in TokenRow /\ TokenFits(k, t) /\ Dropped(k)
      BY <1>1, <2>1 DEF ClientInv, ClientRows, CachesFit
    <3>2. k # NoToken /\ tick < k.until
      BY <1>3, <2>1 DEF Cached, Key
    <3>3. FitsTheCaches(dialogs[p])
      BY DialogIs DEF DialogFits
    <3> QED
      BY <1>1, <2>1, <3>1, <3>2, <3>3 DEF FitsTheCaches
  <2>3. tick + CallTime < k.minted + Ttl
    BY <1>1, <2>2, ClientAssumption DEF Dropped, TokenRow
  <2>4. /\ Onward(p) \in {"discovering", "posting"}
        /\ dialogs[p].what = "check" => Onward(p) = "discovering"
    BY <1>1, DialogIs DEF DialogFits, FitsItself, Onward
  <2>5. PICK w : w = [dialogs[p] EXCEPT !.at = Onward(p), !.token = k, !.sent = tick]
    OBVIOUS
  <2>6. /\ w \in DialogRow /\ w.at = Onward(p) /\ w.what = dialogs[p].what /\ w.tenant = t
        /\ w.token = k /\ w.map = dialogs[p].map /\ w.began = dialogs[p].began
        /\ w.result = dialogs[p].result /\ w.sent = tick
    BY <1>1, <2>2, <2>4, <2>5, DialogIs DEF DialogRow, Flights
  <2>7. dialogs' = [dialogs EXCEPT ![p] = w]
    BY <1>3, <2>1, <2>5 DEF token, Move, Key
  <2>8. DialogFits(w)
    BY <1>1, <2>2, <2>3, <2>4, <2>6, DialogIs, ClientAssumption
    DEF DialogFits, FitsItself, FitsTheTime, FitsTheCaches, Flights, DialogRow
  <2> QED
    BY <1>1, <2>6, <2>7, <2>8, DialogMovesAlone
<1> QED
  BY <1>2, <1>3

(* What Microsoft mints says whether the roles are in place.                  *)
LEMMA Mints ==
  ASSUME ClientInv, NEW p \in Callers, Mint(p)
  PROVE  ClientInv'
<1> DEFINE t == dialogs[p].tenant
<1>1. /\ t \in Tenants /\ dialogs[p].at = "minting" /\ tick \in Nat
      /\ UNCHANGED <<question, tick, consent, tokens, services>>
  BY DialogIs DEF Mint, At, DialogFits, FitsItself, Same, ClientInv, ClientRows, Published
<1>2. CASE consent[t].is \in {"none", "withdrawn"}
  BY <1>1, <1>2, Closes, Unmoved DEF Mint, Same
<1>3. CASE consent[t].is \notin {"none", "withdrawn"}
  <2>1. PICK k : k = [tenant |-> t, roles |-> consent[t].is = "granted", minted |-> tick, until |-> 0]
    OBVIOUS
  <2>2. k \in TokenRow
    BY <1>1, <2>1, Zenon DEF TokenRow
  <2>3. k.tenant = t /\ k.minted = tick /\ k # NoToken /\ (consent[t].is = "granted" => k.roles)
    BY <1>1, <2>1, ClientAssumption DEF NoToken
  <2>4. TokenFits(k, t)
    BY <1>1, <2>3 DEF TokenFits
  <2>5. PICK w : w = [dialogs[p] EXCEPT !.at = "minted", !.token = k]
    OBVIOUS
  <2>6. /\ w \in DialogRow /\ w.at = "minted" /\ w.what = dialogs[p].what /\ w.tenant = t
        /\ w.token = k /\ w.map = dialogs[p].map /\ w.began = dialogs[p].began
        /\ w.result = dialogs[p].result /\ w.sent = dialogs[p].sent
    BY <1>1, <2>2, <2>5, DialogIs DEF DialogRow, Flights
  <2>7. dialogs' = [dialogs EXCEPT ![p] = w]
    BY <1>3, <2>1, <2>5 DEF Mint, Move
  <2>8. DialogFits(w)
    BY <1>1, <2>3, <2>4, <2>6, DialogIs, ClientAssumption
    DEF DialogFits, FitsItself, FitsTheTime, FitsTheCaches, Flights, DialogRow
  <2> QED
    BY <1>1, <2>6, <2>7, <2>8, DialogMovesAlone
<1> QED
  BY <1>2, <1>3

(* The token is cached with the time the call has taken, and used.            *)
LEMMA StoresToken ==
  ASSUME ClientInv, NEW p \in Callers, storeToken(p)
  PROVE  ClientInv'
<1> DEFINE t == dialogs[p].tenant
           d == dialogs[p]
<1>1. /\ t \in Tenants /\ d.at = "minted" /\ tick \in Nat /\ Scope(p) \in Scopes
      /\ UNCHANGED <<question, tick, consent, services>>
  BY DialogIs DEF storeToken, At, DialogFits, FitsItself, Scope, Scopes, Same, ClientInv, ClientRows,
                  Published
<1>2. /\ d.token \in TokenRow /\ d.token # NoToken /\ d.token.tenant = t /\ TokenFits(d.token, t)
      /\ tick <= d.token.minted + CallTime
  BY <1>1, DialogIs, ClientAssumption
  DEF DialogRow, DialogFits, FitsTheTime, Flights, TokenFits, TokenRow
<1>3. Until \in Nat /\ Until = tick + Ttl - Margin
  BY <1>1, ClientAssumption DEF Until
<1>4. PICK k : k = [d.token EXCEPT !.until = Until]
  OBVIOUS
<1>5. k \in TokenRow
  BY <1>2, <1>3, <1>4, Zenon DEF TokenRow
<1>6. /\ k.tenant = t /\ k.roles = d.token.roles /\ k.minted = d.token.minted /\ k.until = Until
  BY <1>2, <1>4 DEF TokenRow
<1>7. k # NoToken /\ TokenFits(k, t)
  BY <1>1, <1>2, <1>6, ClientAssumption DEF NoToken, TokenFits
<1>8. NewToken(k, t)
  <2>1. k.minted \in Nat
    BY <1>5 DEF TokenRow
  <2>2. k.until + Margin <= k.minted + CallTime + Ttl
    BY <1>1, <1>2, <1>3, <1>6, <2>1, ClientAssumption
  <2> QED
    BY <1>2, <1>5, <1>6, <1>7, <2>2 DEF NewToken, Dropped
<1>9. CachesMove
  <2>1. tokens' = [tokens EXCEPT ![<<t, Scope(p)>>] = k]
    BY <1>4 DEF storeToken, Key
  <2>2. /\ tokens' \in [Tenants \X Scopes -> TokenRow]
        /\ \A u \in Tenants, s \in Scopes :
             tokens'[<<u, s>>] = tokens[<<u, s>>] \/ (u = t /\ tokens'[<<u, s>>] = k)
    BY <1>1, <1>5, <2>1 DEF ClientInv, ClientRows
  <2> QED
    BY <1>1, <1>8, <2>2 DEF CachesMove, ClientInv, ClientRows
<1>10. Onward(p) \in {"discovering", "posting"} /\ (d.what = "check" => Onward(p) = "discovering")
  BY <1>1, DialogIs DEF DialogFits, FitsItself, Onward
<1>11. PICK w : w = [d EXCEPT !.at = Onward(p), !.token = k, !.sent = tick]
  OBVIOUS
<1>12. /\ w \in DialogRow /\ w.at = Onward(p) /\ w.what = d.what /\ w.tenant = t
       /\ w.token = k /\ w.map = d.map /\ w.began = d.began /\ w.result = d.result /\ w.sent = tick
  BY <1>1, <1>5, <1>10, <1>11, DialogIs DEF DialogRow, Flights
<1>13. DialogFits(w)
  <2>1. FitsItself(w) /\ FitsTheCaches(w) /\ TokenFits(w.token, w.tenant)
    BY <1>1, <1>7, <1>10, <1>12, DialogIs DEF DialogFits, FitsItself, FitsTheCaches
  <2>2. d.began <= d.sent /\ d.sent <= d.token.minted /\ d.began \in Nat /\ d.sent \in Nat
        /\ d.token.minted \in Nat /\ d.began <= tick
    BY <1>1, <1>2, DialogIs DEF DialogFits, FitsTheTime, Flights, DialogRow, TokenRow
  <2>3. FitsTheTime(w)
    BY <1>1, <1>2, <1>6, <1>7, <1>10, <1>12, <2>2, ClientAssumption DEF FitsTheTime, Flights
  <2> QED
    BY <2>1, <2>3 DEF DialogFits
<1>14. dialogs' = [dialogs EXCEPT ![p] = w]
  BY <1>4, <1>11 DEF storeToken, Move
<1> QED
  BY <1>9, <1>12, <1>13, <1>14, DialogStays, DialogMoves

(* What is discovered is of the token's tenant, and of now.                   *)
LEMMA Discovers ==
  ASSUME ClientInv, NEW p \in Callers, Discover(p)
  PROVE  ClientInv'
<1> DEFINE t == dialogs[p].tenant
           d == dialogs[p]
<1>1. /\ t \in Tenants /\ d.at = "discovering" /\ tick \in Nat /\ Same /\ UNCHANGED tokens
      /\ d.token.tenant = t
  BY DialogIs DEF Discover, At, DialogFits, FitsItself, FitsTheTime, TokenFits, ClientInv, ClientRows,
                  Published
<1>2. CASE d.token.roles /\ consent[t].is = "granted"
  <2>1. PICK m : m = [tenant |-> t, read |-> tick]
    OBVIOUS
  <2>2. m \in MapRow /\ m # NoMap /\ m.tenant = t /\ m.read = tick
    BY <1>1, <2>1, ClientAssumption DEF MapRow, NoMap
  <2>3. PICK w : w = [d EXCEPT !.at = "discovered", !.map = m]
    OBVIOUS
  <2>4. /\ w \in DialogRow /\ w.at = "discovered" /\ w.what = d.what /\ w.tenant = t
        /\ w.token = d.token /\ w.map = m /\ w.began = d.began /\ w.result = d.result
        /\ w.sent = d.sent
    BY <1>1, <2>2, <2>3, DialogIs DEF DialogRow, Flights
  <2>5. dialogs' = [dialogs EXCEPT ![p] = w] /\ UNCHANGED services
    BY <1>1, <1>2, <2>1, <2>3 DEF Discover, Move
  <2>6. DialogFits(w)
    BY <1>1, <2>2, <2>4, DialogIs
    DEF DialogFits, FitsItself, FitsTheTime, FitsTheCaches, Flights
  <2> QED
    BY <1>1, <2>4, <2>5, <2>6, DialogMovesAlone DEF Same
<1>3. CASE ~(d.token.roles /\ consent[t].is = "granted")
  <2>1. Close(p, "refused") /\ (UNCHANGED services \/ forgetServices(t))
    BY <1>1, <1>3 DEF Discover
  <2> QED
    BY <1>1, <2>1, Closes, Unmoved, MapForgotten
<1> QED
  BY <1>2, <1>3

(* The map is cached with the time the call has taken, and used.             *)
LEMMA StoresServices ==
  ASSUME ClientInv, NEW p \in Callers, storeServices(p)
  PROVE  ClientInv'
<1> DEFINE t == dialogs[p].tenant
           m == dialogs[p].map
<1>1. /\ t \in Tenants /\ dialogs[p].at = "discovered" /\ tick \in Nat /\ Same /\ UNCHANGED tokens
      /\ Addressed(p, m) /\ services' = [services EXCEPT ![t] = m] /\ m \in MapRow
  BY DialogIs DEF storeServices, At, DialogFits, FitsItself, ClientInv, ClientRows, Published, DialogRow
<1>2. NewMap(m, t)
  <2>1. FitsItself(dialogs[p]) /\ FitsTheTime(dialogs[p])
    BY DialogIs DEF DialogFits
  <2>2. m # NoMap /\ dialogs[p].sent <= m.read /\ tick <= dialogs[p].sent + CallTime
    BY <1>1, <2>1 DEF FitsTheTime, Flights
  <2>3. dialogs[p].sent \in Nat /\ m.read \in Nat
    BY <1>1, DialogIs DEF DialogRow, MapRow
  <2>4. m.tenant = t
    BY <1>1, <2>1, <2>2 DEF FitsItself
  <2> QED
    BY <1>1, <2>2, <2>3, <2>4, ClientAssumption DEF NewMap
<1>3. CachesMove
  BY <1>1, <1>2 DEF CachesMove, Same, ClientInv, ClientRows
<1> QED
  BY <1>1, <1>2, <1>3, GoesOn DEF NewMap

(* A call that ends or fails is over; a failed post forgets the map.          *)
LEMMA CallEnds ==
  ASSUME ClientInv, NEW p \in Callers, scepPost(p) \/ PostFails(p) \/ CallFails(p)
  PROVE  ClientInv'
<1>1. dialogs[p].at # "idle" /\ dialogs[p].tenant \in Tenants
  BY DialogIs DEF scepPost, PostFails, CallFails, At, Flights, DialogFits, FitsItself
<1>2. CASE scepPost(p)
  BY <1>1, <1>2, Closes, Unmoved DEF scepPost
<1>3. CASE PostFails(p)
  BY <1>1, <1>3, Closes, MapForgotten DEF PostFails
<1>4. CASE CallFails(p)
  BY <1>1, <1>4, Closes, Unmoved DEF CallFails
<1> QED
  BY <1>2, <1>3, <1>4

(* Consent comes after every token that was minted without it.                *)
LEMMA Consents ==
  ASSUME ClientInv, NEW t \in Tenants, NEW is \in {"created", "granted", "withdrawn"}, Consent(t, is)
  PROVE  ClientInv'
<1>1. PICK c : c = [is |-> is, since |-> tick]
  OBVIOUS
<1>2. tick \in Nat /\ c \in ConsentRow /\ c.since = tick
  BY <1>1 DEF ClientInv, ClientRows, Published, ConsentRow
<1>3. /\ consent' \in [Tenants -> ConsentRow]
      /\ \A u \in Tenants : consent'[u] = consent[u] \/ consent'[u].since = tick
      /\ UNCHANGED <<question, tick, tokens, services, dialogs>>
  BY <1>1, <1>2 DEF Consent, ClientInv, ClientRows
<1>4. ASSUME NEW w, NEW u, u \in Tenants \/ w = NoToken, TokenFits(w, u) PROVE TokenFits(w, u)'
  BY <1>3, <1>4 DEF TokenFits
<1>5. CachesFit'
  BY <1>2, <1>3, <1>4 DEF ClientInv, CachesFit, Dropped
<1>6. ASSUME NEW q \in Callers, NEW d, d = dialogs[q] PROVE DialogFits(d)'
  <2>1. DialogFits(d) /\ d \in DialogRow
    BY <1>6, DialogIs
  <2>2. d.tenant \in Tenants \/ d.token = NoToken
    BY <2>1 DEF DialogFits, TokenFits
  <2>3. TokenFits(d.token, d.tenant)'
    BY <1>4, <2>1, <2>2 DEF DialogFits
  <2> QED
    BY <1>3, <2>1, <2>3 DEF DialogFits, FitsItself, FitsTheTime, FitsTheCaches
<1> QED
  BY <1>3, <1>5, <1>6 DEF ClientInv, ClientRows

(* Time passes only where every call is under way and has time left.          *)
LEMMA Elapses ==
  ASSUME ClientInv, Elapse
  PROVE  ClientInv'
<1>1. /\ tick \in Nat /\ tick' = tick + 1 /\ tick' \in Published
      /\ UNCHANGED <<question, consent, tokens, services, dialogs>>
  <2>1. tick \in Nat /\ tick < Latest
    BY DEF Elapse, ClientInv, ClientRows, Published
  <2>2. Latest \in 0..MaxTicks
    BY ClientAssumption DEF Latest
  <2> QED
    BY <2>1, <2>2, ClientAssumption DEF Elapse, Published
<1>2. ASSUME NEW w \in TokenRow, NEW u, TokenFits(w, u) PROVE TokenFits(w, u)'
  BY <1>1, <1>2 DEF TokenFits, TokenRow
<1>3. CachesFit'
  <2>1. \A t \in Tenants : consent'[t].since <= tick'
    BY <1>1 DEF ClientInv, ClientRows, CachesFit, ConsentRow
  <2>2. \A t \in Tenants, s \in Scopes : tokens[<<t, s>>] \in TokenRow
    BY DEF ClientInv, ClientRows
  <2>3. \A t \in Tenants, s \in Scopes : TokenFits(tokens[<<t, s>>], t)'
    BY <1>1, <1>2, <2>2 DEF ClientInv, CachesFit, TokenFits
  <2> QED
    BY <1>1, <2>1, <2>3 DEF ClientInv, CachesFit, Dropped
<1>4. ASSUME NEW q \in Callers, NEW d, d = dialogs[q] PROVE DialogFits(d)'
  <2>1. DialogFits(d) /\ d \in DialogRow /\ d.token \in TokenRow
    BY <1>4, DialogIs DEF DialogRow
  <2>2. d.at = "idle" \/ (d.at \in Flights /\ tick < d.sent + CallTime)
    BY <1>4 DEF Elapse
  <2>3. FitsItself(d)' /\ FitsTheCaches(d)'
    BY <2>1, <2>2 DEF DialogFits, FitsItself, FitsTheCaches, Flights
  <2>4. FitsTheTime(d)'
    BY <1>1, <2>1, <2>2, ClientAssumption DEF DialogFits, FitsTheTime, Flights, DialogRow, MapRow
  <2> QED
    BY <1>2, <2>1, <2>3, <2>4 DEF DialogFits
<1> QED
  BY <1>1, <1>3, <1>4 DEF ClientInv, ClientRows

(* Nothing is cached and nobody calls.                                       *)
LEMMA ClientStarts == ClientInit => ClientInv
<1> SUFFICES ASSUME ClientInit PROVE ClientInv
  OBVIOUS
<1>1. ClientRows
  BY NoTokenFits, NoMapFits, NoDialogFits, ClientAssumption
  DEF ClientInit, ClientRows, Published, ConsentRow
<1>2. CachesFit
  BY NoTokenFits, NoMapFits DEF ClientInit, CachesFit
<1> QED
  BY <1>1, <1>2, NoDialogFits DEF ClientInit, ClientInv

(* Every step keeps the invariant.                                           *)
LEMMA ClientSteps == ClientInv /\ [ClientNext]_clientVars => ClientInv'
<1> SUFFICES ASSUME ClientInv, [ClientNext]_clientVars PROVE ClientInv'
  OBVIOUS
<1>1. CASE UNCHANGED clientVars
  BY <1>1 DEF clientVars, ClientInv, ClientRows, CachesFit, DialogFits, FitsItself, FitsTheTime,
              FitsTheCaches, TokenFits, Dropped
<1>2. ASSUME NEW p \in Callers, NEW t \in Tenants, VerifyTenant(p, t) \/ postTo(p, t) PROVE ClientInv'
  BY <1>2, Verifies, Posts
<1>3. ASSUME NEW p \in Callers,
             \/ VerifyAgain(p) \/ serviceEndpoint(p) \/ token(p) \/ Mint(p) \/ storeToken(p)
             \/ Discover(p) \/ storeServices(p) \/ scepPost(p) \/ PostFails(p) \/ CallFails(p)
      PROVE  ClientInv'
  BY <1>3, Verifies, LooksUp, TakesToken, Mints, StoresToken, Discovers, StoresServices, CallEnds
<1> QED
  BY <1>1, <1>2, <1>3, Elapses, Consents DEF ClientNext

(* A call changes its own record only.                                        *)
LEMMA MovesOne ==
  ASSUME ClientInv, ClientNext, NEW q \in Callers, dialogs[q].at # "idle", dialogs'[q] # dialogs[q]
  PROVE  \/ serviceEndpoint(q) \/ token(q) \/ Mint(q) \/ storeToken(q) \/ Discover(q)
         \/ storeServices(q) \/ scepPost(q) \/ PostFails(q) \/ CallFails(q)
<1>1. ASSUME NEW p \in Callers, NEW w, Move(p, w) PROVE p = q
  BY <1>1 DEF Move, ClientInv, ClientRows
<1>2. ASSUME NEW p \in Callers, NEW t \in Tenants, VerifyTenant(p, t) \/ postTo(p, t) PROVE FALSE
  BY <1>1, <1>2 DEF VerifyTenant, postTo, CheckTenant, At
<1>3. ASSUME NEW p \in Callers, VerifyAgain(p) PROVE FALSE
  BY <1>1, <1>3 DEF VerifyAgain, CheckTenant, At
<1>4. ASSUME NEW p \in Callers,
             \/ serviceEndpoint(p) \/ token(p) \/ Mint(p) \/ storeToken(p)
             \/ Discover(p) \/ storeServices(p) \/ scepPost(p) \/ PostFails(p) \/ CallFails(p)
      PROVE  p = q
  BY <1>1, <1>4 DEF serviceEndpoint, token, Mint, storeToken, Discover, storeServices, scepPost,
                    PostFails, CallFails, Close, Addressed
<1>5. ~Elapse /\ ~\E t \in Tenants : \E is \in {"created", "granted", "withdrawn"} : Consent(t, is)
  BY DEF Elapse, Consent
<1> QED
  BY <1>2, <1>3, <1>4, <1>5 DEF ClientNext

(* A verification ends well with a map, cached or just discovered, and is     *)
(* refused at a token or at the discovery.                                    *)
LEMMA Outcomes ==
  ASSUME ClientInv, ClientNext, NEW q \in Callers, NEW result \in {"ok", "refused"}, Decided(q, result)
  PROVE  LET d == dialogs[q]
         IN \/ /\ result = "ok"
               /\ storeServices(q) \/ (serviceEndpoint(q) /\ services[d.tenant] # NoMap)
            \/ /\ result = "refused"
               /\ \/ Mint(q) /\ consent[d.tenant].is \in {"none", "withdrawn"}
                  \/ Discover(q) /\ ~(d.token.roles /\ consent[d.token.tenant].is = "granted")
<1> DEFINE d == dialogs[q]
<1>1. /\ d \in DialogRow /\ FitsItself(d) /\ d.at # "idle" /\ d.what = "check" /\ d.result = "none"
      /\ d.at # "posting" /\ dialogs'[q].result = result
  BY DialogIs DEF Decided, DialogFits, FitsItself
<1>2. ASSUME NEW w, Move(q, w) PROVE dialogs'[q] = w
  BY <1>2 DEF Move, ClientInv, ClientRows
<1>3. ASSUME NEW r \in {"ok", "refused", "failed"}, Close(q, r) PROVE r = result
  BY <1>1, <1>2, <1>3, NoDialogFits DEF Close, DialogRow
<1>4. ASSUME NEW at, NEW m, Move(q, [d EXCEPT !.at = at]) \/ Move(q, [d EXCEPT !.at = at, !.map = m])
      PROVE  FALSE
  <2>1. PICK w : w \in {[d EXCEPT !.at = at], [d EXCEPT !.at = at, !.map = m]} /\ Move(q, w)
    BY <1>4
  <2>2. w.result = "none"
    BY <1>1, <2>1 DEF DialogRow
  <2> QED
    BY <1>1, <1>2, <2>1, <2>2
<1>5. ASSUME NEW at, NEW k, NEW n,
             \/ Move(q, [d EXCEPT !.at = at, !.sent = n]) \/ Move(q, [d EXCEPT !.at = at, !.token = k])
             \/ Move(q, [d EXCEPT !.at = at, !.token = k, !.sent = n])
      PROVE  FALSE
  <2>1. PICK w : /\ w \in {[d EXCEPT !.at = at, !.sent = n], [d EXCEPT !.at = at, !.token = k],
                            [d EXCEPT !.at = at, !.token = k, !.sent = n]}
                 /\ Move(q, w)
    BY <1>5
  <2>2. w.result = "none"
    BY <1>1, <2>1 DEF DialogRow
  <2> QED
    BY <1>1, <1>2, <2>1, <2>2
<1>6. \/ serviceEndpoint(q) \/ token(q) \/ Mint(q) \/ storeToken(q) \/ Discover(q)
      \/ storeServices(q) \/ CallFails(q)
  BY <1>1, MovesOne DEF scepPost, PostFails, At
<1>7. CASE serviceEndpoint(q)
  BY <1>1, <1>3, <1>4, <1>7 DEF serviceEndpoint, Addressed
<1>8. CASE token(q)
  BY <1>5, <1>8, Zenon DEF token
<1>9. CASE Mint(q)
  <2>1. CASE consent[d.tenant].is \in {"none", "withdrawn"}
    BY <1>3, <1>9, <2>1 DEF Mint
  <2>2. CASE consent[d.tenant].is \notin {"none", "withdrawn"}
    <3>1. PICK k : Move(q, [d EXCEPT !.at = "minted", !.token = k])
      BY <1>9, <2>2 DEF Mint
    <3> QED
      BY <1>5, <3>1, Zenon
  <2> QED
    BY <2>1, <2>2
<1>10. CASE storeToken(q)
  <2>1. PICK k : Move(q, [d EXCEPT !.at = Onward(q), !.token = k, !.sent = tick])
    BY <1>10 DEF storeToken
  <2> QED
    BY <1>5, <2>1, Zenon
<1>11. CASE Discover(q)
  <2>1. CASE d.token.roles /\ consent[d.token.tenant].is = "granted"
    <3>1. PICK m : Move(q, [d EXCEPT !.at = "discovered", !.map = m])
      BY <1>11, <2>1 DEF Discover
    <3> QED
      BY <1>4, <3>1, Zenon
  <2>2. CASE ~(d.token.roles /\ consent[d.token.tenant].is = "granted")
    BY <1>3, <1>11, <2>2 DEF Discover
  <2> QED
    BY <2>1, <2>2
<1>12. CASE storeServices(q)
  BY <1>1, <1>3, <1>12 DEF storeServices, Addressed
<1>13. CASE CallFails(q)
  BY <1>1, <1>3, <1>13 DEF CallFails
<1> QED
  BY <1>6, <1>7, <1>8, <1>9, <1>10, <1>11, <1>12, <1>13

(* A verification that ends well rests on a map read since it began, or by a  *)
(* call that was under way.                                                   *)
LEMMA EndsWell == ClientInv /\ [ClientNext]_clientVars => CheckedAfresh \/ UNCHANGED clientVars
<1> SUFFICES ASSUME ClientInv, ClientNext, NEW q \in Callers, Decided(q, "ok")
             PROVE  dialogs[q].began <= services'[dialogs[q].tenant].read + CallTime
  BY DEF CheckedAfresh
<1> DEFINE d == dialogs[q]
<1>1. d \in DialogRow /\ DialogFits(d) /\ d.what = "check" /\ d.at # "idle" /\ d.tenant \in Tenants
  BY DialogIs DEF Decided, DialogFits, FitsItself
<1>2. CASE serviceEndpoint(q) /\ services[d.tenant] # NoMap
  BY <1>1, <1>2 DEF serviceEndpoint, At, DialogFits, FitsTheCaches
<1>3. CASE storeServices(q)
  <2>1. services'[d.tenant] = d.map /\ d.at = "discovered"
    BY <1>1, <1>3 DEF storeServices, At, ClientInv, ClientRows
  <2>2. d.began <= d.sent /\ d.sent <= d.map.read
    BY <1>1, <2>1 DEF DialogFits, FitsTheTime, Flights
  <2> QED
    BY <1>1, <2>1, <2>2, ClientAssumption DEF DialogRow, MapRow
<1> QED
  BY <1>2, <1>3, Outcomes

(* One that is refused by a tenant with its roles has a token that was minted *)
(* without them.                                                              *)
LEMMA IsRefused == ClientInv /\ [ClientNext]_clientVars => NoStaleRefusal \/ UNCHANGED clientVars
<1> SUFFICES ASSUME ClientInv, ClientNext, NEW q \in Callers, Decided(q, "refused"),
                    consent[dialogs[q].tenant].is = "granted"
             PROVE  dialogs[q].began <= consent[dialogs[q].tenant].since + CallTime
  BY DEF NoStaleRefusal
<1> DEFINE d == dialogs[q]
<1>1. d \in DialogRow /\ DialogFits(d) /\ d.what = "check" /\ d.at # "idle" /\ d.tenant \in Tenants
  BY DialogIs DEF Decided, DialogFits, FitsItself
<1>2. d.at = "discovering" /\ ~(d.token.roles /\ consent[d.token.tenant].is = "granted")
  BY Outcomes DEF Discover, At
<1>3. d.token # NoToken /\ d.began <= d.token.minted + CallTime /\ TokenFits(d.token, d.tenant)
  BY <1>1, <1>2 DEF DialogFits, FitsTheTime
<1>4. d.token.minted <= consent[d.tenant].since
  BY <1>2, <1>3 DEF TokenFits
<1>5. d.began \in Nat /\ d.token.minted \in Nat /\ consent[d.tenant].since \in Nat
  BY <1>1 DEF DialogRow, TokenRow, ClientInv, ClientRows, ConsentRow
<1> QED
  BY <1>3, <1>4, <1>5, ClientAssumption

(* What the state says follows.                                               *)
LEMMA ClientStateIs == ClientInv => TokenOutlivesCall /\ TenantsApart /\ ClientTypeOK
<1> SUFFICES ASSUME ClientInv PROVE TokenOutlivesCall /\ TenantsApart /\ ClientTypeOK
  OBVIOUS
<1>1. TokenOutlivesCall
  <2> SUFFICES ASSUME NEW p \in Callers, dialogs[p].at \in {"discovering", "posting"}
               PROVE  tick < dialogs[p].token.minted + Ttl
    BY DEF TokenOutlivesCall
  <2>1. tick \in Nat /\ dialogs[p].sent \in Nat /\ dialogs[p].token.minted \in Nat
    BY DialogIs DEF ClientInv, ClientRows, Published, DialogRow, TokenRow
  <2> QED
    BY <2>1, DialogIs, ClientAssumption DEF DialogFits, FitsTheTime, Flights
<1>2. TenantsApart
  BY DialogIs, NoTokenFits, NoMapFits DEF TenantsApart, DialogFits, FitsItself, TokenFits
<1>3. ClientTypeOK
  <2>1. question \in Questions /\ tick \in Published /\ tick \in Nat
    BY DEF ClientInv, ClientRows, Published
  <2>2. \A t \in Tenants : consent[t].is \in {"none", "created", "granted", "withdrawn"}
                            /\ consent[t].since <= tick
    BY DEF ClientInv, ClientRows, CachesFit, ConsentRow
  <2>3. ASSUME NEW t \in Tenants, NEW s \in Scopes PROVE tokens[<<t, s>>].minted <= tick
    <3>1. TokenFits(tokens[<<t, s>>], t)
      BY DEF ClientInv, CachesFit
    <3>2. CASE tokens[<<t, s>>] = NoToken
      BY <2>1, <3>2, NoTokenFits
    <3> QED
      BY <3>1, <3>2 DEF TokenFits
  <2>4. ASSUME NEW p \in Callers, NEW d, d = dialogs[p]
        PROVE  /\ d.at \in Flights \union {"idle", "services", "token"}
               /\ d.at # "idle" => d.tenant \in Tenants
               /\ d.at \in Flights => d.sent <= tick /\ tick <= d.sent + CallTime
               /\ d.at \in {"discovering", "posting"} => d.token # NoToken
               /\ d.attempt \in 0..Attempts
    BY <2>4, DialogIs DEF DialogRow, DialogFits, FitsItself, FitsTheTime
  <2> QED
    BY <2>1, <2>2, <2>3, <2>4 DEF ClientTypeOK
<1> QED
  BY <1>1, <1>2, <1>3

(* What is cached saves calls and changes no answer: a call under way carries *)
(* a token that lives, of its tenant; a verification that ends well is of     *)
(* now, and one that is refused was too early.                                *)
THEOREM AnswersAreFresh == ClientSpec => CachesAreHonest
  BY ClientStarts, ClientSteps, EndsWell, IsRefused, ClientStateIs, PTL DEF ClientSpec, CachesAreHonest

============================================================================

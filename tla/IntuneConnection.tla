--------------------------- MODULE IntuneConnection ---------------------------
(* Binding the organization to a Microsoft Entra directory: an administrator  *)
(* signs in (leg 1), then grants consent (leg 2).  What is in flight is kept  *)
(* in one signed browser cookie; tabs share it, go back, reload and answer    *)
(* out of order, and a callback waits for Microsoft between what it read and  *)
(* what it stores.                                                            *)
EXTENDS Naturals

CONSTANTS
    Tabs,           \* callbacks under way
    Directories,    \* Entra tenants
    Nonces,         \* nonces, numbered as they are drawn
    NoOne

ASSUME ConnectionAssumption ==
    Nonces \subseteq Nat /\ NoOne \notin Directories \union Nonces /\ NoOne \notin {"signin", "consent"}

VARIABLES
    cookie,         \* the browser's intune_consent cookie
    answers,        \* callbacks Microsoft sent the browser to, usable again
    tabs,           \* callbacks between two of their steps
    connection,     \* scep_intune_connection, with the nonce it came under
    signedIn,       \* the directory leg 1 proved before each leg-2 nonce
    granted,        \* consents given, by nonce and directory
    spent           \* nonces of the flows that have connected a directory

connectionVars == <<cookie, answers, tabs, connection, signedIn, granted, spent>>

NoCookie == [stage |-> NoOne, nonce |-> NoOne, tenant |-> NoOne]
NoTab == [at |-> "idle", nonce |-> NoOne, tenant |-> NoOne]
Unbound == [tenant |-> NoOne, nonce |-> NoOne]

(* Types of the cookie, the tabs and the connection.                       *)
ConnectionTypeOK ==
    /\ cookie \in [stage : {"signin", "consent", NoOne}, nonce : Nonces \union {NoOne},
                   tenant : Directories \union {NoOne}]
    /\ cookie.stage = NoOne <=> cookie.nonce = NoOne
    /\ cookie.stage = "consent" <=> cookie.tenant # NoOne
    /\ answers \subseteq [leg : {"signin", "consent"}, nonce : Nonces, tenant : Directories]
    /\ tabs \in [Tabs -> [at : {"idle", "redeem", "verify"}, nonce : Nonces \union {NoOne},
                          tenant : Directories \union {NoOne}]]
    /\ connection \in [tenant : Directories \union {NoOne}, nonce : Nonces \union {NoOne}]
    /\ signedIn \in [Nonces -> Directories \union {NoOne}]
    /\ granted \subseteq Nonces \X Directories /\ spent \subseteq Nonces

ConnectionInit ==
    /\ cookie = NoCookie /\ answers = {} /\ connection = Unbound /\ granted = {} /\ spent = {}
    /\ tabs = [t \in Tabs |-> NoTab] /\ signedIn = [n \in Nonces |-> NoOne]

----------------------------------------------------------------------------

Drawn(n) == n = cookie.nonce \/ signedIn[n] # NoOne \/ \E a \in answers : a.nonce = n
            \/ \E t \in Tabs : tabs[t].nonce = n
RandomSecret(n) == ~Drawn(n) /\ \A m \in Nonces : m < n => Drawn(m)
setConsentCookie(s, n, d) == cookie' = [stage |-> s, nonce |-> n, tenant |-> d]
consentFailed == cookie' = NoCookie
(* Fault: success leaves the cookie to its ten minutes.                       *)
FaultClearConsentCookie == UNCHANGED cookie
clearConsentCookie == cookie' = NoCookie
readConsentCookie(s) == cookie.stage = s
matchesNonce(n) == cookie.nonce = n
NamesDirectory(d) == d = cookie.tenant

connectIntune(n) ==
    /\ RandomSecret(n) /\ setConsentCookie("signin", n, NoOne)
    /\ UNCHANGED <<answers, tabs, connection, signedIn, granted, spent>>

(* Microsoft's side: the administrator signs in to a directory of theirs, or  *)
(* grants consent in one, and the browser is sent back with the nonce.        *)
Redirect(leg, n, d) ==
    /\ cookie.stage = leg /\ cookie.nonce = n
    /\ answers' = answers \union {[leg |-> leg, nonce |-> n, tenant |-> d]}
    /\ granted' = IF leg = "consent" THEN granted \union {<<n, d>>} ELSE granted
    /\ UNCHANGED <<cookie, tabs, connection, signedIn, spent>>

(* Leg 1 comes back: the code is redeemed before the next cookie is set.      *)
intuneSignInCallback(t, a) ==
    /\ tabs[t].at = "idle" /\ a \in answers /\ a.leg = "signin"
    /\ IF readConsentCookie("signin") /\ matchesNonce(a.nonce)
       THEN tabs' = [tabs EXCEPT ![t] = [at |-> "redeem", nonce |-> a.nonce, tenant |-> a.tenant]]
            /\ UNCHANGED cookie
       ELSE consentFailed /\ UNCHANGED tabs
    /\ UNCHANGED <<answers, connection, signedIn, granted, spent>>

(* The code can be spent once; a refusal abandons the flow.                   *)
redeemSignIn(t) ==
    LET code == [leg |-> "signin", nonce |-> tabs[t].nonce, tenant |-> tabs[t].tenant] IN
    /\ tabs[t].at = "redeem" /\ tabs' = [tabs EXCEPT ![t] = NoTab]
    /\ answers' = answers \ {code}
    /\ \/ \E n \in Nonces :
            /\ code \in answers /\ RandomSecret(n)
            /\ setConsentCookie("consent", n, tabs[t].tenant)
            /\ signedIn' = [signedIn EXCEPT ![n] = tabs[t].tenant]
       \/ consentFailed /\ UNCHANGED signedIn
    /\ UNCHANGED <<connection, granted, spent>>

(* Leg 2 comes back: what the cookie says is checked, then Microsoft is asked.*)
intuneConsentCallback(t, a) ==
    /\ tabs[t].at = "idle" /\ a \in answers /\ a.leg = "consent"
    /\ IF readConsentCookie("consent") /\ matchesNonce(a.nonce) /\ NamesDirectory(a.tenant)
       THEN tabs' = [tabs EXCEPT ![t] = [at |-> "verify", nonce |-> cookie.nonce,
                                         tenant |-> cookie.tenant]]
            /\ UNCHANGED cookie
       ELSE consentFailed /\ UNCHANGED tabs
    /\ UNCHANGED <<answers, connection, signedIn, granted, spent>>

(* VerifyIntuneTenant gave up, or the transaction did not commit.             *)
VerifyIntuneTenant(t) ==
    /\ tabs[t].at = "verify" /\ tabs' = [tabs EXCEPT ![t] = NoTab] /\ consentFailed
    /\ UNCHANGED <<answers, connection, signedIn, granted, spent>>

ConnectIntune(t) ==
    /\ tabs[t].at = "verify" /\ tabs' = [tabs EXCEPT ![t] = NoTab] /\ clearConsentCookie
    /\ spent' = spent \union {tabs[t].nonce}
    /\ connection' = [tenant |-> tabs[t].tenant, nonce |-> tabs[t].nonce]
    /\ UNCHANGED <<answers, signedIn, granted>>

DisconnectIntune ==
    /\ connection # Unbound /\ connection' = Unbound
    /\ UNCHANGED <<cookie, answers, tabs, signedIn, granted, spent>>

ConnectionNext ==
    \/ \E n \in Nonces : \/ connectIntune(n)
                         \/ \E leg \in {"signin", "consent"}, d \in Directories : Redirect(leg, n, d)
    \/ \E t \in Tabs : \/ redeemSignIn(t) \/ VerifyIntuneTenant(t) \/ ConnectIntune(t)
                       \/ \E a \in answers : intuneSignInCallback(t, a) \/ intuneConsentCallback(t, a)
    \/ DisconnectIntune

ConnectionSpec == ConnectionInit /\ [][ConnectionNext]_connectionVars

----------------------------------------------------------------------------

(* The directory connected is one the administrator signed in to and gave     *)
(* consent in during one and the same flow, whatever other tabs answered      *)
(* meanwhile ("the identity check the whole two-leg shape exists for").       *)
ConnectedIsProved ==
    connection # Unbound =>
        /\ signedIn[connection.nonce] = connection.tenant
        /\ <<connection.nonce, connection.tenant>> \in granted

(* A flow connects once: the answer that connected a directory cannot, after  *)
(* it is disconnected, connect it again from a tab that reloads it            *)
(* (clearConsentCookie).                                                      *)
FlowIsSpent ==
    \A t \in Tabs :
      tabs[t].at = "idle" /\ tabs'[t].at = "verify" => tabs'[t].nonce \notin spent

(* A directory is connected by one whole flow, once (consent.go).             *)
FlowIsProved ==
    [][/\ FlowIsSpent
       /\ ConnectedIsProved'
       /\ ConnectionTypeOK']_connectionVars
=============================================================================

--------------------------- MODULE IssuancePolicy ----------------------------
(* What a certificate may say: its extended key usages, its names and its     *)
(* dates, from the root's profile through the CA's and the endpoint's policy  *)
(* down to the request.  Each is decided at another time and by another part  *)
(* of the program: profiles when a CA is made, policies when they are saved,  *)
(* pins when a challenge, a credential or an order is, the rest when the      *)
(* certificate is signed.  Policies may change in between.                    *)
EXTENDS Naturals, FiniteSets

CONSTANTS
    Aspects,        \* what a behaviour may be about
    Usages,         \* extended key usages a form or a request can name
    Texts,          \* what a name reads as, in one case
    Named,          \* subject alternative names: a form and a text
    SubjectNames,   \* subjects: as rendered, and the common name in them
    MaxNow,         \* the clock
    Spans           \* days a form can ask for

Client == "client_auth"
Server == "server_auth"
Responder == "ocsp_signing"
AnyPurpose == "any"
Wildcard == "wildcard"
Nameless == "no common name"

(* dns stands for dNSName and iPAddress, uri for the other two forms x509     *)
(* parses, upn for those UnparsedSANs renders.  It skips what is outside the  *)
(* context class, constructed or an otherName it cannot take apart: unread.   *)
Forms == {"dns", "uri", "upn", "unread"}
Commons == Texts \union {Nameless}
NoSubject == [shown |-> Nameless, common |-> Nameless]

ASSUME PolicyAssumption ==
    /\ {Client, Server, Responder, AnyPurpose} \subseteq Usages
    /\ Wildcard \in Texts /\ Nameless \notin Texts /\ Named \subseteq [form : Forms, text : Texts]
    /\ NoSubject \in SubjectNames /\ SubjectNames \subseteq [shown : Commons, common : Commons]
    /\ MaxNow \in Nat /\ MaxNow >= 2 /\ Spans \subseteq Nat

VARIABLES
    aspect,
    now,            \* in quarters of a day
    root, issuing,  \* the two CAs: profile and dates
    rules,          \* the endpoint's policy
    pin,            \* what a challenge, a credential or an order is limited to
    leaf,           \* the certificate issued last
    renewed         \* the one it renewed, or itself

policyVars == <<aspect, now, root, issuing, rules, pin, leaf, renewed>>

Day == 4
Skew == 2    \* certificates start earlier than they are made by less than a day
NoCert == [via |-> "none", usages |-> {}, subject |-> NoSubject, sans |-> {}, from |-> 0, to |-> 0]
NoCAYet == [made |-> FALSE, usages |-> {}, from |-> 0, to |-> 0]
Closed == [set |-> FALSE, matches |-> {}, blank |-> FALSE]

(* Types of profiles, policies, pins and certificates.                     *)
PolicyTypeOK ==
    /\ aspect \in Aspects /\ now \in 0..MaxNow
    /\ \A ca \in {root, issuing} : ca.made \in BOOLEAN /\ ca.usages \subseteq Usages \ {AnyPurpose}
    /\ issuing.made => root.made
    /\ rules.allowed \subseteq Usages /\ rules.subjects \subseteq Commons
    /\ rules.san.matches \subseteq Texts /\ (~rules.san.set => rules.san = Closed)
    /\ pin.kind \in {"none", "challenge", "credential", "order"}
    /\ pin.usages \subseteq Usages /\ pin.names \subseteq Texts
    /\ (pin.kind = "order") => pin.names # {}
    /\ \A c \in {leaf, renewed} :
         c.usages \subseteq Usages /\ c.subject \in SubjectNames /\ c.sans \subseteq Named

Profiled(usages) == [made |-> TRUE, usages |-> usages, from |-> 0, to |-> 2 * Day]

(* Names and dates start with the CAs that matter for them.                   *)
PolicyInit ==
    /\ aspect \in Aspects /\ now = Skew
    /\ root = (IF aspect = "names" THEN Profiled({Client}) ELSE NoCAYet) /\ issuing = root
    /\ rules = [allowed |-> {Client}, subjects |-> Commons, san |-> Closed, protocol |-> "scep"]
    /\ pin = [kind |-> "none", usages |-> {}, names |-> {}]
    /\ leaf = NoCert /\ renewed = NoCert

----------------------------------------------------------------------------
(* Profiles.                                                                 *)

(* Any purpose is refused; nothing means client authentication.               *)
ValidateEKUs(asked) == AnyPurpose \notin asked
Normal(asked) == IF asked = {} THEN {Client} ELSE asked

ekusWithinParent(usages) == usages \subseteq root.usages

DaysFromNow(days) == [from |-> now - Skew, to |-> now + Day * days]
validityDays(days, default) == IF days = 0 THEN default ELSE days
Earlier(a, b) == IF a < b THEN a ELSE b

createRoot(asked, days) ==
    /\ aspect # "names" /\ ~root.made /\ ValidateEKUs(asked)
    /\ LET dates == DaysFromNow(validityDays(days, 2))
       IN root' = [made |-> TRUE, usages |-> Normal(asked), from |-> dates.from, to |-> dates.to]
    /\ UNCHANGED <<aspect, now, issuing, rules, pin, leaf, renewed>>

IssuingUntil(to) == Earlier(to, root.to)

createIssuing(asked, days) ==
    /\ root.made /\ ~issuing.made /\ ValidateEKUs(asked) /\ ekusWithinParent(Normal(asked))
    /\ LET dates == DaysFromNow(validityDays(days, 1))
       IN issuing' = [made |-> TRUE, usages |-> Normal(asked), from |-> dates.from,
                      to |-> IssuingUntil(dates.to)]
    /\ UNCHANGED <<aspect, now, root, rules, pin, leaf, renewed>>

(* The span of the CA, in whole days, from now on; none means the default.    *)
RotatedDays == (issuing.to - issuing.from) \div Day
rotateIssuing ==
    /\ aspect = "dates" /\ issuing.made
    /\ LET dates == DaysFromNow(validityDays(IF issuing.to < issuing.from THEN 0 ELSE RotatedDays, 1))
       IN issuing' = [issuing EXCEPT !.from = dates.from, !.to = IssuingUntil(dates.to)]
    /\ leaf' = NoCert /\ renewed' = NoCert
    /\ UNCHANGED <<aspect, now, root, rules, pin>>

PassTime ==
    /\ aspect = "dates" /\ now < MaxNow /\ now' = now + 1
    /\ UNCHANGED <<aspect, root, issuing, rules, pin, leaf, renewed>>

----------------------------------------------------------------------------
(* Usages: the endpoint's list, the pin of a challenge, the request.          *)

EKUChoices == Usages \ {Responder, AnyPurpose}

ValidateAllowedEKUs(asked) == asked # {} /\ asked \subseteq EKUChoices /\ asked \subseteq issuing.usages

Allow(asked, protocol) ==
    /\ aspect = "usages" /\ issuing.made /\ leaf = NoCert
    /\ rules' = [rules EXCEPT !.allowed = asked, !.protocol = protocol]
    /\ UNCHANGED <<aspect, now, root, issuing, pin, leaf, renewed>>
AllowScep(asked) == ValidateAllowedEKUs(asked) /\ rules.protocol = "scep" /\ Allow(asked, "scep")
(* EST and ACME leave the comparison with the CA to the issuance.             *)
AllowEst(asked) == ValidateEKUs(asked) /\ pin.kind # "challenge" /\ Allow(asked, "est")
AllowAcme(asked) == ValidateEKUs(asked) /\ pin.kind # "challenge" /\ Allow(asked, "acme")

narrowEKUs(asked) == asked \subseteq rules.allowed
mintChallenge(asked) ==
    /\ aspect = "usages" /\ rules.protocol = "scep" /\ pin.kind = "none" /\ leaf = NoCert
    /\ narrowEKUs(asked)
    /\ pin' = [pin EXCEPT !.kind = "challenge", !.usages = asked]
    /\ UNCHANGED <<aspect, now, root, issuing, rules, leaf, renewed>>

ResolvedAllowed == IF rules.allowed = {} THEN {Client} ELSE rules.allowed
ResolveEKUs(asked, given) ==
    /\ asked \subseteq ResolvedAllowed /\ given = Normal(asked)
    /\ asked = {} => Client \in ResolvedAllowed

sameEKUSet(usages) == pin.usages = usages

(* Nothing asked for and nothing required is the CA's whole profile.          *)
ekuSelection(asked, required, given) ==
    IF asked \union required = {} THEN given = issuing.usages
    ELSE /\ given = asked \union required
         /\ ValidateEKUs(given) /\ given \subseteq issuing.usages

Issued(via, usages, subject, sans, dates) ==
    [via |-> via, usages |-> usages, subject |-> subject, sans |-> sans, from |-> dates.from, to |-> dates.to]
Sign(cert) ==
    /\ leaf' = cert /\ renewed' = cert
    /\ UNCHANGED <<aspect, now, root, issuing, rules, pin>>

UsagesOnly(via, asked, required) ==
    \E given \in SUBSET Usages :
        /\ ekuSelection(asked, required, given)
        /\ Sign(Issued(via, given, NoSubject, {}, [from |-> 0, to |-> 1]))

EnrolScep(asked) ==
    /\ aspect = "usages" /\ issuing.made /\ rules.protocol = "scep" /\ leaf = NoCert
    /\ \E given \in SUBSET Usages :
         /\ ResolveEKUs(asked, given)
         /\ pin.usages # {} => sameEKUSet(given)
         /\ UsagesOnly("scep", given, {})
EnrolEst(asked) ==
    /\ aspect = "usages" /\ issuing.made /\ rules.protocol = "est" /\ leaf = NoCert
    /\ \E given \in SUBSET Usages : ResolveEKUs(asked, given) /\ UsagesOnly("est", given, {})
(* An order gets the endpoint's list, whatever the request asks for.          *)
FinalizeAcme ==
    /\ aspect = "usages" /\ issuing.made /\ rules.protocol = "acme" /\ leaf = NoCert
    /\ UsagesOnly("acme", rules.allowed, {})
(* The console's forms.                                                       *)
signCSR(asked) ==
    aspect = "usages" /\ issuing.made /\ leaf = NoCert /\ UsagesOnly("console", asked, {})
IssueGenerated(asked, required) ==
    aspect = "usages" /\ issuing.made /\ leaf = NoCert /\ UsagesOnly("console", asked, {required})
issueGenerated(asked) == \E required \in {Client, Server} : IssueGenerated(asked, required)
(* What a form can tick or spell out, and what a request can carry.           *)
ekuInput == SUBSET Usages
RequestedEKUs == SUBSET Usages

----------------------------------------------------------------------------
(* Names.                                                                    *)

(* Names are compared by their text alone, whatever form each came in.        *)
ShownAs(sans, forms) == {n.text : n \in {m \in sans : m.form \in forms}}
Parsed(sans) == ShownAs(sans, {"dns", "uri"})
UnparsedSANs(sans) == ShownAs(sans, {"upn"})
CSRSANNames(sans) == Parsed(sans) \union UnparsedSANs(sans)
certSANNames(cert) == Parsed(cert.sans) \union UnparsedSANs(cert.sans)

(* Two subjects may have one rendering (an attribute that holds ",CN=").      *)
RenderSubject(subject) == subject.shown

(* A request with no name is tested as an empty one.                          *)
Check(subject, names) ==
    /\ subject \in rules.subjects
    /\ IF ~rules.san.set THEN names = {}
       ELSE IF names = {} THEN rules.san.blank ELSE names \subseteq rules.san.matches
validateNames(csr) == Check(RenderSubject(csr.subject), CSRSANNames(csr.sans))
checkEstNames(csr) == Check(RenderSubject(csr.subject), CSRSANNames(csr.sans))

checkIdentifierPin(csr) ==
    pin.kind = "credential" =>
        LET requested == CSRSANNames(csr.sans) \union ({csr.subject.common} \ {Nameless})
        IN requested # {} /\ requested \subseteq pin.names

(* Fault: the subject is compared and nothing else.                           *)
FaultSameNames(cert, csr) == RenderSubject(csr.subject) = RenderSubject(cert.subject)
(* A renewal may drop a name and gain none.                                   *)
sameNames(cert, csr) ==
    /\ RenderSubject(csr.subject) = RenderSubject(cert.subject)
    /\ CSRSANNames(csr.sans) \subseteq certSANNames(cert)

SetRules(san, subjects) ==
    /\ aspect = "names"
    /\ rules' = [rules EXCEPT !.san = san, !.subjects = subjects]
    /\ UNCHANGED <<aspect, now, root, issuing, pin, leaf, renewed>>

PinCredential(names) ==
    /\ aspect = "names" /\ pin.kind = "none" /\ leaf = NoCert /\ names # {}
    /\ pin' = [pin EXCEPT !.kind = "credential", !.names = names]
    /\ UNCHANGED <<aspect, now, root, issuing, rules, leaf, renewed>>

NamesOnly(via, csr) == Issued(via, {Client}, csr.subject, csr.sans, [from |-> 0, to |-> 1])
ScepNames(csr) ==
    /\ aspect = "names" /\ leaf = NoCert /\ pin.kind = "none" /\ validateNames(csr)
    /\ Sign(NamesOnly("scep", csr))
EstNames(csr) ==
    /\ aspect = "names" /\ leaf = NoCert /\ pin.kind # "order" /\ checkEstNames(csr) /\ checkIdentifierPin(csr)
    /\ Sign(NamesOnly("est", csr))

(* A renewal of a renewal is a renewal of the first.                          *)
RenewScep(csr) ==
    /\ aspect = "names" /\ leaf.via = "scep" /\ validateNames(csr) /\ sameNames(leaf, csr)
    /\ leaf' = NamesOnly("scep", csr)
    /\ UNCHANGED <<aspect, now, root, issuing, rules, pin, renewed>>

----------------------------------------------------------------------------
(* Orders: names are authorized when the order is made.                       *)

normalizeIdentifiers(names) == names # {} /\ Wildcard \notin names
checkIdentifier(name) == rules.san.set /\ name \in rules.san.matches
NewOrder(names) ==
    /\ aspect = "names" /\ pin.kind = "none" /\ leaf = NoCert
    /\ normalizeIdentifiers(names) /\ \A name \in names : checkIdentifier(name)
    /\ pin' = [pin EXCEPT !.kind = "order", !.names = names]
    /\ UNCHANGED <<aspect, now, root, issuing, rules, leaf, renewed>>

checkCSRNames(csr) ==
    /\ UnparsedSANs(csr.sans) = {} /\ ShownAs(csr.sans, {"uri"}) = {}
    /\ ShownAs(csr.sans, {"dns"}) = pin.names
    /\ csr.subject.common \in pin.names \union {Nameless}
checkSubjectPolicy(csr) == RenderSubject(csr.subject) \in rules.subjects
FinalizeNames(csr) ==
    /\ aspect = "names" /\ pin.kind = "order" /\ leaf = NoCert
    /\ checkCSRNames(csr) /\ checkSubjectPolicy(csr)
    /\ Sign(NamesOnly("acme", csr))

----------------------------------------------------------------------------
(* Dates.                                                                    *)

leafValidityDays(days) == IF days = 0 THEN 1 ELSE days
IssuerIsValid == issuing.from <= now /\ now <= issuing.to
LeafUntil(to) == Earlier(to, issuing.to)

signLeaf(days) ==
    /\ aspect = "dates" /\ issuing.made /\ IssuerIsValid
    /\ LET dates == DaysFromNow(leafValidityDays(days))
           until == LeafUntil(dates.to)
       IN /\ until > dates.from
          /\ Sign(Issued("console", {Client}, NoSubject, {}, [from |-> dates.from, to |-> until]))

Requested == [subject : SubjectNames, sans : SUBSET Named]
SANRules == {Closed} \union [set : {TRUE}, matches : SUBSET Texts, blank : BOOLEAN]

PolicyNext ==
    \/ \E asked \in (IF aspect = "usages" THEN ekuInput ELSE {{}}), days \in Spans :
         createRoot(asked, days) \/ createIssuing(asked, days)
    \/ \E asked \in ekuInput :
         \/ AllowScep(asked) \/ AllowEst(asked) \/ AllowAcme(asked) \/ mintChallenge(asked)
         \/ signCSR(asked) \/ issueGenerated(asked)
    \/ \E asked \in RequestedEKUs : EnrolScep(asked) \/ EnrolEst(asked)
    \/ FinalizeAcme
    \/ \E san \in SANRules, subjects \in {Commons, {Nameless}} : SetRules(san, subjects)
    \/ \E names \in SUBSET Texts : PinCredential(names) \/ NewOrder(names)
    \/ \E csr \in Requested : ScepNames(csr) \/ EstNames(csr) \/ RenewScep(csr) \/ FinalizeNames(csr)
    \/ rotateIssuing \/ PassTime \/ \E days \in Spans : signLeaf(days)

PolicySpec == PolicyInit /\ [][PolicyNext]_policyVars

----------------------------------------------------------------------------
(* Properties.                                                               *)

(* Every certificate has usages, all of them in the profile of its CA and of  *)
(* the root above it, whichever form, request or list they came from          *)
(* (pki/service.go:391, pki/subject.go ekuSelection, ekusWithinParent).       *)
UsagesWithinCA ==
    (leaf.via # "none" /\ aspect = "usages") =>
        leaf.usages # {} /\ leaf.usages \subseteq issuing.usages /\ issuing.usages \subseteq root.usages

(* No device that enrols over SCEP becomes a responder for its CA             *)
(* (scep/eku.go:19).                                                          *)
DeviceIsNoResponder == leaf.via = "scep" => leaf.usages \intersect {Responder, AnyPurpose} = {}

(* A challenge that names usages is spent on those and no others, although    *)
(* the endpoint's list may have changed since it was minted (scep/service.go, *)
(* authorize).                                                                *)
PinnedUsages == (leaf.via = "scep" /\ pin.usages # {}) => leaf.usages = pin.usages

(* A device that asks for nothing gets client authentication alone, not all   *)
(* that the endpoint's list or the CA's profile allows (scep/eku.go:142).     *)
NothingAskedIsClient ==
    EnrolScep({}) \/ EnrolEst({}) => leaf'.usages = {Client}

(* pki/subject.go:504-511 has every entry of the extension read by one half   *)
(* or the other.  Those UnparsedSANs skips are issued by no rule, against     *)
(* lines 507-511, and the statements below are about the rest.                *)
Read(sans) == {n \in sans : n.form # "unread"}

(* A certificate issued over SCEP or EST carries only names its endpoint's    *)
(* policy matched by their text when it was issued, in whatever form they     *)
(* came, and with no policy none (pki/policy.go:60).                          *)
NamesWerePermitted ==
    (leaf' # leaf /\ leaf'.via \in {"scep", "est"} /\ aspect = "names") =>
        \A n \in Read(leaf'.sans) : rules.san.set /\ n.text \in rules.san.matches

(* A pinned credential puts no text outside its pin in a certificate, common  *)
(* name included (est/service.go:476).                                        *)
PinnedNamesOnly ==
    (leaf.via = "est" /\ pin.kind = "credential") =>
        /\ \A n \in Read(leaf.sans) : n.text \in pin.names
        /\ leaf.subject.common \in pin.names \union {Nameless}

(* However often it is renewed and whatever the policy has become, a device's *)
(* certificate shows the subject it first enrolled and no text it did not;    *)
(* a name may come back in another form, and another subject that is rendered *)
(* alike passes (scep/service.go:794).                                        *)
RenewalNeverGains ==
    leaf.via = "scep" =>
        /\ leaf.subject.shown = renewed.subject.shown
        /\ \A n \in Read(leaf.sans) : \E m \in Read(renewed.sans) : n.text = m.text

(* An ACME certificate names exactly what its order was authorized for: its   *)
(* common name too, no wildcard and no other form that is read                *)
(* (acme/service.go:950).                                                     *)
AcmeExact ==
    (leaf.via = "acme" /\ aspect = "names") =>
        /\ {n.text : n \in Read(leaf.sans)} = pin.names /\ Wildcard \notin pin.names
        /\ \A n \in Read(leaf.sans) : n.form = "dns"
        /\ leaf.subject.common \in pin.names \union {Nameless}

(* A certificate ends with its CA at the latest, and the CA with its root     *)
(* (pki/service.go:570, pki/service.go CreateCA).                             *)
EndsWithItsCA ==
    aspect = "dates" =>
        /\ issuing.made => issuing.to <= root.to
        /\ leaf.via # "none" => leaf.from < leaf.to /\ leaf.to <= issuing.to

(* And it is valid at the moment it is issued, however few days are left of   *)
(* its CA (pki/service.go:565).                                               *)
ValidWhenIssued ==
    (aspect = "dates" /\ leaf' # leaf /\ leaf'.via # "none") => leaf'.from <= now /\ now <= leaf'.to

(* What a certificate says that the code reads is what every level above it   *)
(* permits: usages, names by their text and dates, over three protocols and   *)
(* policies that change.                                                      *)
CertificateIsPermitted ==
    [][/\ UsagesWithinCA'
       /\ DeviceIsNoResponder'
       /\ PinnedUsages'
       /\ NothingAskedIsClient
       /\ NamesWerePermitted
       /\ PinnedNamesOnly'
       /\ RenewalNeverGains'
       /\ AcmeExact'
       /\ EndsWithItsCA'
       /\ ValidWhenIssued
       /\ PolicyTypeOK']_policyVars
=============================================================================

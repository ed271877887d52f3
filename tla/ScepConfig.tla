----------------------------- MODULE ScepConfig ------------------------------
(* The console side of SCEP: endpoints, their names, their authentication     *)
(* methods and the challenges minted for them.  A console request reads in its*)
(* transaction and writes later in it; at READ COMMITTED another request may  *)
(* commit between the two.  A write and its COMMIT are one step: until then   *)
(* the row is locked and nobody else sees it changed.                         *)
EXTENDS Naturals, FiniteSets

CONSTANTS
    Admins,         \* console and webhook requests
    Listings,       \* scep_endpoint rows, numbered as they are created
    Titles,         \* names, equal when they fold to the same case
    Minted,         \* scep_challenge rows, numbered as they are minted
    Concerns,       \* what a behaviour may be about
    NoTitle

ASSUME ConfigAssumption ==
    /\ Listings \subseteq Nat \ {0} /\ Minted \subseteq Nat \ {0}
    /\ Titles # {} /\ NoTitle \notin Titles
    /\ Concerns \subseteq {"names", "methods", "challenges"}

VARIABLES
    concern,
    listings,       \* scep_endpoint with its scep_auth_method rows
    directory,      \* scep_intune_connection has a row
    minted,         \* the endpoint of each scep_challenge row, 0 for none
    raCertificates, \* certificates recorded with purpose scep_ra
    crossed,        \* changes written over one they had not read
    admins          \* requests between reading and writing

configVars == <<concern, listings, directory, minted, raCertificates, crossed, admins>>

Switches == {"one_time", "static", "intune", "jamf"}
Crossings == {<<"jamf", "one_time">>, <<"one_time", "jamf">>, <<"intune", "directory">>}
NoAdmin == [at |-> "idle", id |-> 0, title |-> NoTitle, switch |-> "static", on |-> FALSE, missed |-> {}]
NoListing == [row |-> "none", title |-> NoTitle, enabled |-> FALSE, on |-> {}, ready |-> {}]

(* Types; and an endpoint has an RA certificate.                           *)
ConfigTypeOK ==
    /\ concern \in Concerns /\ directory \in BOOLEAN
    /\ listings \in [Listings -> [row : {"none", "live", "deleted"}, title : Titles \union {NoTitle},
                                  enabled : BOOLEAN, on : SUBSET Switches,
                                  ready : SUBSET {"static", "jamf"}]]
    /\ minted \in [Minted -> Listings \union {0}]
    /\ raCertificates \subseteq Listings
    /\ \A l \in Listings : listings[l].row # "none" => l \in raCertificates
    /\ crossed \subseteq Crossings
    /\ admins \in [Admins ->
         [at : {"idle", "issue", "protect", "delete", "enable", "policy", "switch", "challenge"},
          id : Listings \union {0}, title : Titles \union {NoTitle}, switch : Switches,
          on : BOOLEAN, missed : SUBSET {"jamf", "one_time", "directory"}]]

ConfigInit ==
    /\ concern \in Concerns
    /\ LET seeded == [NoListing EXCEPT !.row = "live", !.title = CHOOSE t \in Titles : TRUE]
           withJamf == [seeded EXCEPT !.enabled = TRUE, !.on = {"one_time", "jamf"}, !.ready = {"jamf"}]
       IN listings = [l \in Listings |->
              CASE l # 1 \/ concern = "names" -> NoListing
                [] l = 1 /\ concern = "methods" -> seeded
                [] l = 1 /\ concern = "challenges" -> withJamf]
    /\ directory \in (IF concern = "methods" THEN BOOLEAN ELSE {FALSE})
    /\ minted = [c \in Minted |-> 0]
    /\ raCertificates = {l \in Listings : listings[l].row = "live"}
    /\ crossed = {} /\ admins = [a \in Admins |-> NoAdmin]

Least(S) == CHOOSE x \in S : \A y \in S : x <= y
LiveListing(l) == listings[l].row = "live"
Taken(t) == \E l \in Listings : LiveListing(l) /\ listings[l].title = t
Unused == {l \in Listings : /\ listings[l].row = "none" /\ l \notin raCertificates
                            /\ \A a \in Admins : admins[a].id # l}

----------------------------------------------------------------------------
(* Creating an endpoint.                                                     *)

(* A name that is blank, too long or has control characters is NoTitle.       *)
validEndpointName(t) == t # NoTitle

(* The name is looked for before anything is signed.                          *)
createEndpoint(a, t) ==
    /\ concern = "names" /\ admins[a].at = "idle" /\ validEndpointName(t) /\ ~Taken(t) /\ Unused # {}
    /\ admins' = [admins EXCEPT ![a] = [NoAdmin EXCEPT !.at = "issue", !.id = Least(Unused), !.title = t]]
    /\ UNCHANGED <<concern, listings, directory, minted, raCertificates, crossed>>

IssueRA(a) ==
    /\ admins[a].at = "issue" /\ admins' = [admins EXCEPT ![a].at = "protect"]
    /\ UNCHANGED <<concern, listings, directory, minted, raCertificates, crossed>>

RecordRA(id) == raCertificates \union {id}

(* Protect fails in the key provider: the form shows it and the transaction,  *)
(* with the RA certificate, commits.                                          *)
ProtectFails(a) ==
    /\ admins[a].at = "protect"
    /\ raCertificates' = RecordRA(admins[a].id)
    /\ admins' = [admins EXCEPT ![a] = NoAdmin]
    /\ UNCHANGED <<concern, listings, directory, minted, crossed>>

SeedAuthMethods(id, t) == [NoListing EXCEPT !.row = "live", !.title = t]

(* The unique index waits for a transaction that inserts the same name and    *)
(* fails after it; the failed statement takes the RA certificate with it.     *)
InsertEndpoint(a) ==
    /\ admins[a].at = "protect"
    /\ IF Taken(admins[a].title) THEN UNCHANGED <<listings, raCertificates>>
       ELSE /\ listings' = [listings EXCEPT ![admins[a].id] =
                                SeedAuthMethods(admins[a].id, admins[a].title)]
            /\ raCertificates' = RecordRA(admins[a].id)
    /\ admins' = [admins EXCEPT ![a] = NoAdmin]
    /\ UNCHANGED <<concern, directory, minted, crossed>>

----------------------------------------------------------------------------
(* Requests that begin by reading their endpoint.                            *)

endpointFromPath(a, l) == admins[a].at = "idle" /\ LiveListing(l)
Reads(a, call) ==
    /\ admins' = [admins EXCEPT ![a] = call]
    /\ UNCHANGED <<concern, listings, directory, minted, raCertificates, crossed>>
(* What a write does, with the calls that had read before it.                 *)
Writes(a, after, what) ==
    /\ listings' = after
    /\ admins' = [b \in Admins |->
         IF b = a THEN NoAdmin
         ELSE IF admins[b].at = "switch"
         THEN [admins[b] EXCEPT !.missed = @ \union {x \in what : <<admins[b].switch, x>> \in Crossings}]
         ELSE admins[b]]

confirmDelete(a, l) ==
    /\ concern \in {"names", "challenges"} /\ endpointFromPath(a, l)
    /\ Reads(a, [NoAdmin EXCEPT !.at = "delete", !.id = l])

(* Methods, challenges and transaction rows go by cascade; the RA certificate *)
(* stays.                                                                     *)
DeleteEndpoint(a) ==
    /\ admins[a].at = "delete"
    /\ LET l == admins[a].id IN
       /\ Writes(a, [listings EXCEPT ![l] = IF LiveListing(l) THEN [NoListing EXCEPT !.row = "deleted"]
                                            ELSE @], {})
       /\ minted' = [c \in Minted |-> IF minted[c] = l THEN 0 ELSE minted[c]]
    /\ UNCHANGED <<concern, directory, raCertificates, crossed>>

(* Enabling asks for one method that is on.                                   *)
setEnabled(a, l, on) ==
    /\ concern \in {"methods", "challenges"} /\ endpointFromPath(a, l) /\ (on => listings[l].on # {})
    /\ Reads(a, [NoAdmin EXCEPT !.at = "enable", !.id = l, !.on = on])

SetEnabled(a) ==
    /\ admins[a].at = "enable"
    /\ LET l == admins[a].id IN
       Writes(a, IF LiveListing(l) THEN [listings EXCEPT ![l].enabled = admins[a].on] ELSE listings, {})
    /\ UNCHANGED <<concern, directory, minted, raCertificates, crossed>>

updatePolicy(a, l, t) ==
    /\ concern = "names" /\ endpointFromPath(a, l) /\ validEndpointName(t)
    /\ Reads(a, [NoAdmin EXCEPT !.at = "policy", !.id = l, !.title = t])

Renamed(l, t) == \A k \in Listings \ {l} : LiveListing(k) => listings[k].title # t

UpdatePolicy(a) ==
    /\ admins[a].at = "policy"
    /\ LET l == admins[a].id IN
       Writes(a, IF LiveListing(l) /\ Renamed(l, admins[a].title)
                 THEN [listings EXCEPT ![l].title = admins[a].title] ELSE listings, {})
    /\ UNCHANGED <<concern, directory, minted, raCertificates, crossed>>

----------------------------------------------------------------------------
(* Authentication methods.                                                   *)

Configured(l, m) ==
    CASE m = "one_time" -> TRUE [] m = "intune" -> directory [] OTHER -> m \in listings[l].ready

(* Jamf's webhook mints one-time challenges.                                  *)
Interlock(l, m, on) ==
    /\ m = "jamf" /\ on => "one_time" \in listings[l].on
    /\ m = "one_time" /\ ~on => "jamf" \notin listings[l].on

setMethodEnabled(a, l, m, on) ==
    /\ concern = "methods" /\ endpointFromPath(a, l)
    /\ on => Configured(l, m)
    /\ Interlock(l, m, on)
    /\ Reads(a, [NoAdmin EXCEPT !.at = "switch", !.id = l, !.switch = m, !.on = on])

SetMethodEnabled(a) ==
    /\ admins[a].at = "switch"
    /\ LET l == admins[a].id
           m == admins[a].switch
       IN /\ Writes(a, IF ~LiveListing(l) THEN listings
                       ELSE [listings EXCEPT ![l].on = IF admins[a].on THEN @ \union {m} ELSE @ \ {m}], {m})
          /\ crossed' = crossed \union {<<m, x>> : x \in admins[a].missed}
    /\ UNCHANGED <<concern, directory, minted, raCertificates>>

(* One upsert: it is read and written at once.                                *)
rotateStaticSecret(l) ==
    /\ concern = "methods" /\ LiveListing(l) /\ "static" \notin listings[l].ready
    /\ listings' = [listings EXCEPT ![l].ready = @ \union {"static"}]
    /\ UNCHANGED <<concern, directory, minted, raCertificates, crossed, admins>>

configureJamf(l) ==
    /\ concern = "methods" /\ LiveListing(l) /\ "jamf" \notin listings[l].ready
    /\ listings' = [listings EXCEPT ![l].ready = @ \union {"jamf"}]
    /\ UNCHANGED <<concern, directory, minted, raCertificates, crossed, admins>>

connectDirectory ==
    /\ concern = "methods" /\ ~directory /\ directory' = TRUE
    /\ UNCHANGED <<concern, listings, minted, raCertificates, crossed, admins>>

(* Fault: the connection goes and the methods stay on.                        *)
FaultSwitchedOff == listings
SwitchedOff == [l \in Listings |-> [listings[l] EXCEPT !.on = @ \ {"intune"}]]

disconnectIntune ==
    /\ concern = "methods" /\ directory /\ directory' = FALSE
    /\ Writes(0, SwitchedOff, {"directory"})
    /\ UNCHANGED <<concern, minted, raCertificates, crossed>>

----------------------------------------------------------------------------
(* Challenges.                                                               *)

createChallenge(a, l) ==
    /\ concern = "challenges" /\ endpointFromPath(a, l)
    /\ Reads(a, [NoAdmin EXCEPT !.at = "challenge", !.id = l])

(* The row is visible to the webhook while the endpoint is enabled; the       *)
(* webhook asks for Jamf to be on, and not for one-time challenges.           *)
jamfChallenge(a, l) ==
    /\ concern = "challenges" /\ endpointFromPath(a, l) /\ listings[l].enabled
    /\ "jamf" \in listings[l].on /\ Configured(l, "jamf")
    /\ Reads(a, [NoAdmin EXCEPT !.at = "challenge", !.id = l, !.on = TRUE])

EndpointRow(l) == LiveListing(l)

CreateChallenge(a) ==
    LET free == {c \in Minted : minted[c] = 0} IN
    /\ admins[a].at = "challenge" /\ free # {}
    /\ minted' = IF EndpointRow(admins[a].id) THEN [minted EXCEPT ![Least(free)] = admins[a].id] ELSE minted
    /\ admins' = [admins EXCEPT ![a] = NoAdmin]
    /\ UNCHANGED <<concern, listings, directory, raCertificates, crossed>>

(* COMMIT fails, or the request is given up.                                  *)
LoseCall(a) ==
    /\ admins[a].at # "idle" /\ admins' = [admins EXCEPT ![a] = NoAdmin]
    /\ UNCHANGED <<concern, listings, directory, minted, raCertificates, crossed>>

ConfigNext ==
    \/ \E a \in Admins :
         \/ IssueRA(a) \/ ProtectFails(a) \/ InsertEndpoint(a) \/ DeleteEndpoint(a) \/ SetEnabled(a)
         \/ UpdatePolicy(a) \/ SetMethodEnabled(a) \/ CreateChallenge(a) \/ LoseCall(a)
         \/ \E t \in Titles \union {NoTitle} : createEndpoint(a, t) \/ \E l \in Listings : updatePolicy(a, l, t)
         \/ \E l \in Listings :
              \/ confirmDelete(a, l) \/ createChallenge(a, l) \/ jamfChallenge(a, l)
              \/ \E on \in BOOLEAN : setEnabled(a, l, on) \/ \E m \in Switches : setMethodEnabled(a, l, m, on)
    \/ \E l \in Listings : rotateStaticSecret(l) \/ configureJamf(l)
    \/ connectDirectory \/ disconnectIntune

ConfigSpec == ConfigInit /\ [][ConfigNext]_configVars

----------------------------------------------------------------------------
(* Properties.                                                               *)

(* However creations, renames and deletions overlap, no two endpoints of the  *)
(* organization share a name (InsertEndpoint and UpdatePolicy, repo.go).      *)
NamesDiffer ==
    \A l, k \in Listings : LiveListing(l) /\ LiveListing(k) /\ l # k => listings[l].title # listings[k].title

(* Jamf is on only with the one-time challenges it mints, unless the one was  *)
(* switched over a change of the other that the request had not read.         *)
JamfHasOneTime ==
    \/ {<<"jamf", "one_time">>, <<"one_time", "jamf">>} \intersect crossed # {}
    \/ \A l \in Listings : "jamf" \in listings[l].on => "one_time" \in listings[l].on

(* A method that is on can be used, across connects, disconnects and secrets; *)
(* only Intune switched on over a disconnect it had not read is an exception. *)
OnIsUsable ==
    \A l \in Listings : \A m \in listings[l].on :
        Configured(l, m) \/ (m = "intune" /\ <<"intune", "directory">> \in crossed)

(* No challenge outlives its endpoint, though it was authorized before the    *)
(* deletion.                                                                  *)
ChallengeHasEndpoint == \A c \in Minted : minted[c] # 0 => LiveListing(minted[c])

(* What a form checked still holds when it has been saved, whatever other     *)
(* forms were saved meanwhile: methods, the challenges they mint, the names   *)
(* (service.go, repo.go).                                                     *)
ConfigurationHolds ==
    /\ JamfHasOneTime
    /\ OnIsUsable
    /\ ChallengeHasEndpoint
    /\ NamesDiffer
    /\ ConfigTypeOK
=============================================================================

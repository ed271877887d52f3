--------------------------------- MODULE Team ---------------------------------
(* Who belongs to the organization: the setup of a fresh deployment, the      *)
(* invitations, the roles, and the trail each person leaves from an emailed   *)
(* link over a login challenge to a session.  A console request is one        *)
(* transaction that ends in COMMIT whatever its handler answers; what it      *)
(* reads before it writes are steps of their own.                             *)
EXTENDS Naturals, FiniteSets

CONSTANTS
    Calls,          \* requests under way
    People,         \* email addresses, two of them the first administrators'
    Users,          \* user rows; rows are numbered in the order they are created
    Trails,         \* magic_link, login_challenge and session rows of one sign-in
    Invites,        \* email_invitation rows
    Nobody

ASSUME TeamAssumption ==
    /\ Nobody \notin Calls \union People \union Users \union Trails \union Invites
    /\ Users \union Trails \union Invites \subseteq Nat \ {0} /\ {1, 2} \subseteq Users

Roles == {"administrator", "auditor"}

(* A role posted with a form; the field may be missing.                       *)
Posted == Roles \union {""}
validRole(ro) == ro \in Roles

VARIABLES
    theme,          \* what the behaviour is about
    founded,        \* organizations created
    users,          \* user rows
    trails,         \* where each sign-in stands, and the row it belongs to
    invites,        \* email_invitation rows
    calls           \* requests between two of their steps

teamVars == <<theme, founded, users, trails, invites, calls>>

NoCall == [at |-> "idle", who |-> Nobody, on |-> Nobody, row |-> Nobody,
           role |-> "none"]

Themes == {"setup", "members", "invitations", "reissues"}

(* Types: every account and invitation has a role the code knows.          *)
TeamTypeOK ==
    /\ theme \in Themes
    /\ founded \in 0..1
    /\ users \in [Users -> [row : {"none", "live", "gone"}, email : People \union {Nobody},
                            role : Roles \union {"none"}]]
    /\ trails \in [Trails -> [at : {"none", "link", "challenge", "session", "gone"},
                              of : Users \union {Nobody}]]
    /\ invites \in [Invites -> [state : {"none", "pending", "lapsed", "accepted", "withdrawn"},
                                email : People \union {Nobody}, role : Roles \union {"none"},
                                from : Invites \union {Nobody}]]
    /\ calls \in [Calls -> [at : {"idle", "setup", "accept", "verified", "admin", "revoke",
                                  "resend", "role", "remove"},
                            who : Users \union {Nobody},
                            on : People \union Users \union Trails \union Invites \union {Nobody},
                            row : Users \union {Nobody}, role : Roles \union {"none"}]]

(* A fresh deployment, or one with two administrators signed in.              *)
TeamInit ==
    /\ theme \in Themes
    /\ founded = (IF theme = "setup" THEN 0 ELSE 1)
    /\ calls = [c \in Calls |-> NoCall]
    /\ invites = [k \in Invites |-> [state |-> "none", email |-> Nobody, role |-> "none",
                                     from |-> Nobody]]
    /\ \E name \in [1..2 * founded -> People] :
         /\ \A u, v \in 1..2 * founded : name[u] = name[v] => u = v
         /\ users = [u \in Users |->
              IF u <= 2 * founded THEN [row |-> "live", email |-> name[u], role |-> "administrator"]
              ELSE [row |-> "none", email |-> Nobody, role |-> "none"]]
    /\ trails = [t \in Trails |-> IF t <= 2 * founded THEN [at |-> "session", of |-> t]
                                  ELSE [at |-> "none", of |-> Nobody]]

----------------------------------------------------------------------------
(* The rows.                                                                 *)

Member(u) == u \in Users /\ users[u].row = "live"
Inviting == theme \in {"invitations", "reissues"}
Holders(p) == {u \in Users : Member(u) /\ users[u].email = p}
UserByEmail(p) == Holders(p)
Earliest(i, S) == i \in S /\ \A j \in S : i <= j
NewRow(u) == Earliest(u, {v \in Users : /\ users[v].row = "none"
                                        /\ ~\E c \in Calls : calls[c].row = v})
NewTrail(t) == Earliest(t, {h \in Trails : trails[h].at = "none"})
(* Bound: two invitations, or one and two reissues of it.                      *)
InviteRows == IF theme = "reissues" THEN Invites ELSE Invites \intersect 1..2
NewInvite(k) == Earliest(k, {i \in InviteRows : invites[i].state = "none"})
CreateUser(u, p, ro) == [users EXCEPT ![u] = [row |-> "live", email |-> p, role |-> ro]]

(* A row of a trail needs its user row: the foreign keys, checked with a lock *)
(* on the user, of magic_link, login_challenge and session.                   *)
References(u) == Member(u)
CreateMagicLink(t, u) == [trails EXCEPT ![t] = [at |-> "link", of |-> u]]

(* organization_singleton: an unconditional unique index.                     *)
CreateOrganization == founded = 0

(* DELETE of a user, after its sessions; links and challenges cascade.        *)
DeleteUserRow(u) ==
    /\ users' = [users EXCEPT ![u].row = "gone"]
    /\ trails' = [t \in Trails |->
                   IF trails[t].of = u THEN [trails[t] EXCEPT !.at = "gone"] ELSE trails[t]]

(* An acceptance under way holds the invitation's row.                        *)
Accepting(k) == \E c \in Calls : calls[c].at = "accept" /\ calls[c].on = k
UpdateUserRole(u, ro) == [users EXCEPT ![u].role = ro]
(* Fault: the row is found whatever became of it.                             *)
FaultDeleteInvitation(k) == invites[k].state # "none"
DeleteInvitation(k) == invites[k].state \in {"pending", "lapsed"}
InvitationByID == {k \in Invites : invites[k].state \in {"pending", "lapsed"}}
Invitation(k, p, ro, old) ==
    [invites EXCEPT ![k] = [state |-> "pending", email |-> p, role |-> ro, from |-> old]]

(* An audit row names its actor: the key to the user row refuses one that has *)
(* been removed meanwhile, which aborts the transaction it is part of.        *)
Record(u) == References(u)
EndCall(c) == calls' = [calls EXCEPT ![c] = NoCall]

----------------------------------------------------------------------------
(* A fresh deployment.                                                       *)

completeSetup(c, p) ==
    /\ calls[c].at = "idle" /\ founded = 0 /\ UserByEmail(p) = {}
    /\ calls' = [calls EXCEPT ![c] = [NoCall EXCEPT !.at = "setup", !.on = p]]
    /\ UNCHANGED <<theme, founded, users, trails, invites>>

completeSetupCommit(c) ==
    /\ calls[c].at = "setup" /\ EndCall(c)
    /\ IF CreateOrganization
       THEN \E u \in Users, t \in Trails :
              /\ NewRow(u) /\ NewTrail(t) /\ founded' = founded + 1
              /\ users' = CreateUser(u, calls[c].on, "administrator")
              /\ trails' = CreateMagicLink(t, u)
       ELSE UNCHANGED <<founded, users, trails>>
    /\ UNCHANGED <<theme, invites>>

----------------------------------------------------------------------------
(* From a link to a session.                                                 *)

requestLink(p) ==
    /\ ~Inviting
    /\ \E u \in UserByEmail(p), t \in Trails : NewTrail(t) /\ trails' = CreateMagicLink(t, u)
    /\ UNCHANGED <<theme, founded, users, invites, calls>>

openLink(t) ==
    /\ trails[t].at = "link" /\ trails' = [trails EXCEPT ![t].at = "challenge"]
    /\ UNCHANGED <<theme, founded, users, invites, calls>>

(* A link, a challenge or a session runs out, or is signed out.               *)
DeleteSession(t) ==
    /\ ~Inviting /\ trails[t].at \in {"link", "challenge", "session"}
    /\ trails' = [trails EXCEPT ![t].at = "gone"]
    /\ UNCHANGED <<theme, founded, users, invites, calls>>

(* The second factor was right: the user is read, the session comes later.    *)
completeChallenge(c, t) ==
    /\ calls[c].at = "idle" /\ trails[t].at = "challenge"
    /\ calls' = [calls EXCEPT ![c] = [NoCall EXCEPT !.at = "verified", !.on = t]]
    /\ UNCHANGED <<theme, founded, users, trails, invites>>

completeChallengeCommit(c) ==
    LET t == calls[c].on IN
    /\ calls[c].at = "verified" /\ EndCall(c)
    /\ trails' = IF References(trails[t].of) THEN [trails EXCEPT ![t].at = "session"] ELSE trails
    /\ UNCHANGED <<theme, founded, users, invites>>

(* AcceptInvitation marks the invitation and looks for the user; the rest of  *)
(* the transaction creates it or gives it the role, and opens a challenge.    *)
AcceptInvitation(c, k) ==
    /\ calls[c].at = "idle" /\ invites[k].state = "pending" /\ ~Accepting(k)
    /\ \E u \in Users :
         /\ IF UserByEmail(invites[k].email) = {} THEN NewRow(u)
            ELSE u \in UserByEmail(invites[k].email)
         /\ calls' = [calls EXCEPT ![c] = [NoCall EXCEPT !.at = "accept", !.on = k, !.row = u]]
    /\ UNCHANGED <<theme, founded, users, trails, invites>>

acceptCommit(c) ==
    LET k == calls[c].on  u == calls[c].row IN
    /\ calls[c].at = "accept" /\ EndCall(c)
    /\ IF users[u].row = "none" \/ References(u)
       THEN /\ users' = IF References(u) THEN UpdateUserRole(u, invites[k].role)
                        ELSE CreateUser(u, invites[k].email, invites[k].role)
            /\ \E t \in Trails :
                 NewTrail(t) /\ trails' = [trails EXCEPT ![t] = [at |-> "challenge", of |-> u]]
            /\ invites' = [invites EXCEPT ![k].state = "accepted"]
       ELSE UNCHANGED <<users, trails, invites>>
    /\ UNCHANGED <<theme, founded>>

----------------------------------------------------------------------------
(* The team page.                                                            *)

(* serveSession reads the session and its account once, adminSession judges   *)
(* that reading.                                                             *)
adminSession(c, t) ==
    /\ theme # "setup" /\ calls[c].at = "idle" /\ trails[t].at = "session"
    /\ users[trails[t].of].role = "administrator"
    /\ calls' = [calls EXCEPT ![c] = [NoCall EXCEPT !.at = "admin", !.who = trails[t].of]]
    /\ UNCHANGED <<theme, founded, users, trails, invites>>

(* A change is recorded as it is reported; when the account that made it is   *)
(* gone, recording aborts the transaction.  A row whose mail could not be     *)
(* sent stays, and nothing is recorded.                                       *)
Kept(c, sent) == sent => Record(calls[c].who)

createInvitation(c, p, ro) ==
    /\ Inviting /\ calls[c].at = "admin" /\ validRole(ro)
    /\ \E k \in Invites, sent \in BOOLEAN :
         /\ NewInvite(k) /\ (theme = "reissues" => k = 1) /\ EndCall(c)
         /\ invites' = IF Kept(c, sent) THEN Invitation(k, p, ro, k) ELSE invites
    /\ UNCHANGED <<theme, founded, users, trails>>

(* Revoke and Resend first read the invitation.                               *)
OpenInvitation(c, kind) ==
    /\ calls[c].at = "admin"
    /\ \E k \in InvitationByID : calls' = [calls EXCEPT ![c].at = kind, ![c].on = k]
    /\ UNCHANGED <<theme, founded, users, trails, invites>>

revokeInvitation(c) ==
    LET k == calls[c].on IN
    /\ calls[c].at = "revoke" /\ ~Accepting(k) /\ EndCall(c)
    /\ invites' = IF DeleteInvitation(k) /\ Record(calls[c].who)
                  THEN [invites EXCEPT ![k].state = "withdrawn"] ELSE invites
    /\ UNCHANGED <<theme, founded, users, trails>>

resendInvitation(c) ==
    LET k == calls[c].on  p == invites[k].email IN
    /\ calls[c].at = "resend" /\ ~Accepting(k) /\ EndCall(c)
    /\ IF DeleteInvitation(k)
       THEN \E j \in Invites, sent \in BOOLEAN :
              /\ NewInvite(j)
              /\ invites' = IF Kept(c, sent)
                            THEN [Invitation(j, p, invites[k].role, invites[k].from)
                                    EXCEPT ![k].state = "withdrawn"]
                            ELSE invites
       ELSE UNCHANGED invites
    /\ UNCHANGED <<theme, founded, users, trails>>

LapseInvitation(k) ==
    /\ invites[k].state = "pending" /\ ~Accepting(k)
    /\ invites' = [invites EXCEPT ![k].state = "lapsed"]
    /\ UNCHANGED <<theme, founded, users, trails, calls>>

(* A change of role and a removal read the user first, never the actor.       *)
OpenUser(c, u, kind) ==
    /\ calls[c].at = "admin" /\ u # calls[c].who /\ Member(u)
    /\ theme # "reissues" /\ (kind = "role" => theme = "members")
    /\ calls' = [calls EXCEPT ![c].at = kind, ![c].on = u, ![c].role = users[u].role]
    /\ UNCHANGED <<theme, founded, users, trails, invites>>

(* A change is recorded when the role read before differs.                    *)
updateUserRole(c, ro) ==
    LET u == calls[c].on  silent == calls[c].role = ro IN
    /\ calls[c].at = "role" /\ validRole(ro) /\ EndCall(c)
    /\ users' = IF Member(u) /\ (silent \/ Record(calls[c].who)) THEN UpdateUserRole(u, ro) ELSE users
    /\ UNCHANGED <<theme, founded, trails, invites>>

deleteUser(c) ==
    LET u == calls[c].on IN
    /\ calls[c].at = "remove" /\ EndCall(c)
    /\ IF Member(u) /\ Record(calls[c].who) THEN DeleteUserRow(u) ELSE UNCHANGED <<users, trails>>
    /\ UNCHANGED <<theme, founded, invites>>

(* The database or the provider of mail fails: nothing of a transaction of    *)
(* the sign-in pages is kept.                                                 *)
AbandonCall(c) ==
    /\ calls[c].at # "idle" /\ EndCall(c) /\ UNCHANGED <<theme, founded, users, trails, invites>>

TeamNext ==
    \/ \E p \in People : requestLink(p)
    \/ \E t \in Trails : openLink(t) \/ DeleteSession(t)
    \/ \E k \in Invites : LapseInvitation(k)
    \/ \E c \in Calls :
         \/ \E p \in People : completeSetup(c, p)
         \/ completeSetupCommit(c) \/ completeChallengeCommit(c) \/ acceptCommit(c)
         \/ \E t \in Trails : completeChallenge(c, t) \/ adminSession(c, t)
         \/ \E k \in Invites : AcceptInvitation(c, k)
         \/ \E p \in People, ro \in Posted : createInvitation(c, p, ro)
         \/ \E kind \in {"revoke", "resend"} : OpenInvitation(c, kind)
         \/ \E u \in Users, kind \in {"role", "remove"} : OpenUser(c, u, kind)
         \/ revokeInvitation(c) \/ resendInvitation(c) \/ deleteUser(c) \/ AbandonCall(c)
         \/ \E ro \in Posted : updateUserRole(c, ro)

TeamSpec == TeamInit /\ [][TeamNext]_teamVars

----------------------------------------------------------------------------
(* Two people submit the setup form of a fresh deployment at once: one of     *)
(* them becomes its administrator.                                            *)
OneFounder == theme = "setup" => Cardinality({u \in Users : users[u].row # "none"}) <= 1

(* Removing a colleague ends what the colleague had open, also a sign-in that *)
(* is being completed: no link, challenge or session is left of a user row    *)
(* that is gone.                                                              *)
RemovedIsOut ==
    \A t \in Trails : trails[t].at \in {"link", "challenge", "session"} => Member(trails[t].of)

(* An invitation is accepted or withdrawn, never both: what an administrator  *)
(* was told is revoked opens no account, and an accepted one is not revoked.  *)
InvitationDecidedOnce ==
    \A k \in Invites : invites[k].state \in {"accepted", "withdrawn"} =>
      invites'[k] = invites[k]

(* Whoever accepts an invitation has an account with its address and role     *)
(* when the acceptance commits, also when the account is being removed.       *)
JoinsAsInvited ==
    \A k \in Invites : invites[k].state = "pending" /\ invites'[k].state = "accepted" =>
      \E u \in Users : users'[u] = [row |-> "live", email |-> invites[k].email,
                                    role |-> invites[k].role]

(* handler.go of resendInvitation: "exactly one link is live afterwards".     *)
(* Of an invitation and its reissues at most one token opens an account.      *)
OneLinkLive ==
    \A j, k \in {i \in Invites : invites[i].state = "pending"} :
        invites[j].from = invites[k].from => j = k

(* Who belongs to the organization is what its administrators decided, each   *)
(* thing once, however invitations, acceptances, sign-ins and removals        *)
(* overlap (handler.go, repo.go).                                             *)
MembersAreDecided ==
    [][/\ InvitationDecidedOnce
       /\ JoinsAsInvited
       /\ OneLinkLive'
       /\ RemovedIsOut'
       /\ OneFounder'
       /\ TeamTypeOK']_teamVars
=============================================================================

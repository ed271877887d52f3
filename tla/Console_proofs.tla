---------------------------- MODULE Console_proofs ----------------------------
(* Proofs about the console and what is reached without it: the pool of       *)
(* connections its requests share (ConnectionPool), who belongs to the        *)
(* organization (Team), the ACME endpoints with what hangs on them            *)
(* (AcmeService), how people sign in (SignIn), and the limiter in front of    *)
(* every public handler (RateLimiter).                                        *)
EXTENDS ConnectionPool, Team, AcmeService, SignIn, RateLimiter, Integers, FiniteSetTheorems,
        WellFoundedInduction, TLAPS

----------------------------------------------------------------------------
(* ConnectionPool.                                                           *)

(* No request has more than it needs, and one that is over has nothing.       *)
HeldIsNeeded ==
    \A r \in Served : held[r] <= Needs(r) /\ (r \in over => held[r] = 0)

PoolInv == PoolTypeOK /\ HeldIsNeeded /\ PoolBounded

(* Requests that hold one connection, or two, are finitely many.              *)
LEMMA HoldingFinite ==
  /\ IsFiniteSet(Holding) /\ IsFiniteSet(HoldingTwo)
  /\ Cardinality(Holding) \in Nat /\ Cardinality(HoldingTwo) \in Nat
<1>1. Holding \in SUBSET Served /\ HoldingTwo \in SUBSET Served
  BY DEF Holding, HoldingTwo
<1> QED
  BY <1>1, PoolAssumption, FS_Subset, FS_CardinalityType

(* A connection more is in use after BeginTx.                                 *)
LEMMA BeginTxTakesOne ==
  ASSUME PoolTypeOK, NEW r \in Served, BeginTx(r)
  PROVE  InUse' = InUse + 1
<1>1. /\ held \in [Served -> 0..2] /\ held[r] \in {0, 1}
      /\ held' = [held EXCEPT ![r] = @ + 1]
  BY PoolAssumption DEF PoolTypeOK, BeginTx, Needs
<1>2. CASE held[r] = 0
  <2>1. Holding' = Holding \cup {r} /\ r \notin Holding /\ HoldingTwo' = HoldingTwo
    BY <1>1, <1>2 DEF Holding, HoldingTwo
  <2>2. Cardinality(Holding \cup {r}) = Cardinality(Holding) + 1
    BY <2>1, HoldingFinite, FS_AddElement
  <2> QED
    BY <2>1, <2>2, HoldingFinite DEF InUse
<1>3. CASE held[r] = 1
  <2>1. HoldingTwo' = HoldingTwo \cup {r} /\ r \notin HoldingTwo /\ Holding' = Holding
    BY <1>1, <1>3 DEF Holding, HoldingTwo
  <2>2. Cardinality(HoldingTwo \cup {r}) = Cardinality(HoldingTwo) + 1
    BY <2>1, HoldingFinite, FS_AddElement
  <2> QED
    BY <2>1, <2>2, HoldingFinite DEF InUse
<1> QED
  BY <1>1, <1>2, <1>3

(* And no more than before when a request is over.                            *)
LEMMA FinishGivesBack ==
  ASSUME PoolTypeOK, NEW r \in Served, FinishRequest(r)
  PROVE  InUse' <= InUse
<1>1. Holding' \in SUBSET Holding /\ HoldingTwo' \in SUBSET HoldingTwo
  BY DEF PoolTypeOK, FinishRequest, Holding, HoldingTwo
<1>2. /\ IsFiniteSet(Holding') /\ IsFiniteSet(HoldingTwo')
      /\ Cardinality(Holding') <= Cardinality(Holding)
      /\ Cardinality(HoldingTwo') <= Cardinality(HoldingTwo)
  BY <1>1, HoldingFinite, FS_Subset
<1>3. Cardinality(Holding') \in Nat /\ Cardinality(HoldingTwo') \in Nat
  BY <1>2, FS_CardinalityType
<1> QED
  BY <1>2, <1>3, HoldingFinite DEF InUse

(* The pool starts unused.                                                    *)
LEMMA PoolStarts == PoolInit => PoolInv
<1> SUFFICES ASSUME PoolInit PROVE PoolInv
  OBVIOUS
<1>1. Holding = {} /\ HoldingTwo = {}
  BY DEF PoolInit, Holding, HoldingTwo
<1>2. PoolBounded
  BY <1>1, FS_EmptySet, PoolAssumption DEF PoolBounded, InUse
<1>3. PoolTypeOK /\ HeldIsNeeded
  BY DEF PoolInit, PoolTypeOK, HeldIsNeeded, Needs
<1> QED
  BY <1>2, <1>3 DEF PoolInv

(* No step takes more than there is, or than its request needs.               *)
LEMMA PoolSteps == PoolInv /\ [PoolNext]_poolVars => PoolInv'
<1> SUFFICES ASSUME PoolInv, [PoolNext]_poolVars PROVE PoolInv'
  OBVIOUS
<1>0. InUse \in Nat
  BY HoldingFinite DEF InUse
<1>1. ASSUME NEW r \in Served, BeginTx(r) PROVE PoolInv'
  <2>1. PoolTypeOK' /\ HeldIsNeeded'
    BY <1>1 DEF PoolInv, PoolTypeOK, HeldIsNeeded, BeginTx, Needs
  <2>2. PoolBounded'
    <3>1. InUse' = InUse + 1
      BY <1>1, BeginTxTakesOne DEF PoolInv
    <3>2. InUse < MaxOpenConns
      BY <1>1 DEF BeginTx, Available
    <3> QED
      BY <1>0, <3>1, <3>2, PoolAssumption DEF PoolBounded
  <2> QED
    BY <2>1, <2>2 DEF PoolInv
<1>2. ASSUME NEW r \in Served, FinishRequest(r) PROVE PoolInv'
  <2>1. PoolTypeOK' /\ HeldIsNeeded'
    BY <1>2 DEF PoolInv, PoolTypeOK, HeldIsNeeded, FinishRequest, Needs
  <2>2. InUse' \in Nat
    <3>1. Holding' \in SUBSET Served /\ HoldingTwo' \in SUBSET Served
      BY DEF Holding, HoldingTwo
    <3> QED
      BY <3>1, PoolAssumption, FS_Subset, FS_CardinalityType DEF InUse
  <2>3. PoolBounded'
    <3>1. InUse' <= InUse
      BY <1>2, FinishGivesBack DEF PoolInv
    <3> QED
      BY <1>0, <2>2, <3>1, PoolAssumption DEF PoolInv, PoolBounded
  <2> QED
    BY <2>1, <2>3 DEF PoolInv
<1>3. CASE UNCHANGED poolVars
  BY <1>3 DEF PoolInv, PoolTypeOK, HeldIsNeeded, PoolBounded, InUse, Holding, HoldingTwo, Needs, poolVars
<1> QED
  BY <1>1, <1>2, <1>3 DEF PoolNext

(* When nobody has all it needs, whoever waits for a second connection is a   *)
(* nested request, so fewer are in use than there are.                        *)
LEMMA FewNestedProceed == PoolInv => SomeoneProceeds
<1> SUFFICES ASSUME PoolInv, Cardinality(Nested) < MaxOpenConns,
                    \A r \in Served \ over : held[r] # Needs(r)
             PROVE  InUse < MaxOpenConns
  BY DEF SomeoneProceeds
<1>1. Holding \in SUBSET Nested /\ HoldingTwo = {}
  BY DEF PoolInv, PoolTypeOK, HeldIsNeeded, Holding, HoldingTwo, Needs
<1>2. IsFiniteSet(Nested) /\ Cardinality(Nested) \in Nat
  BY PoolAssumption, FS_Subset, FS_CardinalityType
<1>3. Cardinality(Holding) <= Cardinality(Nested) /\ Cardinality(HoldingTwo) = 0
  BY <1>1, <1>2, FS_Subset, FS_EmptySet
<1> QED
  BY <1>2, <1>3, HoldingFinite, PoolAssumption DEF InUse

(* The database never sees more connections than the bound, and while there   *)
(* are fewer nested requests than connections the requests never all wait for *)
(* each other (database.go, AuthFlow).                                        *)
THEOREM PoolNeverStops == PoolSpec => []PoolFlows
<1>1. PoolInv => PoolFlows
  BY FewNestedProceed DEF PoolFlows, PoolInv
<1> QED
  BY <1>1, PoolStarts, PoolSteps, PTL DEF PoolSpec

----------------------------------------------------------------------------
(* Team.                                                                     *)

UserRow == [row : {"none", "live", "gone"}, email : People \union {Nobody}, role : Roles \union {"none"}]
TrailRow == [at : {"none", "link", "challenge", "session", "gone"}, of : Users \union {Nobody}]
InviteRow == [state : {"none", "pending", "lapsed", "accepted", "withdrawn"},
              email : People \union {Nobody}, role : Roles \union {"none"},
              from : Invites \union {Nobody}]
CallRow == [at : {"idle", "setup", "accept", "verified", "admin", "revoke", "resend", "role", "remove"},
            who : Users \union {Nobody},
            on : People \union Users \union Trails \union Invites \union {Nobody},
            row : Users \union {Nobody}, role : Roles \union {"none"}]

RowsTyped ==
    /\ theme \in Themes /\ founded \in 0..1
    /\ users \in [Users -> UserRow] /\ trails \in [Trails -> TrailRow]
    /\ invites \in [Invites -> InviteRow] /\ calls \in [Calls -> CallRow]

(* A call works on a row of the kind its form is about.                       *)
CallsFit ==
    \A c \in Calls :
        /\ calls[c].at = "setup" => calls[c].on \in People
        /\ calls[c].at = "verified" => calls[c].on \in Trails
        /\ calls[c].at \in {"accept", "revoke", "resend"} => calls[c].on \in Invites
        /\ calls[c].at \in {"role", "remove"} => calls[c].on \in Users
        /\ calls[c].row # Nobody => calls[c].at = "accept"

(* An acceptance holds its invitation, which is pending, and the row of the   *)
(* account: one it found by its address, or a new one that is its own.        *)
AcceptanceHolds ==
    /\ \A c \in Calls : calls[c].at = "accept" =>
         LET k == calls[c].on  u == calls[c].row
         IN /\ u \in Users /\ invites[k].state = "pending"
            /\ users[u].row = "none" \/ users[u].email = invites[k].email
    /\ \A c, d \in Calls :
         calls[c].at = "accept" /\ calls[d].at = "accept"
           /\ (\/ calls[c].on = calls[d].on
               \/ calls[c].row = calls[d].row /\ users[calls[c].row].row = "none")
           => c = d

(* An invitation has an address, and of it and its reissues one at most is    *)
(* open, pending or lapsed.                                                   *)
OneOpen ==
    /\ \A j \in Invites : invites[j].state # "none" =>
         /\ invites[j].from \in Invites /\ invites[invites[j].from].state # "none"
         /\ invites[j].email \in People
    /\ \A j, k \in Invites :
         invites[j].state \in {"pending", "lapsed"} /\ invites[k].state \in {"pending", "lapsed"}
           /\ invites[j].from = invites[k].from => j = k

(* Setting up a deployment, nobody is invited and nobody administers.         *)
SetupAlone ==
    theme = "setup" =>
        /\ \A k \in Invites : invites[k].state = "none"
        /\ \A c \in Calls : calls[c].at \in {"idle", "setup", "verified"}
        /\ founded = 0 => \A u \in Users : users[u].row = "none"
        /\ \A u, v \in Users : users[u].row # "none" /\ users[v].row # "none" => u = v

TeamInv == RowsTyped /\ CallsFit /\ AcceptanceHolds /\ OneOpen /\ SetupAlone /\ RemovedIsOut

(* Invitation k is withdrawn for j, which has its address, role and origin.   *)
Reissued(k, j) ==
    /\ invites[j].state = "none" /\ invites[k].state \in {"pending", "lapsed"} /\ j # k
    /\ invites' \in [Invites -> InviteRow]
    /\ invites'[j].state = "pending" /\ invites'[j].email = invites[k].email
    /\ invites'[j].from = invites[k].from
    /\ invites'[k].state = "withdrawn" /\ invites'[k].email = invites[k].email
    /\ invites'[k].from = invites[k].from
    /\ \A i \in Invites \ {j, k} : invites'[i] = invites[i]

(* A resend reissues the invitation, or changes nothing.                      *)
LEMMA Reissues ==
  ASSUME TeamInv, NEW c \in Calls, resendInvitation(c)
  PROVE  invites' = invites \/ \E j \in Invites : Reissued(calls[c].on, j)
<1> DEFINE k == calls[c].on
<1>1. k \in Invites /\ invites[k] \in InviteRow /\ invites \in [Invites -> InviteRow]
  BY DEF TeamInv, RowsTyped, CallsFit, resendInvitation
<1> SUFFICES ASSUME DeleteInvitation(k), NEW j \in Invites, NewInvite(j),
                    invites' = [Invitation(j, invites[k].email, invites[k].role, invites[k].from)
                                  EXCEPT ![k].state = "withdrawn"]
             PROVE  Reissued(k, j)
  BY DEF resendInvitation
<1>2. invites[j].state = "none" /\ invites[k].state \in {"pending", "lapsed"} /\ j # k
  BY DEF NewInvite, Earliest, DeleteInvitation
<1> DEFINE w == [state |-> "pending", email |-> invites[k].email, role |-> invites[k].role,
                 from |-> invites[k].from]
           v == [invites[k] EXCEPT !.state = "withdrawn"]
<1>3. /\ w \in InviteRow /\ w.state = "pending" /\ w.email = invites[k].email
      /\ w.from = invites[k].from
      /\ v \in InviteRow /\ v.state = "withdrawn" /\ v.email = invites[k].email
      /\ v.from = invites[k].from
  BY <1>1 DEF InviteRow
<1>4. /\ invites'[j] = w /\ invites'[k] = v /\ \A i \in Invites \ {j, k} : invites'[i] = invites[i]
      /\ invites' = [i \in Invites |-> invites'[i]]
  BY <1>1, <1>2 DEF Invitation
<1> HIDE DEF w, v
<1>5. invites' \in [Invites -> InviteRow]
  BY <1>1, <1>3, <1>4
<1> QED
  BY <1>2, <1>3, <1>4, <1>5 DEF Reissued

(* A link is sent to a member, so the trail it starts belongs to one.         *)
LEMMA RequestLinkStep ==
  ASSUME TeamInv, NEW p \in People, requestLink(p)
  PROVE  TeamInv'
<1>1. RowsTyped'
  BY DEF TeamInv, RowsTyped, TrailRow, requestLink, UserByEmail, Holders, CreateMagicLink
<1>2. CallsFit'
  BY DEF TeamInv, CallsFit, requestLink
<1>3. AcceptanceHolds'
  BY DEF TeamInv, AcceptanceHolds, requestLink
<1>4. OneOpen'
  BY DEF TeamInv, OneOpen, requestLink
<1>5. SetupAlone'
  BY DEF TeamInv, SetupAlone, requestLink
<1>6. RemovedIsOut'
  <2>1. PICK u \in Users, t \in Trails :
          Member(u) /\ trails' = [trails EXCEPT ![t] = [at |-> "link", of |-> u]]
    BY DEF requestLink, UserByEmail, Holders, CreateMagicLink
  <2> QED
    BY <2>1 DEF TeamInv, RowsTyped, RemovedIsOut, Member, requestLink
<1> QED
  BY <1>1, <1>2, <1>3, <1>4, <1>5, <1>6 DEF TeamInv

(* Opening a link moves a trail on and leaves its owner alone.                *)
LEMMA OpenLinkStep ==
  ASSUME TeamInv, NEW t \in Trails, openLink(t)
  PROVE  TeamInv'
<1>1. RowsTyped'
  <2>1. trails[t] \in TrailRow /\ trails' = [trails EXCEPT ![t] = [trails[t] EXCEPT !.at = "challenge"]]
    BY DEF TeamInv, RowsTyped, openLink
  <2>2. [trails[t] EXCEPT !.at = "challenge"] \in TrailRow
    BY <2>1 DEF TrailRow
  <2> QED
    BY <2>1, <2>2 DEF TeamInv, RowsTyped, openLink
<1>2. CallsFit'
  BY DEF TeamInv, CallsFit, openLink
<1>3. AcceptanceHolds'
  BY DEF TeamInv, AcceptanceHolds, openLink
<1>4. OneOpen'
  BY DEF TeamInv, OneOpen, openLink
<1>5. SetupAlone'
  BY DEF TeamInv, SetupAlone, openLink
<1>6. RemovedIsOut'
  BY DEF TeamInv, RemovedIsOut, Member, openLink
<1> QED
  BY <1>1, <1>2, <1>3, <1>4, <1>5, <1>6 DEF TeamInv

(* A trail that ends binds nobody.                                            *)
LEMMA DeleteSessionStep ==
  ASSUME TeamInv, NEW t \in Trails, DeleteSession(t)
  PROVE  TeamInv'
<1>1. RowsTyped'
  BY DEF TeamInv, RowsTyped, TrailRow, DeleteSession
<1>2. CallsFit'
  BY DEF TeamInv, CallsFit, DeleteSession
<1>3. AcceptanceHolds'
  BY DEF TeamInv, AcceptanceHolds, DeleteSession
<1>4. OneOpen'
  BY DEF TeamInv, OneOpen, DeleteSession
<1>5. SetupAlone'
  BY DEF TeamInv, SetupAlone, DeleteSession
<1>6. RemovedIsOut'
  BY DEF TeamInv, RemovedIsOut, Member, DeleteSession
<1> QED
  BY <1>1, <1>2, <1>3, <1>4, <1>5, <1>6 DEF TeamInv

(* An invitation lapses only while no acceptance holds it.                    *)
LEMMA LapseInvitationStep ==
  ASSUME TeamInv, NEW k \in Invites, LapseInvitation(k)
  PROVE  TeamInv'
<1>1. RowsTyped'
  <2>1. /\ invites[k] \in InviteRow
        /\ invites' = [invites EXCEPT ![k] = [invites[k] EXCEPT !.state = "lapsed"]]
    BY DEF TeamInv, RowsTyped, LapseInvitation
  <2>2. [invites[k] EXCEPT !.state = "lapsed"] \in InviteRow
    BY <2>1 DEF InviteRow
  <2> QED
    BY <2>1, <2>2 DEF TeamInv, RowsTyped, LapseInvitation
<1>2. CallsFit'
  BY DEF TeamInv, CallsFit, LapseInvitation
<1>3. AcceptanceHolds'
  BY DEF TeamInv, AcceptanceHolds, LapseInvitation, Accepting
<1>4. OneOpen'
  BY DEF TeamInv, OneOpen, LapseInvitation
<1>5. SetupAlone'
  BY DEF TeamInv, SetupAlone, LapseInvitation
<1>6. RemovedIsOut'
  BY DEF TeamInv, RemovedIsOut, Member, LapseInvitation
<1> QED
  BY <1>1, <1>2, <1>3, <1>4, <1>5, <1>6 DEF TeamInv

(* The setup form is read; nothing is written yet.                            *)
LEMMA CompleteSetupStep ==
  ASSUME TeamInv, NEW c \in Calls, NEW p \in People, completeSetup(c, p)
  PROVE  TeamInv'
<1>1. RowsTyped'
  BY DEF TeamInv, RowsTyped, CallRow, completeSetup, NoCall
<1>2. CallsFit'
  BY DEF TeamInv, CallsFit, completeSetup, NoCall
<1>3. AcceptanceHolds'
  BY DEF TeamInv, AcceptanceHolds, completeSetup
<1>4. OneOpen'
  BY DEF TeamInv, OneOpen, completeSetup
<1>5. SetupAlone'
  BY DEF TeamInv, SetupAlone, completeSetup
<1>6. RemovedIsOut'
  BY DEF TeamInv, RemovedIsOut, Member, completeSetup
<1> QED
  BY <1>1, <1>2, <1>3, <1>4, <1>5, <1>6 DEF TeamInv

(* The first to commit finds no organization, and founds it with one row.     *)
LEMMA CompleteSetupCommitStep ==
  ASSUME TeamInv, NEW c \in Calls, completeSetupCommit(c)
  PROVE  TeamInv'
<1>1. RowsTyped'
  <2>1. NoCall \in CallRow
    BY DEF NoCall, CallRow
  <2>2. calls' \in [Calls -> CallRow]
    BY <2>1 DEF TeamInv, RowsTyped, completeSetupCommit, EndCall
  <2>3. ASSUME NEW u \in Users, NEW t \in Trails, founded = 0, founded' = founded + 1,
               users' = CreateUser(u, calls[c].on, "administrator"), trails' = CreateMagicLink(t, u)
        PROVE  founded' \in 0..1 /\ users' \in [Users -> UserRow] /\ trails' \in [Trails -> TrailRow]
    <3>1. [row |-> "live", email |-> calls[c].on, role |-> "administrator"] \in UserRow
      BY DEF TeamInv, CallsFit, completeSetupCommit, UserRow, Roles
    <3>2. [at |-> "link", of |-> u] \in TrailRow
      BY DEF TrailRow
    <3> QED
      BY <2>3, <3>1, <3>2 DEF TeamInv, RowsTyped, CreateUser, CreateMagicLink
  <2> QED
    BY <2>2, <2>3 DEF TeamInv, RowsTyped, completeSetupCommit, CreateOrganization
<1>2. CallsFit'
  BY DEF TeamInv, CallsFit, completeSetupCommit, EndCall, NoCall
<1>3. AcceptanceHolds'
  <2>1. NoCall.at = "idle"
    BY DEF NoCall
  <2>2. \A d \in Calls : calls'[d].at = "accept" =>
          d # c /\ calls'[d] = calls[d] /\ calls[d].row \in Users
    BY <2>1 DEF TeamInv, RowsTyped, AcceptanceHolds, completeSetupCommit, EndCall
  <2>3. \A d \in Calls : calls[d].at = "accept" => users'[calls[d].row] = users[calls[d].row]
    BY DEF TeamInv, RowsTyped, AcceptanceHolds, completeSetupCommit, NewRow, Earliest, CreateUser
  <2>4. invites' = invites
    BY DEF completeSetupCommit
  <2> QED
    BY <2>2, <2>3, <2>4 DEF TeamInv, AcceptanceHolds
<1>4. OneOpen'
  BY DEF TeamInv, OneOpen, completeSetupCommit
<1>5. SetupAlone'
  BY DEF TeamInv, RowsTyped, SetupAlone, completeSetupCommit, EndCall, NoCall,
         CreateOrganization, CreateUser
<1>6. RemovedIsOut'
  <2>1. ASSUME NEW u \in Users, NEW t \in Trails, NewRow(u),
               users' = CreateUser(u, calls[c].on, "administrator"), trails' = CreateMagicLink(t, u)
        PROVE  RemovedIsOut'
    BY <2>1 DEF TeamInv, RowsTyped, RemovedIsOut, Member, CreateUser, CreateMagicLink
  <2> QED
    BY <2>1 DEF TeamInv, RemovedIsOut, Member, completeSetupCommit
<1> QED
  BY <1>1, <1>2, <1>3, <1>4, <1>5, <1>6 DEF TeamInv

(* A challenge is answered; the session waits for the commit.                 *)
LEMMA CompleteChallengeStep ==
  ASSUME TeamInv, NEW c \in Calls, NEW t \in Trails, completeChallenge(c, t)
  PROVE  TeamInv'
<1>1. RowsTyped'
  BY DEF TeamInv, RowsTyped, CallRow, completeChallenge, NoCall
<1>2. CallsFit'
  BY DEF TeamInv, CallsFit, completeChallenge, NoCall
<1>3. AcceptanceHolds'
  BY DEF TeamInv, AcceptanceHolds, completeChallenge
<1>4. OneOpen'
  BY DEF TeamInv, OneOpen, completeChallenge
<1>5. SetupAlone'
  BY DEF TeamInv, SetupAlone, completeChallenge
<1>6. RemovedIsOut'
  BY DEF TeamInv, RemovedIsOut, Member, completeChallenge
<1> QED
  BY <1>1, <1>2, <1>3, <1>4, <1>5, <1>6 DEF TeamInv

(* The session is opened if the account still refers to a member.             *)
LEMMA CompleteChallengeCommitStep ==
  ASSUME TeamInv, NEW c \in Calls, completeChallengeCommit(c)
  PROVE  TeamInv'
<1>1. RowsTyped'
  <2>1. NoCall \in CallRow
    BY DEF NoCall, CallRow
  <2>2. calls' \in [Calls -> CallRow]
    BY <2>1 DEF TeamInv, RowsTyped, completeChallengeCommit, EndCall
  <2> DEFINE t == calls[c].on
  <2>3. t \in Trails /\ trails[t] \in TrailRow
    BY DEF TeamInv, RowsTyped, CallsFit, completeChallengeCommit
  <2>4. [trails[t] EXCEPT !.at = "session"] \in TrailRow
    BY <2>3 DEF TrailRow
  <2>5. trails' = [trails EXCEPT ![t] = [trails[t] EXCEPT !.at = "session"]] \/ trails' = trails
    BY <2>3 DEF TeamInv, RowsTyped, completeChallengeCommit
  <2> QED
    BY <2>2, <2>3, <2>4, <2>5 DEF TeamInv, RowsTyped, completeChallengeCommit
<1>2. CallsFit'
  BY DEF TeamInv, CallsFit, completeChallengeCommit, EndCall, NoCall
<1>3. AcceptanceHolds'
  BY DEF TeamInv, AcceptanceHolds, completeChallengeCommit, EndCall, NoCall
<1>4. OneOpen'
  BY DEF TeamInv, OneOpen, completeChallengeCommit
<1>5. SetupAlone'
  BY DEF TeamInv, SetupAlone, completeChallengeCommit, EndCall, NoCall
<1>6. RemovedIsOut'
  <2> DEFINE t == calls[c].on
  <2>1. \/ trails' = trails
        \/ References(trails[t].of) /\ trails' = [trails EXCEPT ![t].at = "session"]
    BY DEF completeChallengeCommit
  <2>2. \A q \in Trails : /\ trails'[q].of = trails[q].of
                          /\ \/ trails'[q].at = trails[q].at
                             \/ q = t /\ References(trails[q].of)
    BY <2>1 DEF TeamInv, RowsTyped, TrailRow
  <2>3. UNCHANGED users
    BY DEF completeChallengeCommit
  <2>4. \A p : References(p) => Member(p)
    BY DEF References, Member
  <2> QED
    BY <2>2, <2>3, <2>4 DEF TeamInv, RemovedIsOut, Member
<1> QED
  BY <1>1, <1>2, <1>3, <1>4, <1>5, <1>6 DEF TeamInv

(* An acceptance takes a pending invitation no other holds, and a row.        *)
LEMMA AcceptInvitationStep ==
  ASSUME TeamInv, NEW c \in Calls, NEW k \in Invites, AcceptInvitation(c, k)
  PROVE  TeamInv'
<1>1. RowsTyped'
  <2>1. PICK u \in Users :
          calls' = [calls EXCEPT ![c] = [NoCall EXCEPT !.at = "accept", !.on = k, !.row = u]]
    BY DEF AcceptInvitation
  <2>2. [NoCall EXCEPT !.at = "accept", !.on = k, !.row = u] \in CallRow
    BY DEF NoCall, CallRow
  <2> QED
    BY <2>1, <2>2 DEF TeamInv, RowsTyped, AcceptInvitation
<1>2. CallsFit'
  BY DEF TeamInv, CallsFit, AcceptInvitation
<1>3. AcceptanceHolds'
  <2>1. PICK u \in Users :
          /\ IF UserByEmail(invites[k].email) = {} THEN NewRow(u)
             ELSE u \in UserByEmail(invites[k].email)
          /\ calls' = [calls EXCEPT ![c] = [NoCall EXCEPT !.at = "accept", !.on = k, !.row = u]]
    BY DEF AcceptInvitation
  <2> DEFINE w == [NoCall EXCEPT !.at = "accept", !.on = k, !.row = u]
  <2>2. w.at = "accept" /\ w.on = k /\ w.row = u
    BY DEF NoCall
  <2>3. calls'[c] = w /\ \A d \in Calls \ {c} : calls'[d] = calls[d]
    BY <2>1 DEF TeamInv, RowsTyped
  <2>4. \A d \in Calls \ {c} : calls[d].at = "accept" =>
          calls[d].on # k /\ ~(calls[d].row = u /\ users[u].row = "none")
    BY <2>1 DEF AcceptInvitation, Accepting, NewRow, Earliest, UserByEmail, Holders, Member
  <2>5. users[u].row = "none" \/ users[u].email = invites[k].email
    BY <2>1 DEF NewRow, Earliest, UserByEmail, Holders
  <2>6. invites[k].state = "pending" /\ users' = users /\ invites' = invites
    BY DEF AcceptInvitation
  <2> HIDE DEF w
  <2> QED
    BY <2>2, <2>3, <2>4, <2>5, <2>6 DEF TeamInv, AcceptanceHolds
<1>4. OneOpen'
  BY DEF TeamInv, OneOpen, AcceptInvitation
<1>5. SetupAlone'
  BY DEF TeamInv, SetupAlone, AcceptInvitation
<1>6. RemovedIsOut'
  BY DEF TeamInv, RemovedIsOut, Member, AcceptInvitation
<1> QED
  BY <1>1, <1>2, <1>3, <1>4, <1>5, <1>6 DEF TeamInv

(* The row an acceptance holds becomes a member, and its invitation accepted. *)
LEMMA AcceptCommitStep ==
  ASSUME TeamInv, NEW c \in Calls, acceptCommit(c)
  PROVE  TeamInv'
<1>1. RowsTyped'
  <2> DEFINE k == calls[c].on
             u == calls[c].row
  <2>0. /\ k \in Invites /\ u \in Users /\ invites[k].state = "pending" /\ invites[k].email \in People
        /\ users[u].row = "none" \/ users[u].email = invites[k].email
    BY DEF TeamInv, CallsFit, AcceptanceHolds, OneOpen, acceptCommit
  <2>1. NoCall \in CallRow
    BY DEF NoCall, CallRow
  <2>2. calls' \in [Calls -> CallRow]
    BY <2>1 DEF TeamInv, RowsTyped, acceptCommit, EndCall
  <2>3. /\ users[u] \in UserRow /\ invites[k] \in InviteRow
        /\ [users[u] EXCEPT !.role = invites[k].role] \in UserRow
        /\ [row |-> "live", email |-> invites[k].email, role |-> invites[k].role] \in UserRow
        /\ [invites[k] EXCEPT !.state = "accepted"] \in InviteRow
    BY <2>0 DEF TeamInv, RowsTyped, UserRow, InviteRow
  <2>4. \A t \in Trails : [at |-> "challenge", of |-> u] \in TrailRow
    BY <2>0 DEF TrailRow
  <2>5. users' \in [Users -> UserRow]
    <3>1. \/ users' = users
          \/ users' = [users EXCEPT ![u] = [users[u] EXCEPT !.role = invites[k].role]]
          \/ users' = [users EXCEPT ![u] = [row |-> "live", email |-> invites[k].email,
                                            role |-> invites[k].role]]
      BY <2>0 DEF TeamInv, RowsTyped, acceptCommit, UpdateUserRole, CreateUser
    <3> QED
      BY <2>3, <3>1 DEF TeamInv, RowsTyped
  <2>6. trails' \in [Trails -> TrailRow]
    BY <2>4 DEF TeamInv, RowsTyped, acceptCommit
  <2>7. invites' \in [Invites -> InviteRow]
    <3>1. \/ invites' = invites
          \/ invites' = [invites EXCEPT ![k] = [invites[k] EXCEPT !.state = "accepted"]]
      BY <2>0 DEF TeamInv, RowsTyped, acceptCommit
    <3> QED
      BY <2>3, <3>1 DEF TeamInv, RowsTyped
  <2> QED
    BY <2>2, <2>5, <2>6, <2>7 DEF TeamInv, RowsTyped, acceptCommit
<1>2. CallsFit'
  BY DEF TeamInv, CallsFit, acceptCommit, EndCall, NoCall
<1>3. AcceptanceHolds'
  <2> DEFINE k == calls[c].on
             u == calls[c].row
  <2>0. /\ k \in Invites /\ u \in Users /\ invites[k].state = "pending" /\ invites[k].email \in People
        /\ users[u].row = "none" \/ users[u].email = invites[k].email
    BY DEF TeamInv, CallsFit, AcceptanceHolds, OneOpen, acceptCommit
  <2>1. NoCall.at = "idle"
    BY DEF NoCall
  <2>2. /\ \A d \in Calls : calls'[d].at = "accept" => d # c /\ calls'[d] = calls[d]
        /\ \A d \in Calls \ {c} : calls'[d] = calls[d]
    BY <2>1 DEF TeamInv, RowsTyped, acceptCommit, EndCall
  <2>3. /\ \A j \in Invites \ {k} : invites'[j] = invites[j]
        /\ \A v \in Users \ {u} : users'[v] = users[v]
        /\ users[u].row # "none" => users'[u].row # "none" /\ users'[u].email = users[u].email
    BY <2>0 DEF TeamInv, RowsTyped, UserRow, acceptCommit, UpdateUserRole, CreateUser, References, Member
  <2>4. \A d \in Calls \ {c} : calls[d].at = "accept" =>
          calls[d].on # k /\ (calls[d].row = u => users[u].row # "none")
    <3>1. calls[c].at = "accept"
      BY DEF acceptCommit
    <3> QED
      BY <3>1 DEF TeamInv, AcceptanceHolds
  <2> HIDE DEF k, u
  <2> SUFFICES ASSUME NEW d \in Calls, calls'[d].at = "accept"
               PROVE  /\ calls'[d].row \in Users /\ invites'[calls'[d].on].state = "pending"
                      /\ \/ users'[calls'[d].row].row = "none"
                         \/ users'[calls'[d].row].email = invites'[calls'[d].on].email
                      /\ \A e \in Calls : calls'[e].at = "accept" /\ calls'[d].row = calls'[e].row
                           /\ users'[calls'[d].row].row = "none" => users[calls[d].row].row = "none"
    BY <2>2 DEF TeamInv, AcceptanceHolds
  <2>5. d # c /\ calls'[d] = calls[d] /\ calls[d].at = "accept"
    BY <2>2
  <2>6. /\ calls[d].on \in Invites /\ calls[d].row \in Users
        /\ invites[calls[d].on].state = "pending"
        /\ users[calls[d].row].row = "none" \/ users[calls[d].row].email = invites[calls[d].on].email
    BY <2>5 DEF TeamInv, CallsFit, AcceptanceHolds
  <2>7. invites'[calls[d].on] = invites[calls[d].on]
    BY <2>3, <2>4, <2>5, <2>6
  <2> QED
    BY <2>3, <2>4, <2>5, <2>6, <2>7
<1>4. OneOpen'
  <2> DEFINE k == calls[c].on
             u == calls[c].row
  <2>0. /\ k \in Invites /\ u \in Users /\ invites[k].state = "pending" /\ invites[k].email \in People
        /\ users[u].row = "none" \/ users[u].email = invites[k].email
    BY DEF TeamInv, CallsFit, AcceptanceHolds, OneOpen, acceptCommit
  <2>1. invites' = invites \/ invites' = [invites EXCEPT ![k] = [invites[k] EXCEPT !.state = "accepted"]]
    BY <2>0 DEF TeamInv, RowsTyped, acceptCommit
  <2>2. \A i \in Invites :
          /\ invites'[i].from = invites[i].from /\ invites'[i].email = invites[i].email
          /\ invites'[i].state # "none" <=> invites[i].state # "none"
          /\ invites'[i].state \in {"pending", "lapsed"} => invites[i].state \in {"pending", "lapsed"}
    BY <2>0, <2>1 DEF TeamInv, RowsTyped, InviteRow
  <2> HIDE DEF k
  <2> QED
    BY <2>2 DEF TeamInv, OneOpen
<1>5. SetupAlone'
  BY DEF TeamInv, SetupAlone, acceptCommit
<1>6. RemovedIsOut'
  <2> DEFINE k == calls[c].on
             u == calls[c].row
  <2>0. /\ k \in Invites /\ u \in Users /\ invites[k].state = "pending" /\ invites[k].email \in People
        /\ users[u].row = "none" \/ users[u].email = invites[k].email
    BY DEF TeamInv, CallsFit, AcceptanceHolds, OneOpen, acceptCommit
  <2>1. CASE UNCHANGED <<users, trails>>
    BY <2>1 DEF TeamInv, RemovedIsOut, Member
  <2>2. ASSUME NEW t \in Trails, trails' = [trails EXCEPT ![t] = [at |-> "challenge", of |-> u]],
               users[u].row = "none" \/ References(u),
               users' = IF References(u) THEN UpdateUserRole(u, invites[k].role)
                        ELSE CreateUser(u, invites[k].email, invites[k].role)
        PROVE  RemovedIsOut'
    <3>1. users'[u].row = "live" /\ \A v \in Users \ {u} : users'[v] = users[v]
      BY <2>0, <2>2 DEF TeamInv, RowsTyped, UserRow, UpdateUserRole, CreateUser, References, Member
    <3> QED
      BY <2>0, <2>2, <3>1 DEF TeamInv, RowsTyped, RemovedIsOut, Member
  <2> QED
    BY <2>1, <2>2 DEF acceptCommit
<1> QED
  BY <1>1, <1>2, <1>3, <1>4, <1>5, <1>6 DEF TeamInv

(* A request reads that it is from an administrator.                          *)
LEMMA AdminSessionStep ==
  ASSUME TeamInv, NEW c \in Calls, NEW t \in Trails, adminSession(c, t)
  PROVE  TeamInv'
<1>1. RowsTyped'
  BY DEF TeamInv, RowsTyped, TrailRow, CallRow, adminSession, NoCall
<1>2. CallsFit'
  BY DEF TeamInv, CallsFit, adminSession, NoCall
<1>3. AcceptanceHolds'
  BY DEF TeamInv, AcceptanceHolds, adminSession
<1>4. OneOpen'
  BY DEF TeamInv, OneOpen, adminSession
<1>5. SetupAlone'
  BY DEF TeamInv, SetupAlone, adminSession
<1>6. RemovedIsOut'
  BY DEF TeamInv, RemovedIsOut, Member, adminSession
<1> QED
  BY <1>1, <1>2, <1>3, <1>4, <1>5, <1>6 DEF TeamInv

(* An invitation of an address is the first of its own origin.                *)
LEMMA CreateInvitationStep ==
  ASSUME TeamInv, NEW c \in Calls, NEW p \in People, NEW ro \in Posted, createInvitation(c, p, ro)
  PROVE  TeamInv'
<1>1. RowsTyped'
  BY DEF TeamInv, RowsTyped, InviteRow, CallRow, createInvitation, validRole, EndCall, NoCall,
         Invitation
<1>2. CallsFit'
  BY DEF TeamInv, CallsFit, createInvitation, EndCall, NoCall
<1>3. AcceptanceHolds'
  BY DEF TeamInv, AcceptanceHolds, createInvitation, NewInvite, Earliest, EndCall, NoCall,
         Invitation
<1>4. OneOpen'
  BY DEF TeamInv, OneOpen, createInvitation, NewInvite, Earliest, Invitation
<1>5. SetupAlone'
  BY DEF TeamInv, SetupAlone, createInvitation
<1>6. RemovedIsOut'
  BY DEF TeamInv, RemovedIsOut, Member, createInvitation
<1> QED
  BY <1>1, <1>2, <1>3, <1>4, <1>5, <1>6 DEF TeamInv

(* A request reads the invitation it is about.                                *)
LEMMA OpenInvitationStep ==
  ASSUME TeamInv, NEW c \in Calls, NEW kind \in {"revoke", "resend"}, OpenInvitation(c, kind)
  PROVE  TeamInv'
<1>1. RowsTyped'
  <2>1. PICK k \in Invites : calls' = [calls EXCEPT ![c].at = kind, ![c].on = k]
    BY DEF OpenInvitation, InvitationByID
  <2>2. /\ calls[c] \in CallRow
        /\ calls' = [calls EXCEPT ![c] = [calls[c] EXCEPT !.at = kind, !.on = k]]
    BY <2>1 DEF TeamInv, RowsTyped, CallRow
  <2>3. [calls[c] EXCEPT !.at = kind, !.on = k] \in CallRow
    BY <2>2 DEF CallRow
  <2> QED
    BY <2>2, <2>3 DEF TeamInv, RowsTyped, OpenInvitation
<1>2. CallsFit'
  BY DEF TeamInv, RowsTyped, CallsFit, OpenInvitation, InvitationByID
<1>3. AcceptanceHolds'
  BY DEF TeamInv, RowsTyped, AcceptanceHolds, OpenInvitation
<1>4. OneOpen'
  BY DEF TeamInv, OneOpen, OpenInvitation
<1>5. SetupAlone'
  BY DEF TeamInv, SetupAlone, OpenInvitation
<1>6. RemovedIsOut'
  BY DEF TeamInv, RemovedIsOut, Member, OpenInvitation
<1> QED
  BY <1>1, <1>2, <1>3, <1>4, <1>5, <1>6 DEF TeamInv

(* Only an invitation no acceptance holds is withdrawn.                       *)
LEMMA RevokeInvitationStep ==
  ASSUME TeamInv, NEW c \in Calls, revokeInvitation(c)
  PROVE  TeamInv'
<1>1. RowsTyped'
  <2>1. NoCall \in CallRow
    BY DEF NoCall, CallRow
  <2>2. calls' \in [Calls -> CallRow]
    BY <2>1 DEF TeamInv, RowsTyped, revokeInvitation, EndCall
  <2> DEFINE k == calls[c].on
  <2>3. k \in Invites /\ invites[k] \in InviteRow
    BY DEF TeamInv, RowsTyped, CallsFit, revokeInvitation
  <2>4. [invites[k] EXCEPT !.state = "withdrawn"] \in InviteRow
    BY <2>3 DEF InviteRow
  <2>5. \/ invites' = [invites EXCEPT ![k] = [invites[k] EXCEPT !.state = "withdrawn"]]
        \/ invites' = invites
    BY <2>3 DEF TeamInv, RowsTyped, revokeInvitation
  <2> QED
    BY <2>2, <2>3, <2>4, <2>5 DEF TeamInv, RowsTyped, revokeInvitation
<1>2. CallsFit'
  BY DEF TeamInv, CallsFit, revokeInvitation, EndCall, NoCall
<1>3. AcceptanceHolds'
  BY DEF TeamInv, AcceptanceHolds, revokeInvitation, EndCall, NoCall, Accepting
<1>4. OneOpen'
  <2>1. \A j \in Invites :
          /\ invites'[j].from = invites[j].from /\ invites'[j].email = invites[j].email
          /\ \/ invites'[j].state = invites[j].state
             \/ invites'[j].state = "withdrawn" /\ invites[j].state \in {"pending", "lapsed"}
    <3>1. calls[c].on \in Invites /\ invites \in [Invites -> InviteRow]
      BY DEF TeamInv, RowsTyped, CallsFit, revokeInvitation
    <3> QED
      BY <3>1 DEF InviteRow, revokeInvitation, DeleteInvitation
  <2>2. OneOpen
    BY DEF TeamInv
  <2> QED
    BY <2>1, <2>2 DEF OneOpen
<1>5. SetupAlone'
  BY DEF TeamInv, SetupAlone, revokeInvitation
<1>6. RemovedIsOut'
  BY DEF TeamInv, RemovedIsOut, Member, revokeInvitation
<1> QED
  BY <1>1, <1>2, <1>3, <1>4, <1>5, <1>6 DEF TeamInv

(* A reissue takes the place of what it reissues.                             *)
LEMMA ResendInvitationStep ==
  ASSUME TeamInv, NEW c \in Calls, resendInvitation(c)
  PROVE  TeamInv'
<1>1. RowsTyped'
  <2> DEFINE k == calls[c].on
  <2>0. /\ k \in Invites /\ calls' = [calls EXCEPT ![c] = NoCall]
        /\ UNCHANGED <<theme, founded, users, trails>>
    BY DEF TeamInv, CallsFit, resendInvitation, EndCall
  <2>1. \/ invites' = invites
        \/ \E j \in Invites : Reissued(k, j)
    BY <2>0, Reissues
  <2>2. NoCall \in CallRow
    BY DEF NoCall, CallRow
  <2>3. calls' \in [Calls -> CallRow]
    BY <2>0, <2>2 DEF TeamInv, RowsTyped
  <2>4. invites' \in [Invites -> InviteRow]
    BY <2>1 DEF TeamInv, RowsTyped, Reissued
  <2> QED
    BY <2>0, <2>3, <2>4 DEF TeamInv, RowsTyped
<1>2. CallsFit'
  <2>1. calls' = [calls EXCEPT ![c] = NoCall]
    BY DEF resendInvitation, EndCall
  <2>2. \A d \in Calls : calls'[d] = IF d = c THEN NoCall ELSE calls[d]
    BY <2>1 DEF TeamInv, RowsTyped
  <2> QED
    BY <2>2 DEF TeamInv, CallsFit, NoCall
<1>3. AcceptanceHolds'
  <2> DEFINE k == calls[c].on
  <2>0. /\ k \in Invites /\ calls' = [calls EXCEPT ![c] = NoCall]
        /\ UNCHANGED <<theme, founded, users, trails>>
    BY DEF TeamInv, CallsFit, resendInvitation, EndCall
  <2>1. \/ invites' = invites
        \/ \E j \in Invites : Reissued(k, j)
    BY <2>0, Reissues
  <2>2. NoCall.at = "idle"
    BY DEF NoCall
  <2>3. \A d \in Calls : calls'[d].at = "accept" => d # c /\ calls'[d] = calls[d]
    BY <2>0, <2>2 DEF TeamInv, RowsTyped
  <2>4. \A d \in Calls : calls[d].at = "accept" => calls[d].on # k
    BY DEF resendInvitation, Accepting
  <2>5. \A d \in Calls : calls[d].at = "accept" => invites'[calls[d].on] = invites[calls[d].on]
    <3> SUFFICES ASSUME NEW d \in Calls, calls[d].at = "accept", NEW j \in Invites, Reissued(k, j)
                 PROVE  invites'[calls[d].on] = invites[calls[d].on]
      BY <2>1
    <3>1. calls[d].on \in Invites /\ invites[calls[d].on].state = "pending" /\ calls[d].on # k
      BY <2>4 DEF TeamInv, CallsFit, AcceptanceHolds
    <3> QED
      BY <3>1 DEF Reissued
  <2> QED
    BY <2>0, <2>3, <2>5 DEF TeamInv, AcceptanceHolds
<1>4. OneOpen'
  <2> DEFINE k == calls[c].on
  <2>0. /\ k \in Invites /\ calls' = [calls EXCEPT ![c] = NoCall]
        /\ UNCHANGED <<theme, founded, users, trails>>
    BY DEF TeamInv, CallsFit, resendInvitation, EndCall
  <2>1. \/ invites' = invites
        \/ \E j \in Invites : Reissued(k, j)
    BY <2>0, Reissues
  <2>2. CASE invites' = invites
    BY <2>2 DEF TeamInv, OneOpen
  <2>3. ASSUME NEW j \in Invites, Reissued(k, j) PROVE OneOpen'
    <3> HIDE DEF k
    <3>1. /\ invites[k].from \in Invites /\ invites[invites[k].from].state # "none"
          /\ invites[k].email \in People
      BY <2>0, <2>3 DEF TeamInv, OneOpen, Reissued
    <3>2. \A i \in Invites : invites[i].state # "none" => invites'[i].state # "none"
      BY <2>0, <2>3 DEF Reissued
    <3>3. \A i \in Invites : invites'[i].state # "none" =>
            /\ invites'[i].email \in People /\ invites'[i].from \in Invites
            /\ invites[invites'[i].from].state # "none"
      BY <2>0, <2>3, <3>1 DEF TeamInv, OneOpen, Reissued
    <3>4. \A i \in Invites : invites'[i].state \in {"pending", "lapsed"} /\ i # j =>
            invites[i].state \in {"pending", "lapsed"} /\ invites'[i].from = invites[i].from /\ i # k
      BY <2>0, <2>3 DEF Reissued
    <3>5. \A i \in Invites : invites'[i].state \in {"pending", "lapsed"} /\ i # j =>
            invites'[i].from # invites'[j].from
      BY <2>0, <2>3, <3>4 DEF TeamInv, OneOpen, Reissued
    <3>6. \A i, l \in Invites :
            invites'[i].state \in {"pending", "lapsed"} /\ invites'[l].state \in {"pending", "lapsed"}
              /\ invites'[i].from = invites'[l].from => i = l
      BY <3>4, <3>5 DEF TeamInv, OneOpen
    <3> QED
      BY <3>2, <3>3, <3>6 DEF OneOpen
  <2> QED
    BY <2>1, <2>2, <2>3
<1>5. SetupAlone'
  BY DEF TeamInv, SetupAlone, resendInvitation
<1>6. RemovedIsOut'
  BY DEF TeamInv, RemovedIsOut, Member, resendInvitation
<1> QED
  BY <1>1, <1>2, <1>3, <1>4, <1>5, <1>6 DEF TeamInv

(* A request reads the account it is about.                                   *)
LEMMA OpenUserStep ==
  ASSUME TeamInv, NEW c \in Calls, NEW u \in Users, NEW kind \in {"role", "remove"}, OpenUser(c, u, kind)
  PROVE  TeamInv'
<1>1. RowsTyped'
  <2>1. /\ calls[c] \in CallRow /\ users[u].role \in Roles \union {"none"}
        /\ calls' = [calls EXCEPT ![c] = [calls[c] EXCEPT !.at = kind, !.on = u, !.role = users[u].role]]
    BY DEF TeamInv, RowsTyped, CallRow, UserRow, OpenUser
  <2>2. [calls[c] EXCEPT !.at = kind, !.on = u, !.role = users[u].role] \in CallRow
    BY <2>1 DEF CallRow
  <2> QED
    BY <2>1, <2>2 DEF TeamInv, RowsTyped, OpenUser
<1>2. CallsFit'
  BY DEF TeamInv, RowsTyped, CallsFit, OpenUser
<1>3. AcceptanceHolds'
  BY DEF TeamInv, RowsTyped, AcceptanceHolds, OpenUser
<1>4. OneOpen'
  BY DEF TeamInv, OneOpen, OpenUser
<1>5. SetupAlone'
  BY DEF TeamInv, SetupAlone, OpenUser
<1>6. RemovedIsOut'
  BY DEF TeamInv, RemovedIsOut, Member, OpenUser
<1> QED
  BY <1>1, <1>2, <1>3, <1>4, <1>5, <1>6 DEF TeamInv

(* A role changes and the row remains.                                        *)
LEMMA UpdateUserRoleStep ==
  ASSUME TeamInv, NEW c \in Calls, NEW ro \in Posted, updateUserRole(c, ro)
  PROVE  TeamInv'
<1>1. RowsTyped'
  BY DEF TeamInv, RowsTyped, UserRow, CallRow, Roles, updateUserRole, EndCall, NoCall,
         validRole, Member, UpdateUserRole
<1>2. CallsFit'
  BY DEF TeamInv, CallsFit, updateUserRole, EndCall, NoCall
<1>3. AcceptanceHolds'
  BY DEF TeamInv, AcceptanceHolds, updateUserRole, EndCall, NoCall, UpdateUserRole
<1>4. OneOpen'
  BY DEF TeamInv, OneOpen, updateUserRole
<1>5. SetupAlone'
  BY DEF TeamInv, SetupAlone, updateUserRole
<1>6. RemovedIsOut'
  BY DEF TeamInv, RowsTyped, RemovedIsOut, Member, updateUserRole,
         EndCall, NoCall, validRole, UpdateUserRole
<1> QED
  BY <1>1, <1>2, <1>3, <1>4, <1>5, <1>6 DEF TeamInv

(* A row goes with every trail that refers to it.                             *)
LEMMA DeleteUserStep ==
  ASSUME TeamInv, NEW c \in Calls, deleteUser(c)
  PROVE  TeamInv'
<1>1. RowsTyped'
  <2> DEFINE u == calls[c].on
  <2>1. NoCall \in CallRow
    BY DEF NoCall, CallRow
  <2>2. calls' \in [Calls -> CallRow]
    BY <2>1 DEF TeamInv, RowsTyped, deleteUser, EndCall
  <2>3. u \in Users /\ users[u] \in UserRow
    BY DEF TeamInv, RowsTyped, CallsFit, deleteUser
  <2>4. [users[u] EXCEPT !.row = "gone"] \in UserRow
    BY <2>3 DEF UserRow
  <2>5. users' \in [Users -> UserRow]
    <3>1. users' = users \/ users' = [users EXCEPT ![u] = [users[u] EXCEPT !.row = "gone"]]
      BY <2>3 DEF TeamInv, RowsTyped, deleteUser, DeleteUserRow
    <3> QED
      BY <2>3, <2>4, <3>1 DEF TeamInv, RowsTyped
  <2>6. \A t \in Trails : [trails[t] EXCEPT !.at = "gone"] \in TrailRow
    BY DEF TeamInv, RowsTyped, TrailRow
  <2>7. trails' \in [Trails -> TrailRow]
    BY <2>6 DEF TeamInv, RowsTyped, deleteUser, DeleteUserRow
  <2> QED
    BY <2>2, <2>5, <2>7 DEF TeamInv, RowsTyped, deleteUser
<1>2. CallsFit'
  BY DEF TeamInv, CallsFit, deleteUser, EndCall, NoCall
<1>3. AcceptanceHolds'
  <2>1. NoCall.at = "idle"
    BY DEF NoCall
  <2>2. \A d \in Calls : calls'[d].at = "accept" => d # c /\ calls'[d] = calls[d]
    BY <2>1 DEF TeamInv, RowsTyped, deleteUser, EndCall
  <2>3. invites' = invites
    BY DEF deleteUser
  <2>4. \A v \in Users :
          users'[v].email = users[v].email /\ (users'[v].row = "none" <=> users[v].row = "none")
    BY DEF TeamInv, RowsTyped, UserRow, CallsFit, deleteUser, DeleteUserRow, Member
  <2>5. \A d \in Calls : calls[d].at = "accept" => calls[d].row \in Users
    BY DEF TeamInv, AcceptanceHolds
  <2> QED
    BY <2>2, <2>3, <2>4, <2>5 DEF TeamInv, AcceptanceHolds
<1>4. OneOpen'
  BY DEF TeamInv, OneOpen, deleteUser
<1>5. SetupAlone'
  BY DEF TeamInv, SetupAlone, deleteUser
<1>6. RemovedIsOut'
  <2> DEFINE u == calls[c].on
  <2>1. CASE UNCHANGED <<users, trails>>
    BY <2>1 DEF TeamInv, RemovedIsOut, Member
  <2>2. CASE DeleteUserRow(u)
    <3>1. \A t \in Trails : trails'[t].at \in {"link", "challenge", "session"} =>
            trails'[t] = trails[t] /\ trails[t].of # u
      BY <2>2 DEF TeamInv, RowsTyped, TrailRow, DeleteUserRow
    <3>2. \A v \in Users \ {u} : users'[v] = users[v]
      BY <2>2 DEF TeamInv, RowsTyped, DeleteUserRow
    <3> QED
      BY <3>1, <3>2 DEF TeamInv, RemovedIsOut, Member
  <2> QED
    BY <2>1, <2>2 DEF deleteUser
<1> QED
  BY <1>1, <1>2, <1>3, <1>4, <1>5, <1>6 DEF TeamInv

(* A request that gives up leaves what it read.                               *)
LEMMA AbandonCallStep ==
  ASSUME TeamInv, NEW c \in Calls, AbandonCall(c)
  PROVE  TeamInv'
<1>1. RowsTyped'
  BY DEF TeamInv, RowsTyped, CallRow, AbandonCall, EndCall, NoCall
<1>2. CallsFit'
  BY DEF TeamInv, CallsFit, AbandonCall, EndCall, NoCall
<1>3. AcceptanceHolds'
  BY DEF TeamInv, AcceptanceHolds, AbandonCall, EndCall, NoCall
<1>4. OneOpen'
  BY DEF TeamInv, OneOpen, AbandonCall
<1>5. SetupAlone'
  BY DEF TeamInv, SetupAlone, AbandonCall, EndCall, NoCall
<1>6. RemovedIsOut'
  BY DEF TeamInv, RemovedIsOut, Member, AbandonCall
<1> QED
  BY <1>1, <1>2, <1>3, <1>4, <1>5, <1>6 DEF TeamInv

(* A fresh deployment, or one with two administrators signed in.              *)
LEMMA TeamStarts == TeamInit => TeamInv
<1> SUFFICES ASSUME TeamInit PROVE TeamInv
  OBVIOUS
<1>1. PICK name \in [1..2 * founded -> People] :
        users = [u \in Users |->
              IF u <= 2 * founded THEN [row |-> "live", email |-> name[u], role |-> "administrator"]
              ELSE [row |-> "none", email |-> Nobody, role |-> "none"]]
  BY DEF TeamInit
<1>2. theme \in Themes /\ founded \in {0, 1} /\ (theme = "setup" => founded = 0)
  BY DEF TeamInit
<1>3. \A u \in Users : u \in Nat \ {0}
  BY TeamAssumption
<1>4. /\ users \in [Users -> UserRow]
      /\ founded = 0 => \A u \in Users : users[u].row = "none"
      /\ \A u \in Users : u <= 2 * founded => users[u].row = "live"
  <2>1. ASSUME NEW u \in Users, u <= 2 * founded PROVE name[u] \in People
    BY <1>2, <1>3, <2>1
  <2>2. \A u \in Users : users[u] \in UserRow
    BY <1>1, <2>1 DEF UserRow, Roles
  <2> QED
    BY <1>1, <1>2, <1>3, <2>2
<1>5. /\ trails \in [Trails -> TrailRow]
      /\ \A t \in Trails : trails[t].at \in {"link", "challenge", "session"} =>
           trails[t].of = t /\ t <= 2 * founded /\ t \in Users
  <2>1. \A t \in Trails : t <= 2 * founded => t \in Users
    BY <1>2, TeamAssumption
  <2>2. trails = [t \in Trails |-> IF t <= 2 * founded THEN [at |-> "session", of |-> t]
                                   ELSE [at |-> "none", of |-> Nobody]]
    BY DEF TeamInit
  <2> QED
    BY <2>1, <2>2 DEF TrailRow
<1>6. /\ invites \in [Invites -> InviteRow] /\ \A k \in Invites : invites[k].state = "none"
  BY DEF TeamInit, InviteRow
<1>7. /\ calls \in [Calls -> CallRow]
      /\ \A c \in Calls : calls[c].at = "idle" /\ calls[c].row = Nobody
  BY DEF TeamInit, CallRow, NoCall
<1>8. RemovedIsOut
  BY <1>4, <1>5 DEF RemovedIsOut, Member
<1>9. SetupAlone
  BY <1>2, <1>4, <1>6, <1>7 DEF SetupAlone
<1> QED
  BY <1>2, <1>4, <1>5, <1>6, <1>7, <1>8, <1>9
     DEF TeamInv, RowsTyped, CallsFit, AcceptanceHolds, OneOpen

(* Every step keeps the invariant.                                            *)
LEMMA TeamSteps == TeamInv /\ [TeamNext]_teamVars => TeamInv'
<1> SUFFICES ASSUME TeamInv, [TeamNext]_teamVars PROVE TeamInv'
  OBVIOUS
<1>1. CASE UNCHANGED teamVars
  BY <1>1 DEF TeamInv, RowsTyped, CallsFit, AcceptanceHolds, OneOpen, SetupAlone, RemovedIsOut,
              Member, teamVars
<1>2. CASE TeamNext
  BY <1>2, RequestLinkStep, OpenLinkStep, DeleteSessionStep, LapseInvitationStep,
     CompleteSetupStep, CompleteSetupCommitStep, CompleteChallengeStep,
     CompleteChallengeCommitStep, AcceptInvitationStep, AcceptCommitStep, AdminSessionStep,
     CreateInvitationStep, OpenInvitationStep, RevokeInvitationStep, ResendInvitationStep,
     OpenUserStep, UpdateUserRoleStep, DeleteUserStep, AbandonCallStep
     DEF TeamNext
<1> QED
  BY <1>1, <1>2

(* What a step does to the invitations, other than leaving them alone.        *)
LEMMA InvitationsMove ==
  ASSUME TeamInv, TeamNext, invites' # invites
  PROVE  \/ \E k \in Invites : LapseInvitation(k)
         \/ \E c \in Calls : \/ acceptCommit(c) \/ revokeInvitation(c) \/ resendInvitation(c)
                             \/ \E p \in People, ro \in Posted : createInvitation(c, p, ro)
  BY ZenonT(30) DEF TeamNext, requestLink, openLink, DeleteSession, completeSetup, completeSetupCommit,
         completeChallenge, completeChallengeCommit, AcceptInvitation, adminSession, OpenInvitation,
         OpenUser, updateUserRole, deleteUser, AbandonCall

(* Accepted or withdrawn, an invitation stays what it is; and it is accepted  *)
(* with an account of its address and role.                                   *)
LEMMA DecidedOnce == TeamInv /\ [TeamNext]_teamVars => InvitationDecidedOnce /\ JoinsAsInvited
<1> SUFFICES ASSUME TeamInv, TeamNext, invites' # invites
             PROVE  InvitationDecidedOnce /\ JoinsAsInvited
  BY DEF teamVars, InvitationDecidedOnce, JoinsAsInvited
<1>1. ASSUME NEW k \in Invites, LapseInvitation(k) PROVE InvitationDecidedOnce /\ JoinsAsInvited
  BY <1>1 DEF TeamInv, RowsTyped, InviteRow, LapseInvitation, InvitationDecidedOnce, JoinsAsInvited
<1>2. ASSUME NEW c \in Calls, acceptCommit(c) PROVE InvitationDecidedOnce /\ JoinsAsInvited
  <2> DEFINE k == calls[c].on
             u == calls[c].row
  <2>1. /\ k \in Invites /\ u \in Users /\ invites[k].state = "pending"
        /\ users[u].row = "none" \/ users[u].email = invites[k].email
        /\ users[u] \in UserRow
    BY <1>2 DEF TeamInv, RowsTyped, CallsFit, AcceptanceHolds, acceptCommit
  <2>2. CASE invites' = invites
    BY <2>2
  <2>3. CASE /\ invites' = [invites EXCEPT ![k].state = "accepted"]
             /\ users' = IF References(u) THEN UpdateUserRole(u, invites[k].role)
                         ELSE CreateUser(u, invites[k].email, invites[k].role)
    <3>1. \A j \in Invites \ {k} : invites'[j] = invites[j]
      BY <2>1, <2>3 DEF TeamInv, RowsTyped
    <3>2. users'[u] = [row |-> "live", email |-> invites[k].email, role |-> invites[k].role]
      <4>1. CASE References(u)
        <5>1. users'[u] = [users[u] EXCEPT !.role = invites[k].role]
          BY <2>1, <2>3, <4>1 DEF TeamInv, RowsTyped, UpdateUserRole
        <5>2. users[u].row = "live" /\ users[u].email = invites[k].email
          BY <2>1, <4>1 DEF References, Member
        <5> HIDE DEF k, u
        <5> QED
          BY <2>1, <5>1, <5>2 DEF UserRow
      <4> QED
        BY <2>1, <2>3, <4>1 DEF TeamInv, RowsTyped, CreateUser
    <3> QED
      BY <2>1, <3>1, <3>2 DEF InvitationDecidedOnce, JoinsAsInvited
  <2> QED
    BY <1>2, <2>2, <2>3 DEF acceptCommit
<1>3. ASSUME NEW c \in Calls, revokeInvitation(c) PROVE InvitationDecidedOnce /\ JoinsAsInvited
  BY <1>3 DEF TeamInv, RowsTyped, InviteRow, CallsFit, revokeInvitation, DeleteInvitation,
              InvitationDecidedOnce, JoinsAsInvited
<1>4. ASSUME NEW c \in Calls, resendInvitation(c) PROVE InvitationDecidedOnce /\ JoinsAsInvited
  <2>1. PICK j \in Invites : Reissued(calls[c].on, j)
    BY <1>4, Reissues
  <2>2. calls[c].on \in Invites
    BY <1>4 DEF TeamInv, CallsFit, resendInvitation
  <2> QED
    BY <2>1, <2>2 DEF Reissued, InvitationDecidedOnce, JoinsAsInvited
<1>5. ASSUME NEW c \in Calls, NEW p \in People, NEW ro \in Posted, createInvitation(c, p, ro)
      PROVE  InvitationDecidedOnce /\ JoinsAsInvited
  <2>1. PICK k \in Invites : invites[k].state = "none" /\ invites' = Invitation(k, p, ro, k)
    BY <1>5 DEF createInvitation, NewInvite, Earliest
  <2> QED
    BY <2>1 DEF TeamInv, RowsTyped, Invitation, InvitationDecidedOnce, JoinsAsInvited
<1> QED
  BY <1>1, <1>2, <1>3, <1>4, <1>5, InvitationsMove

(* Setting up, one row of a user at most exists.                              *)
LEMMA FoundedByOne == TeamInv => OneFounder
<1> SUFFICES ASSUME TeamInv, theme = "setup"
             PROVE  Cardinality({u \in Users : users[u].row # "none"}) <= 1
  BY DEF OneFounder
<1> DEFINE S == {u \in Users : users[u].row # "none"}
<1>1. CASE S = {}
  BY <1>1, FS_EmptySet
<1>2. ASSUME NEW u \in S PROVE Cardinality(S) <= 1
  <2>1. S = {u}
    BY DEF TeamInv, SetupAlone
  <2>2. Cardinality({u}) = 1
    BY FS_Singleton
  <2> HIDE DEF S
  <2> QED
    BY <2>1, <2>2
<1> QED
  BY <1>1, <1>2

(* Who belongs to the organization is what its administrators decided, each   *)
(* thing once, however invitations, acceptances, sign-ins and removals        *)
(* overlap (handler.go, repo.go).                                             *)
THEOREM MembersDecided == TeamSpec => MembersAreDecided
<1>1. TeamInv => OneLinkLive /\ RemovedIsOut /\ OneFounder /\ TeamTypeOK
  <2> SUFFICES ASSUME TeamInv PROVE OneLinkLive /\ RemovedIsOut /\ OneFounder /\ TeamTypeOK
    OBVIOUS
  <2>1. OneLinkLive
    BY DEF TeamInv, OneOpen, OneLinkLive
  <2>2. TeamTypeOK
    BY DEF TeamInv, RowsTyped, UserRow, TrailRow, InviteRow, CallRow, TeamTypeOK
  <2> QED
    BY <2>1, <2>2, FoundedByOne DEF TeamInv
<1> QED
  BY <1>1, DecidedOnce, TeamStarts, TeamSteps, PTL DEF TeamSpec, MembersAreDecided

----------------------------------------------------------------------------
(* AcmeService.                                                              *)

AcmeRow == [row : {"none", "live", "deleted"}, name : AcmeNames \union {Unset}, enabled : BOOLEAN]
KidRow == [state : {"none", "live", "revoked", "deleted"}, ep : AcmeEndpoints \union {0}]
AccountRow == [state : {"none", "valid", "deactivated", "deleted"}, ep : AcmeEndpoints \union {0},
               kid : Kids \union {0}]
LeafRow == [state : {"none", "issued", "revoked"}, owner : Accounts \union {Unset}, order : BOOLEAN,
            key : LeafKeys \union {Unset}, reason : Reasons \union {"none"},
            by : {"nobody", "account", "key", "console"},
            revoker : Accounts \union LeafKeys \union {Unset}, carried : LeafKeys \union {Unset}]
PostRow == [at : {"idle", "create", "rename", "remove", "mint", "withdraw", "register", "revoke", "flip"}
                 \union Resources \union {"answered"},
            ep : AcmeEndpoints \union {0}, name : AcmeNames \union {Unset},
            account : Accounts \union {Unset}, key : LeafKeys \union {Unset},
            carried : LeafKeys \union {Unset}, leaf : Leaves \union Kids \union {0}, reason : Reasons]

(* What a request found when it authenticated: a credential of its endpoint,  *)
(* a certificate; and what it was told or let do is its own.                  *)
PostFits(d) ==
    /\ d.at # "idle" => d.ep \in AcmeEndpoints
    /\ d.at \in {"withdraw", "register"} => d.leaf \in Kids /\ kids[d.leaf].state # "none"
    /\ d.at = "register" => d.account \in Accounts /\ kids[d.leaf].ep = d.ep
    /\ d.at \in Resources \union {"answered", "revoke", "flip"} =>
         d.leaf \in Leaves /\ leaves[d.leaf].state # "none"
    /\ d.at = "answered" => leaves[d.leaf].owner = d.account
    /\ d.at = "flip" => IF d.account # Unset THEN leaves[d.leaf].owner = d.account
                        ELSE d.carried = d.key

(* A credential that was minted has its endpoint, an account its credential,  *)
(* and an order its account.                                                  *)
ParentsAreThere ==
    /\ \A k \in Kids : kids[k].state # "none" <=> kids[k].ep \in AcmeEndpoints
    /\ \A u \in Accounts : accounts[u].state = "none" => accounts[u].ep = 0
    /\ \A u \in Accounts : accounts[u].state # "none" =>
         accounts[u].kid \in Kids /\ kids[accounts[u].kid].state # "none"
    /\ \A l \in Leaves : leaves[l].order =>
         /\ leaves[l].state # "none" /\ leaves[l].owner \in Accounts
         /\ accounts[leaves[l].owner].state # "none"

ServiceInv ==
    /\ ServiceTypeOK /\ AcmeNamesDiffer /\ BoundWhereMinted /\ NothingOutlives /\ RevokedByOwner
    /\ ParentsAreThere
    /\ \A p \in Posts : PostFits(posts[p])

(* Every row of the tables has its type.                                      *)
LEMMA AcmeRowsAre ==
  ASSUME ServiceInv
  PROVE  /\ acme \in [AcmeEndpoints -> AcmeRow] /\ kids \in [Kids -> KidRow]
         /\ accounts \in [Accounts -> AccountRow] /\ leaves \in [Leaves -> LeafRow]
         /\ posts \in [Posts -> PostRow]
  BY DEF ServiceInv, ServiceTypeOK, AcmeRow, KidRow, AccountRow, LeafRow, PostRow

(* A request that has ended fits.                                             *)
LEMMA NoPostFits == NoPost \in PostRow /\ NoPost.at = "idle" /\ PostFits(NoPost)
  BY DEF NoPost, PostRow, PostFits, Reasons, Resources

(* Rows that were written keep what they were written for.                    *)
RowsKept ==
    /\ \A k \in Kids : kids[k].state # "none" => kids'[k].state # "none" /\ kids'[k].ep = kids[k].ep
    /\ \A l \in Leaves : leaves[l].state # "none" =>
         leaves'[l].state # "none" /\ leaves'[l].owner = leaves[l].owner /\ leaves'[l].key = leaves[l].key

(* So a request goes on as it is.                                             *)
LEMMA PostStays ==
  ASSUME RowsKept, NEW d, PostFits(d)
  PROVE  PostFits(d)'
  BY DEF RowsKept, PostFits

(* A request takes a step of its own.                                         *)
LEMMA PostMoves ==
  ASSUME ServiceInv, NEW p \in Posts, NEW w \in PostRow, PostFits(w), Ask(p, w),
         UNCHANGED <<about, acme, kids, accounts, leaves>>
  PROVE  ServiceInv'
<1>1. posts' \in [Posts -> PostRow]
  BY AcmeRowsAre DEF Ask
<1>2. ServiceTypeOK'
  BY <1>1 DEF ServiceInv, ServiceTypeOK, PostRow
<1>3. \A q \in Posts : PostFits(posts[q])'
  <2> SUFFICES ASSUME NEW q \in Posts, NEW d, d = posts'[q] PROVE PostFits(d)'
    OBVIOUS
  <2>1. d = w \/ d = posts[q]
    BY AcmeRowsAre DEF Ask
  <2>2. RowsKept
    BY DEF RowsKept
  <2> QED
    BY <2>1, <2>2, PostStays DEF ServiceInv
<1> QED
  BY <1>2, <1>3
  DEF ServiceInv, AcmeNamesDiffer, BoundWhereMinted, NothingOutlives, RevokedByOwner, ParentsAreThere, Live

(* Tables are written, and at most one request ends with it.                  *)
LEMMA TablesMove ==
  ASSUME ServiceInv, RowsKept, UNCHANGED about, UNCHANGED posts \/ \E p \in Posts : Finish(p),
         acme' \in [AcmeEndpoints -> AcmeRow], kids' \in [Kids -> KidRow],
         accounts' \in [Accounts -> AccountRow], leaves' \in [Leaves -> LeafRow],
         \A e \in AcmeEndpoints : acme'[e].enabled => acme'[e].row = "live",
         AcmeNamesDiffer', BoundWhereMinted', NothingOutlives', RevokedByOwner', ParentsAreThere'
  PROVE  ServiceInv'
<1>1. posts' \in [Posts -> PostRow] /\ \A q \in Posts : posts'[q] \in {NoPost, posts[q]}
  BY AcmeRowsAre, NoPostFits DEF Finish, Ask
<1>2. ServiceTypeOK'
  BY <1>1 DEF ServiceInv, ServiceTypeOK, AcmeRow, KidRow, AccountRow, LeafRow, PostRow
<1>3. \A q \in Posts : PostFits(posts[q])'
  <2> SUFFICES ASSUME NEW q \in Posts, NEW d, d = posts'[q] PROVE PostFits(d)'
    OBVIOUS
  <2> QED
    BY <1>1, NoPostFits, PostStays DEF ServiceInv
<1> QED
  BY <1>2, <1>3 DEF ServiceInv

(* A set of naturals that is not empty has a least member.                    *)
LEMMA LowestIsIn ==
  ASSUME NEW S, S \subseteq Nat, S # {}
  PROVE  Lowest(S) \in S
<1>1. \E m \in S : \A o \in S : ~(<<o, m>> \in OpToRel(<, Nat))
  BY NatLessThanWellFounded, WFMin
<1>2. \E m \in S : \A o \in S : ~(o < m)
  BY <1>1 DEF OpToRel
<1>3. \E m \in S : \A o \in S : m <= o
  BY <1>2
<1> QED
  BY <1>3 DEF Lowest

(* The console's forms, and a credential to withdraw, are found first.        *)
LEMMA ConsoleAsks ==
  ASSUME ServiceInv, NEW p \in Posts,
         \/ \E n \in AcmeNames : createAcme(p, n) \/ \E e \in AcmeEndpoints : updateAcme(p, e, n)
         \/ \E e \in AcmeEndpoints : removeAcme(p, e) \/ mintCredential(p, e)
         \/ \E k \in Kids : revokeCredential(p, k)
  PROVE  ServiceInv'
<1>1. Unminted # {} => Lowest(Unminted) \in AcmeEndpoints
  BY LowestIsIn, ServiceAssumption DEF Unminted
<1>2. PICK w : /\ Ask(p, w)
               /\ \/ \E e \in AcmeEndpoints, n \in AcmeNames :
                       \/ w = [NoPost EXCEPT !.at = "create", !.ep = e, !.name = n]
                       \/ w = [NoPost EXCEPT !.at = "rename", !.ep = e, !.name = n]
                  \/ \E e \in AcmeEndpoints :
                       \/ w = [NoPost EXCEPT !.at = "remove", !.ep = e]
                       \/ w = [NoPost EXCEPT !.at = "mint", !.ep = e]
                  \/ \E k \in Kids :
                       /\ w = [NoPost EXCEPT !.at = "withdraw", !.ep = kids[k].ep, !.leaf = k]
                       /\ kids[k].state # "none"
  <2>1. CASE \E n \in AcmeNames : createAcme(p, n)
    BY <1>1, <2>1 DEF createAcme
  <2>2. CASE \E n \in AcmeNames, e \in AcmeEndpoints : updateAcme(p, e, n)
    BY <2>2 DEF updateAcme
  <2>3. CASE \E e \in AcmeEndpoints : removeAcme(p, e) \/ mintCredential(p, e)
    BY <2>3 DEF removeAcme, mintCredential
  <2>4. CASE \E k \in Kids : revokeCredential(p, k)
    BY <2>4 DEF revokeCredential
  <2> QED
    BY <2>1, <2>2, <2>3, <2>4
<1>3. w \in PostRow /\ PostFits(w)
  <2>1. ASSUME NEW e \in AcmeEndpoints, NEW n \in AcmeNames,
               \/ w = [NoPost EXCEPT !.at = "create", !.ep = e, !.name = n]
               \/ w = [NoPost EXCEPT !.at = "rename", !.ep = e, !.name = n]
        PROVE  w \in PostRow /\ PostFits(w)
    <3>1. PICK a \in {"create", "rename"} : w = [NoPost EXCEPT !.at = a, !.ep = e, !.name = n]
      BY <2>1
    <3>2. w = [at |-> a, ep |-> e, name |-> n, account |-> Unset, key |-> Unset, carried |-> Unset,
               leaf |-> 0, reason |-> "unspecified"]
      BY <3>1 DEF NoPost
    <3>3. a \in {"idle", "create", "rename", "remove", "mint", "withdraw", "register", "revoke", "flip"}
                 \union Resources \union {"answered"}
      OBVIOUS
    <3>4. w \in PostRow
      BY <3>2, <3>3, Zenon DEF PostRow, Reasons
    <3>5. w.at \in {"create", "rename"} /\ w.ep = e
      BY <3>2
    <3> QED
      BY <3>4, <3>5 DEF PostFits, Resources
  <2>2. ASSUME NEW e \in AcmeEndpoints,
               w = [NoPost EXCEPT !.at = "remove", !.ep = e] \/ w = [NoPost EXCEPT !.at = "mint", !.ep = e]
        PROVE  w \in PostRow /\ PostFits(w)
    BY ZenonT(30), <2>2, NoPostFits DEF PostRow, PostFits, Resources
  <2>3. ASSUME NEW k \in Kids, w = [NoPost EXCEPT !.at = "withdraw", !.ep = kids[k].ep, !.leaf = k],
               kids[k].state # "none"
        PROVE  w \in PostRow /\ PostFits(w)
    <3>1. kids[k].ep \in AcmeEndpoints
      BY <2>3 DEF ServiceInv, ParentsAreThere
    <3> QED
      BY <2>3, <3>1, NoPostFits DEF PostRow, PostFits, Resources
  <2> QED
    BY <1>2, <2>1, <2>2, <2>3
<1>4. UNCHANGED <<about, acme, kids, accounts, leaves>>
  BY DEF createAcme, updateAcme, removeAcme, mintCredential, revokeCredential
<1> QED
  BY <1>2, <1>3, <1>4, PostMoves

(* A client's request has found its credential, or its certificate.           *)
LEMMA ClientAsks ==
  ASSUME ServiceInv, NEW p \in Posts, NEW e \in AcmeEndpoints,
         \/ \E u \in Accounts : \/ \E k \in Kids : newAccount(p, e, u, k)
                                \/ \E l \in Leaves, what \in Resources : Authenticate(p, e, u, l, what)
         \/ \E l \in Leaves, reason \in Reasons : revokeCert(p, e, l, reason)
  PROVE  ServiceInv'
<1>1. ASSUME NEW u \in Accounts, NEW k \in Kids, newAccount(p, e, u, k) PROVE ServiceInv'
  <2>1. PICK w : w = [NoPost EXCEPT !.at = "register", !.ep = e, !.account = u, !.leaf = k]
    OBVIOUS
  <2>2. w \in PostRow
    BY <2>1, NoPostFits DEF PostRow
  <2>3. w.at = "register" /\ w.ep = e /\ w.account = u /\ w.leaf = k
    BY <2>1, NoPostFits DEF PostRow
  <2>4. kids[k].state # "none" /\ kids[k].ep = e
    BY <1>1 DEF newAccount, CredentialByKID
  <2>5. PostFits(w)
    BY <2>3, <2>4 DEF PostFits, Resources
  <2> QED
    BY <1>1, <2>1, <2>2, <2>5, PostMoves DEF newAccount
<1>2. ASSUME NEW u \in Accounts, NEW l \in Leaves, NEW what \in Resources, Authenticate(p, e, u, l, what)
      PROVE  ServiceInv'
  <2>1. PICK w : w = [NoPost EXCEPT !.at = what, !.ep = e, !.account = u, !.leaf = l]
    OBVIOUS
  <2>2. w \in PostRow
    BY <2>1, NoPostFits DEF PostRow
  <2>3. w.at = what /\ w.ep = e /\ w.leaf = l
    BY <2>1, NoPostFits DEF PostRow
  <2>4. PostFits(w)
    BY <1>2, <2>3 DEF PostFits, Resources, Authenticate
  <2> QED
    BY <1>2, <2>1, <2>2, <2>4, PostMoves DEF Authenticate
<1>3. ASSUME NEW l \in Leaves, NEW reason \in Reasons, revokeCert(p, e, l, reason) PROVE ServiceInv'
  <2>1. PICK w : /\ Ask(p, w)
                 /\ \/ \E u \in Accounts : w = [NoPost EXCEPT !.at = "revoke", !.ep = e, !.account = u,
                                                              !.leaf = l, !.reason = reason]
                    \/ \E k, c \in LeafKeys : w = [NoPost EXCEPT !.at = "revoke", !.ep = e, !.key = k,
                                                     !.carried = c, !.leaf = l, !.reason = reason]
    BY <1>3 DEF revokeCert
  <2>2. w \in PostRow
    BY ZenonT(30), <2>1, NoPostFits DEF PostRow
  <2>3. w.at = "revoke" /\ w.ep = e /\ w.leaf = l
    BY <2>1, NoPostFits DEF PostRow
  <2>4. PostFits(w)
    BY <1>3, <2>3 DEF PostFits, Resources, revokeCert
  <2> QED
    BY <1>3, <2>1, <2>2, <2>4, PostMoves DEF revokeCert
<1> QED
  BY <1>1, <1>2, <1>3

(* An account is told of what its order issued.                               *)
LEMMA Answers ==
  ASSUME ServiceInv, NEW p \in Posts,
         order(p) \/ certificate(p) \/ authorization(p) \/ challenge(p) \/ EndPost(p)
  PROVE  ServiceInv'
<1>1. PICK w : /\ Ask(p, w) /\ UNCHANGED <<about, acme, kids, accounts, leaves>>
               /\ \/ w = NoPost
                  \/ /\ w = [posts[p] EXCEPT !.at = "answered"]
                     /\ posts[p].at \in Resources /\ Order(p)
  <2>1. ASSUME NEW what \in Resources, NEW found \in BOOLEAN, found => Order(p), dispatch(p, what, found)
        PROVE  \E w : /\ Ask(p, w) /\ UNCHANGED <<about, acme, kids, accounts, leaves>>
                      /\ \/ w = NoPost
                         \/ /\ w = [posts[p] EXCEPT !.at = "answered"]
                            /\ posts[p].at \in Resources /\ Order(p)
    BY <2>1 DEF dispatch, Ask
  <2>2. {"order", "authorization", "challenge", "certificate"} \subseteq Resources
    BY DEF Resources
  <2>3. Order(p) \in BOOLEAN /\ Certificate(p) \in BOOLEAN /\ (Certificate(p) => Order(p))
    BY DEF Order, Certificate
  <2> QED
    BY <2>1, <2>2, <2>3 DEF order, certificate, authorization, challenge, EndPost, Finish
<1>2. CASE w = NoPost
  BY <1>1, <1>2, NoPostFits, PostMoves
<1>3. CASE w # NoPost
  <2>1. posts[p] \in PostRow /\ PostFits(posts[p])
    BY AcmeRowsAre DEF ServiceInv
  <2>2. w \in PostRow
    BY <1>1, <1>3, <2>1 DEF PostRow
  <2>3. w.at = "answered" /\ w.ep = posts[p].ep /\ w.leaf = posts[p].leaf /\ w.account = posts[p].account
    BY <1>1, <1>3, <2>1 DEF PostRow
  <2>4. PostFits(w)
    BY <1>1, <1>3, <2>1, <2>3 DEF PostFits, Resources, Order
  <2> QED
    BY <1>1, <2>2, <2>4, PostMoves
<1> QED
  BY <1>2, <1>3

(* A revocation goes on when the signer ordered the certificate or has the    *)
(* key of the one it sent.                                                    *)
LEMMA Authorizes ==
  ASSUME ServiceInv, NEW p \in Posts, Revoke(p)
  PROVE  ServiceInv'
<1>1. posts[p] \in PostRow /\ PostFits(posts[p])
  BY AcmeRowsAre DEF ServiceInv
<1>2. CASE authorizeRevocation(p) /\ leaves[posts[p].leaf].state = "issued"
  <2>1. PICK w : w = [posts[p] EXCEPT !.at = "flip"]
    OBVIOUS
  <2>2. w \in PostRow
    BY <1>1, <2>1 DEF PostRow
  <2>3. w.at = "flip" /\ w.ep = posts[p].ep /\ w.leaf = posts[p].leaf /\ w.account = posts[p].account
        /\ w.key = posts[p].key /\ w.carried = posts[p].carried
    BY <1>1, <2>1 DEF PostRow
  <2>4. PostFits(w)
    BY <1>1, <1>2, <2>3 DEF PostFits, Resources, Revoke, authorizeRevocation, CertificateOrderedBy
  <2>5. Ask(p, w)
    BY <1>2, <2>1 DEF Revoke, Ask
  <2> QED
    BY <2>2, <2>4, <2>5, PostMoves DEF Revoke
<1>3. CASE ~(authorizeRevocation(p) /\ leaves[posts[p].leaf].state = "issued")
  <2>1. Ask(p, NoPost)
    BY <1>3 DEF Revoke, Ask
  <2> QED
    BY <2>1, NoPostFits, PostMoves DEF Revoke
<1> QED
  BY <1>2, <1>3

(* The console writes an endpoint's name under the unique index, or turns the *)
(* endpoint on and off.                                                       *)
LEMMA EndpointsWritten ==
  ASSUME ServiceInv,
         \/ \E p \in Posts : InsertAcme(p) \/ UpdateAcme(p)
         \/ \E e \in AcmeEndpoints, on \in BOOLEAN : setAcmeEnabled(e, on)
  PROVE  ServiceInv'
<1>1. PICK e \in AcmeEndpoints, row \in AcmeRow :
        /\ row.row = "live"
        /\ \/ acme' = acme
           \/ /\ acme' = [acme EXCEPT ![e] = row]
              /\ \/ NameIndex(e, row.name)
                 \/ Live(e) /\ row.name = acme[e].name
  <2>1. ASSUME NEW p \in Posts, InsertAcme(p)
        PROVE  \E e \in AcmeEndpoints, row \in AcmeRow :
                 /\ row.row = "live"
                 /\ \/ acme' = acme
                    \/ acme' = [acme EXCEPT ![e] = row] /\ NameIndex(e, row.name)
    <3>1. posts[p].ep \in AcmeEndpoints /\ posts[p].name \in AcmeNames \union {Unset}
      BY <2>1, AcmeRowsAre DEF InsertAcme, PostRow, ServiceInv, PostFits
    <3>2. PICK row : row = [row |-> "live", name |-> posts[p].name, enabled |-> FALSE]
      OBVIOUS
    <3>3. row \in AcmeRow
      BY <3>1, <3>2, Zenon DEF AcmeRow
    <3>4. row.row = "live" /\ row.name = posts[p].name
      BY <3>2
    <3>5. acme' = acme \/ (acme' = [acme EXCEPT ![posts[p].ep] = row] /\ NameIndex(posts[p].ep, row.name))
      BY <2>1, <3>2, <3>4 DEF InsertAcme
    <3> QED
      BY <3>1, <3>3, <3>4, <3>5
  <2>2. ASSUME NEW p \in Posts, UpdateAcme(p)
        PROVE  \E e \in AcmeEndpoints, row \in AcmeRow :
                 /\ row.row = "live"
                 /\ \/ acme' = acme
                    \/ acme' = [acme EXCEPT ![e] = row] /\ NameIndex(e, row.name)
    <3>1. posts[p].ep \in AcmeEndpoints /\ posts[p].name \in AcmeNames \union {Unset}
      BY <2>2, AcmeRowsAre DEF UpdateAcme, PostRow, ServiceInv, PostFits
    <3>2. PICK row : row = [row |-> "live", name |-> posts[p].name, enabled |-> acme[posts[p].ep].enabled]
      OBVIOUS
    <3>3. acme[posts[p].ep] \in AcmeRow
      BY <3>1, AcmeRowsAre
    <3>4. row \in AcmeRow
      <4>1. acme[posts[p].ep].enabled \in BOOLEAN
        BY <3>3, Zenon DEF AcmeRow
      <4> QED
        BY <3>1, <3>2, <4>1, Zenon DEF AcmeRow
    <3>5. row.row = "live" /\ row.name = posts[p].name
      BY <3>2
    <3>6. Live(posts[p].ep) => [acme[posts[p].ep] EXCEPT !.name = posts[p].name] = row
      BY <3>2, <3>3 DEF Live, AcmeRow
    <3>7. acme' = acme \/ (acme' = [acme EXCEPT ![posts[p].ep] = row] /\ NameIndex(posts[p].ep, row.name))
      BY <2>2, <3>5, <3>6 DEF UpdateAcme
    <3> QED
      BY <3>1, <3>4, <3>5, <3>7
  <2>3. ASSUME NEW e \in AcmeEndpoints, NEW on \in BOOLEAN, setAcmeEnabled(e, on)
        PROVE  \E row \in AcmeRow :
                 /\ row.row = "live"
                 /\ acme' = [acme EXCEPT ![e] = row] /\ Live(e) /\ row.name = acme[e].name
    <3>1. acme[e] \in AcmeRow
      BY AcmeRowsAre
    <3>2. PICK row : row = [acme[e] EXCEPT !.enabled = on]
      OBVIOUS
    <3>3. row \in AcmeRow
      BY <3>1, <3>2, Zenon DEF AcmeRow
    <3>4. row.row = acme[e].row /\ row.name = acme[e].name
      BY <3>1, <3>2 DEF AcmeRow
    <3> QED
      BY <2>3, <3>2, <3>3, <3>4 DEF setAcmeEnabled, Live
  <2> QED
    BY <2>1, <2>2, <2>3
<1>2. UNCHANGED <<about, kids, accounts, leaves>>
  BY DEF InsertAcme, UpdateAcme, setAcmeEnabled
<1>3. UNCHANGED posts \/ \E p \in Posts : Finish(p)
  BY DEF InsertAcme, UpdateAcme, setAcmeEnabled
<1>4. acme' \in [AcmeEndpoints -> AcmeRow]
  BY <1>1, AcmeRowsAre
<1>5. \A f \in AcmeEndpoints : \/ acme'[f] = acme[f]
                               \/ f = e /\ acme'[f] = row /\ acme' = [acme EXCEPT ![e] = row]
  BY <1>1, AcmeRowsAre
<1>6. \A f \in AcmeEndpoints : (Live(f) => acme'[f].row = "live") /\ (acme'[f].enabled => acme'[f].row = "live")
  BY <1>1, <1>5 DEF Live, ServiceInv, ServiceTypeOK
<1>7. AcmeNamesDiffer'
  BY <1>1, <1>5, AcmeRowsAre DEF ServiceInv, AcmeNamesDiffer, Live, NameIndex
<1>8. RowsKept
  BY <1>2 DEF RowsKept
<1>9. ParentsAreThere' /\ BoundWhereMinted' /\ RevokedByOwner'
  BY <1>2 DEF ServiceInv, ParentsAreThere, BoundWhereMinted, RevokedByOwner
<1>10. NothingOutlives'
  <2>1. \A k \in Kids : kids[k].state \in {"live", "revoked"} => kids[k].ep \in AcmeEndpoints /\ Live(kids[k].ep)
    BY DEF ServiceInv, NothingOutlives, ParentsAreThere
  <2>2. \A u \in Accounts : accounts[u].state # "none" => accounts[u].ep \in AcmeEndpoints
    BY DEF ServiceInv, BoundWhereMinted, ParentsAreThere
  <2> QED
    BY <1>2, <1>6, <2>1, <2>2 DEF ServiceInv, NothingOutlives, ParentsAreThere, Live
<1> QED
  BY <1>2, <1>3, <1>4, <1>6, <1>7, <1>8, <1>9, <1>10, AcmeRowsAre, TablesMove

(* A deletion takes with it what refers to the endpoint.                      *)
LEMMA EndpointDeleted ==
  ASSUME ServiceInv, NEW p \in Posts, DeleteAcme(p)
  PROVE  ServiceInv' /\ RevocationStands
<1>1. PICK e : e = posts[p].ep
  OBVIOUS
<1>2. e \in AcmeEndpoints
  BY <1>1 DEF DeleteAcme, ServiceInv, PostFits
<1>3. PICK row : row = [row |-> "deleted", name |-> Unset, enabled |-> FALSE]
  OBVIOUS
<1>4. row \in AcmeRow /\ row.row = "deleted" /\ ~row.enabled
  <2>1. row \in AcmeRow
    BY <1>3, Zenon DEF AcmeRow
  <2> QED
    BY <1>3, <2>1
<1>5. acme' \in [AcmeEndpoints -> AcmeRow]
      /\ \A f \in AcmeEndpoints : acme'[f] = IF f = e THEN row ELSE acme[f]
  BY <1>1, <1>2, <1>3, <1>4, AcmeRowsAre DEF DeleteAcme
<1>6. /\ kids' \in [Kids -> KidRow]
      /\ \A k \in Kids : /\ kids'[k].ep = kids[k].ep
                         /\ kids'[k].state = IF kids[k].ep = e THEN "deleted" ELSE kids[k].state
  BY <1>1, AcmeRowsAre DEF DeleteAcme, KidRow
<1>7. /\ accounts' \in [Accounts -> AccountRow]
      /\ \A u \in Accounts : /\ accounts'[u].ep = accounts[u].ep /\ accounts'[u].kid = accounts[u].kid
                             /\ accounts'[u].state = IF accounts[u].ep = e THEN "deleted" ELSE accounts[u].state
  <2>1. accounts' = [u \in Accounts |-> IF accounts[u].ep = e THEN [accounts[u] EXCEPT !.state = "deleted"]
                                        ELSE accounts[u]]
    BY <1>1 DEF DeleteAcme
  <2> QED
    BY <2>1, AcmeRowsAre DEF AccountRow
<1>8. leaves' \in [Leaves -> LeafRow]
      /\ \A l \in Leaves :
           \/ leaves'[l] = leaves[l] /\ ~(leaves[l].owner \in Accounts /\ accounts[leaves[l].owner].ep = e)
           \/ leaves'[l] = [leaves[l] EXCEPT !.order = FALSE]
  <2>1. \A l \in Leaves : [leaves[l] EXCEPT !.order = FALSE] \in LeafRow
    BY AcmeRowsAre, ZenonT(30) DEF LeafRow
  <2>2. leaves' = [l \in Leaves |-> IF leaves[l].owner \in Accounts /\ accounts[leaves[l].owner].ep = e
                                    THEN [leaves[l] EXCEPT !.order = FALSE] ELSE leaves[l]]
    BY <1>1 DEF DeleteAcme
  <2> QED
    BY <2>1, <2>2, AcmeRowsAre
<1>9. \A l \in Leaves : /\ leaves'[l].state = leaves[l].state /\ leaves'[l].owner = leaves[l].owner
                        /\ leaves'[l].key = leaves[l].key /\ leaves'[l].reason = leaves[l].reason
                        /\ leaves'[l].by = leaves[l].by /\ leaves'[l].revoker = leaves[l].revoker
                        /\ leaves'[l].carried = leaves[l].carried
  BY <1>8, AcmeRowsAre DEF LeafRow
<1>10. \A l \in Leaves : leaves'[l].order =>
         leaves[l].order /\ ~(leaves[l].owner \in Accounts /\ accounts[leaves[l].owner].ep = e)
  BY <1>8, AcmeRowsAre DEF LeafRow
<1>11. RowsKept
  BY <1>6, <1>9 DEF RowsKept
<1>12. AcmeNamesDiffer'
  BY <1>4, <1>5 DEF ServiceInv, AcmeNamesDiffer, Live
<1>13. RevokedByOwner' /\ RevocationStands
  BY <1>9 DEF ServiceInv, RevokedByOwner, RevocationStands
<1>14. ParentsAreThere'
  <2>1. e # 0
    BY <1>2, ServiceAssumption
  <2>2. \A k \in Kids : kids'[k].state # "none" <=> kids'[k].ep \in AcmeEndpoints
    BY <1>2, <1>6 DEF ServiceInv, ParentsAreThere
  <2>3. \A u \in Accounts :
          /\ accounts'[u].state = "none" <=> accounts[u].state = "none"
          /\ accounts'[u].state = "none" => accounts'[u].ep = 0
    BY <1>7, <2>1 DEF ServiceInv, ParentsAreThere
  <2>4. \A u \in Accounts : accounts'[u].state # "none" =>
          accounts'[u].kid \in Kids /\ kids'[accounts'[u].kid].state # "none"
    BY <1>6, <1>7, <2>3 DEF ServiceInv, ParentsAreThere
  <2>5. \A l \in Leaves : leaves'[l].order =>
          /\ leaves'[l].state # "none" /\ leaves'[l].owner \in Accounts
          /\ accounts'[leaves'[l].owner].state # "none"
    BY <1>9, <1>10, <2>3 DEF ServiceInv, ParentsAreThere
  <2> QED
    BY <2>2, <2>3, <2>4, <2>5 DEF ParentsAreThere
<1>15. BoundWhereMinted'
  <2> SUFFICES ASSUME NEW u \in Accounts, accounts'[u].state # "none"
               PROVE  kids'[accounts'[u].kid].ep = accounts'[u].ep
    BY DEF BoundWhereMinted
  <2>1. accounts[u].state # "none"
    BY <1>2, <1>7, ServiceAssumption DEF ServiceInv, ParentsAreThere
  <2> QED
    BY <1>6, <1>7, <2>1 DEF ServiceInv, BoundWhereMinted, ParentsAreThere
<1>16. NothingOutlives'
  <2>1. \A k \in Kids : kids'[k].state \in {"live", "revoked"} => acme'[kids'[k].ep].row = "live"
    BY <1>5, <1>6 DEF ServiceInv, NothingOutlives, ParentsAreThere, Live
  <2>2. \A u \in Accounts : accounts'[u].state \in {"valid", "deactivated"} => acme'[accounts'[u].ep].row = "live"
    BY <1>5, <1>7 DEF ServiceInv, NothingOutlives, ParentsAreThere, BoundWhereMinted, Live
  <2>3. \A l \in Leaves : leaves'[l].order => acme'[accounts'[leaves'[l].owner].ep].row = "live"
    BY <1>5, <1>7, <1>9, <1>10 DEF ServiceInv, NothingOutlives, ParentsAreThere, BoundWhereMinted, Live
  <2> QED
    BY <2>1, <2>2, <2>3 DEF NothingOutlives, Live
<1>17. \A f \in AcmeEndpoints : acme'[f].enabled => acme'[f].row = "live"
  BY <1>4, <1>5 DEF ServiceInv, ServiceTypeOK
<1> QED
  BY <1>5, <1>6, <1>7, <1>8, <1>11, <1>12, <1>13, <1>14, <1>15, <1>16, <1>17, TablesMove DEF DeleteAcme

(* A credential is written for an endpoint that is there.                     *)
LEMMA CredentialMinted ==
  ASSUME ServiceInv, NEW p \in Posts, CreateCredential(p)
  PROVE  ServiceInv'
<1>1. PICK k \in Kids : kids[k].state = "none" /\ k = Lowest({j \in Kids : kids[j].state = "none"})
  BY LowestIsIn, ServiceAssumption DEF CreateCredential
<1>2. posts[p].ep \in AcmeEndpoints
  BY DEF CreateCredential, ServiceInv, PostFits
<1>3. PICK row : row = [state |-> "live", ep |-> posts[p].ep]
  OBVIOUS
<1>4. kids' = kids \/ (Live(posts[p].ep) /\ kids' = [kids EXCEPT ![k] = row])
  BY <1>1, <1>3 DEF CreateCredential, Referenced
<1>5. row \in KidRow /\ row.state = "live" /\ row.ep = posts[p].ep
  BY <1>2, <1>3 DEF KidRow
<1>6. kids' \in [Kids -> KidRow]
      /\ \A j \in Kids : kids'[j] = kids[j] \/ (j = k /\ kids'[j] = row /\ Live(posts[p].ep))
  BY <1>4, <1>5, AcmeRowsAre
<1>7. RowsKept
  BY <1>1, <1>6 DEF RowsKept, CreateCredential
<1>8. AcmeNamesDiffer' /\ RevokedByOwner'
  BY DEF CreateCredential, ServiceInv, AcmeNamesDiffer, RevokedByOwner, Live
<1>9. ParentsAreThere' /\ BoundWhereMinted'
  BY <1>1, <1>2, <1>5, <1>6 DEF CreateCredential, ServiceInv, ParentsAreThere, BoundWhereMinted
<1>10. NothingOutlives'
  BY <1>5, <1>6 DEF CreateCredential, ServiceInv, NothingOutlives, Live
<1> QED
  BY <1>6, <1>7, <1>8, <1>9, <1>10, AcmeRowsAre, TablesMove
  DEF CreateCredential, ServiceInv, ServiceTypeOK

(* A credential that is revoked deactivates the accounts bound by it.         *)
LEMMA CredentialWithdrawn ==
  ASSUME ServiceInv, NEW p \in Posts, RevokeCredential(p)
  PROVE  ServiceInv'
<1>1. PICK k : k = posts[p].leaf
  OBVIOUS
<1>2. k \in Kids
  BY <1>1 DEF RevokeCredential, ServiceInv, PostFits
<1>3. /\ kids' \in [Kids -> KidRow]
      /\ \A j \in Kids : /\ kids'[j].ep = kids[j].ep
                         /\ \/ kids'[j].state = kids[j].state
                            \/ kids[j].state = "live" /\ kids'[j].state = "revoked"
  BY <1>1, <1>2, AcmeRowsAre DEF RevokeCredential, KidRow
<1>4. /\ accounts' \in [Accounts -> AccountRow]
      /\ \A u \in Accounts : /\ accounts'[u].ep = accounts[u].ep /\ accounts'[u].kid = accounts[u].kid
                             /\ \/ accounts'[u].state = accounts[u].state
                                \/ accounts[u].state = "valid" /\ accounts'[u].state = "deactivated"
  <2>1. CASE accounts' = accounts
    BY <2>1, AcmeRowsAre
  <2>2. CASE accounts' = [u \in Accounts |->
                            IF accounts[u].kid = k /\ accounts[u].state = "valid"
                            THEN [accounts[u] EXCEPT !.state = "deactivated"] ELSE accounts[u]]
    BY <2>2, AcmeRowsAre DEF AccountRow
  <2> QED
    BY <1>1, <2>1, <2>2 DEF RevokeCredential
<1>5. RowsKept
  BY <1>3 DEF RowsKept, RevokeCredential
<1>6. AcmeNamesDiffer' /\ RevokedByOwner'
  BY DEF RevokeCredential, ServiceInv, AcmeNamesDiffer, RevokedByOwner, Live
<1>7. ParentsAreThere' /\ BoundWhereMinted'
  BY <1>3, <1>4 DEF RevokeCredential, ServiceInv, ParentsAreThere, BoundWhereMinted
<1>8. NothingOutlives'
  BY <1>3, <1>4 DEF RevokeCredential, ServiceInv, NothingOutlives, ParentsAreThere, Live
<1> QED
  BY <1>3, <1>4, <1>5, <1>6, <1>7, <1>8, AcmeRowsAre, TablesMove
  DEF RevokeCredential, ServiceInv, ServiceTypeOK

(* An account is bound by a credential of the endpoint it registers on.       *)
LEMMA AccountBound ==
  ASSUME ServiceInv, NEW p \in Posts, bindExternalAccount(p)
  PROVE  ServiceInv'
<1>1. PICK u, k, e : u = posts[p].account /\ k = posts[p].leaf /\ e = posts[p].ep
  OBVIOUS
<1>2. u \in Accounts /\ k \in Kids /\ e \in AcmeEndpoints /\ kids[k].ep = e
  BY <1>1 DEF bindExternalAccount, ServiceInv, PostFits
<1>3. PICK row : row = [state |-> "valid", ep |-> e, kid |-> k]
  OBVIOUS
<1>4. row \in AccountRow /\ row.state = "valid" /\ row.ep = e /\ row.kid = k
  BY <1>2, <1>3 DEF AccountRow
<1>5. accounts' = accounts \/ (/\ kids[k].state = "live" /\ accounts[u].state = "none" /\ Live(e)
                               /\ accounts' = [accounts EXCEPT ![u] = row])
  BY <1>1, <1>3 DEF bindExternalAccount, Referenced
<1>6. accounts' \in [Accounts -> AccountRow]
      /\ \A v \in Accounts : \/ accounts'[v] = accounts[v]
                             \/ /\ v = u /\ accounts'[v] = row /\ Live(e)
                                /\ kids[k].state = "live" /\ accounts[u].state = "none"
  BY <1>4, <1>5, AcmeRowsAre
<1>7. RowsKept
  BY DEF RowsKept, bindExternalAccount
<1>8. AcmeNamesDiffer' /\ RevokedByOwner'
  BY DEF bindExternalAccount, ServiceInv, AcmeNamesDiffer, RevokedByOwner, Live
<1>same. UNCHANGED <<acme, kids, leaves>>
  BY DEF bindExternalAccount
<1>9. ParentsAreThere' /\ BoundWhereMinted'
  <2>1. ParentsAreThere'
    <3>1. \A v \in Accounts : accounts'[v].state = "none" => accounts'[v].ep = 0
      BY <1>4, <1>6 DEF ServiceInv, ParentsAreThere
    <3>2. \A v \in Accounts : accounts'[v].state # "none" =>
            accounts'[v].kid \in Kids /\ kids[accounts'[v].kid].state # "none"
      BY <1>2, <1>4, <1>6 DEF ServiceInv, ParentsAreThere
    <3>3. \A v \in Accounts : accounts[v].state # "none" => accounts'[v].state # "none"
      BY <1>4, <1>6
    <3> QED
      BY <1>same, <3>1, <3>2, <3>3 DEF ServiceInv, ParentsAreThere
  <2>2. BoundWhereMinted'
    BY <1>2, <1>4, <1>6, <1>same DEF ServiceInv, BoundWhereMinted
  <2> QED
    BY <2>1, <2>2
<1>10. NothingOutlives'
  <2>1. \A v \in Accounts : accounts'[v].state \in {"valid", "deactivated"} => Live(accounts'[v].ep)
    BY <1>4, <1>6 DEF ServiceInv, NothingOutlives
  <2>2. \A v \in Accounts : accounts[v].state # "none" => accounts'[v] = accounts[v]
    BY <1>6
  <2>3. \A l \in Leaves : leaves[l].order =>
          leaves[l].owner \in Accounts /\ accounts[leaves[l].owner].state # "none"
    BY DEF ServiceInv, ParentsAreThere
  <2>4. \A l \in Leaves : leaves[l].order => Live(accounts'[leaves[l].owner].ep)
    BY <2>2, <2>3 DEF ServiceInv, NothingOutlives
  <2> QED
    BY <1>same, <2>1, <2>4 DEF ServiceInv, NothingOutlives, Live
<1> QED
  BY <1>6, <1>7, <1>8, <1>9, <1>10, AcmeRowsAre, TablesMove
  DEF bindExternalAccount, ServiceInv, ServiceTypeOK

(* A certificate is issued to the account that ordered it.                    *)
LEMMA OrderCompleted ==
  ASSUME ServiceInv, NEW u \in Accounts, NEW key \in LeafKeys, CompleteOrder(u, key)
  PROVE  ServiceInv' /\ RevocationStands
<1>1. PICK l \in Leaves : leaves[l].state = "none" /\ l = Lowest({m \in Leaves : leaves[m].state = "none"})
  BY LowestIsIn, ServiceAssumption DEF CompleteOrder
<1>2. PICK row : row = [NoLeaf EXCEPT !.state = "issued", !.owner = u, !.order = TRUE, !.key = key]
  OBVIOUS
<1>3. NoLeaf \in LeafRow
  BY Zenon DEF NoLeaf, LeafRow, Reasons
<1>4. row \in LeafRow
  <2>1. row = [state |-> "issued", owner |-> u, order |-> TRUE, key |-> key, reason |-> "none",
               by |-> "nobody", revoker |-> Unset, carried |-> Unset]
    BY <1>2 DEF NoLeaf
  <2> QED
    BY <2>1, Zenon DEF LeafRow
<1>5. row.state = "issued" /\ row.owner = u /\ row.order = TRUE /\ row.by = "nobody"
  BY <1>2 DEF NoLeaf
<1>6. leaves' = [leaves EXCEPT ![l] = row]
  BY <1>1, <1>2 DEF CompleteOrder
<1>7. leaves' \in [Leaves -> LeafRow]
      /\ \A m \in Leaves : leaves'[m] = IF m = l THEN row ELSE leaves[m]
  BY <1>4, <1>6, AcmeRowsAre
<1>8. RowsKept
  BY <1>1, <1>7 DEF RowsKept, CompleteOrder
<1>9. AcmeNamesDiffer' /\ BoundWhereMinted'
  BY DEF CompleteOrder, ServiceInv, AcmeNamesDiffer, BoundWhereMinted, Live
<1>10. RevokedByOwner' /\ RevocationStands
  BY <1>1, <1>5, <1>7 DEF ServiceInv, RevokedByOwner, RevocationStands
<1>11. ParentsAreThere'
  BY <1>1, <1>5, <1>7 DEF CompleteOrder, ServiceInv, ParentsAreThere
<1>12. NothingOutlives'
  BY <1>5, <1>7 DEF CompleteOrder, ServiceInv, NothingOutlives, Live
<1> QED
  BY <1>7, <1>8, <1>9, <1>10, <1>11, <1>12, AcmeRowsAre, TablesMove
  DEF CompleteOrder, ServiceInv, ServiceTypeOK

(* Whoever revokes it, an issued certificate is revoked once, by the account  *)
(* that ordered it, by its key, or by an administrator.                       *)
LEMMA CertificateRevoked ==
  ASSUME ServiceInv,
         \/ \E p \in Posts : RevokeCertificate(p)
         \/ \E l \in Leaves : consoleRevoke(l)
  PROVE  ServiceInv' /\ RevocationStands
<1>1. PICK l \in Leaves, row \in LeafRow :
        /\ row.state = "revoked" /\ row.owner = leaves[l].owner /\ row.key = leaves[l].key
        /\ row.order = leaves[l].order
        /\ row.by = "account" => row.revoker = row.owner
        /\ row.by = "key" /\ row.carried = row.key => row.revoker = row.key
        /\ leaves' = leaves \/ (leaves[l].state = "issued" /\ leaves' = [leaves EXCEPT ![l] = row])
  <2>1. ASSUME NEW p \in Posts, RevokeCertificate(p)
        PROVE  \E l \in Leaves, row \in LeafRow :
                 /\ row.state = "revoked" /\ row.owner = leaves[l].owner /\ row.key = leaves[l].key
                 /\ row.order = leaves[l].order
                 /\ row.by = "account" => row.revoker = row.owner
                 /\ row.by = "key" /\ row.carried = row.key => row.revoker = row.key
                 /\ leaves' = leaves \/ (leaves[l].state = "issued" /\ leaves' = [leaves EXCEPT ![l] = row])
    <3>1. PICK l \in Leaves : l = posts[p].leaf
      BY <2>1 DEF RevokeCertificate, ServiceInv, PostFits
    <3>2. PICK b, r : /\ b = IF posts[p].account # Unset THEN "account" ELSE "key"
                      /\ r = IF posts[p].account # Unset THEN posts[p].account ELSE posts[p].key
      OBVIOUS
    <3>3. /\ b = "account" => r = leaves[l].owner
          /\ b = "key" => r = posts[p].carried
      BY <2>1, <3>1, <3>2 DEF RevokeCertificate, ServiceInv, PostFits
    <3>4. posts[p].reason \in Reasons /\ b \in {"account", "key"} /\ posts[p].carried \in LeafKeys \union {Unset}
          /\ r \in Accounts \union LeafKeys \union {Unset}
      BY <3>2, AcmeRowsAre DEF PostRow
    <3>5. PICK row : row = [leaves[l] EXCEPT !.state = "revoked", !.reason = posts[p].reason,
                                             !.carried = posts[p].carried, !.by = b,
                                             !.revoker = r]
      OBVIOUS
    <3>6. leaves[l] \in LeafRow
      BY AcmeRowsAre
    <3>7. row \in LeafRow
      BY <3>4, <3>5, <3>6, Zenon DEF LeafRow
    <3>8. /\ row.state = "revoked" /\ row.owner = leaves[l].owner /\ row.key = leaves[l].key
          /\ row.order = leaves[l].order /\ row.by = b /\ row.revoker = r /\ row.carried = posts[p].carried
      BY <3>5, <3>6 DEF LeafRow
    <3>9. leaves' = leaves \/ (leaves[l].state = "issued" /\ leaves' = [leaves EXCEPT ![l] = row])
      BY <2>1, <3>1, <3>2, <3>5 DEF RevokeCertificate, StillIssued
    <3> QED
      BY <3>3, <3>7, <3>8, <3>9
  <2>2. ASSUME NEW l \in Leaves, consoleRevoke(l)
        PROVE  \E row \in LeafRow :
                 /\ row.state = "revoked" /\ row.owner = leaves[l].owner /\ row.key = leaves[l].key
                 /\ row.order = leaves[l].order
                 /\ row.by = "account" => row.revoker = row.owner
                 /\ row.by = "key" /\ row.carried = row.key => row.revoker = row.key
                 /\ leaves' = leaves \/ (leaves[l].state = "issued" /\ leaves' = [leaves EXCEPT ![l] = row])
    <3>1. PICK row : row = [leaves[l] EXCEPT !.state = "revoked", !.reason = "unspecified", !.by = "console"]
      OBVIOUS
    <3>2. leaves[l] \in LeafRow
      BY AcmeRowsAre
    <3>3. row \in LeafRow
      <4>1. "unspecified" \in Reasons
        BY DEF Reasons
      <4> QED
        BY <3>1, <3>2, <4>1, Zenon DEF LeafRow
    <3>4. /\ row.state = "revoked" /\ row.owner = leaves[l].owner /\ row.key = leaves[l].key
          /\ row.order = leaves[l].order /\ row.by = "console"
      BY <3>1, <3>2 DEF LeafRow
    <3> QED
      BY <2>2, <3>1, <3>3, <3>4 DEF consoleRevoke
  <2> QED
    BY <2>1, <2>2
<1>2. UNCHANGED <<about, acme, kids, accounts>> /\ (UNCHANGED posts \/ \E p \in Posts : Finish(p))
  BY DEF RevokeCertificate, consoleRevoke
<1>3. leaves' \in [Leaves -> LeafRow]
      /\ \A m \in Leaves : leaves'[m] = leaves[m] \/ (m = l /\ leaves[l].state = "issued" /\ leaves'[m] = row)
  BY <1>1, AcmeRowsAre
<1>4. RowsKept
  BY <1>1, <1>2, <1>3 DEF RowsKept
<1>5. AcmeNamesDiffer' /\ BoundWhereMinted'
  BY <1>2 DEF ServiceInv, AcmeNamesDiffer, BoundWhereMinted, Live
<1>6. RevokedByOwner' /\ RevocationStands
  BY <1>1, <1>3 DEF ServiceInv, RevokedByOwner, RevocationStands
<1>7. ParentsAreThere' /\ NothingOutlives'
  BY <1>1, <1>2, <1>3 DEF ServiceInv, ParentsAreThere, NothingOutlives, Live
<1> QED
  BY <1>2, <1>3, <1>4, <1>5, <1>6, <1>7, AcmeRowsAre, TablesMove DEF ServiceInv, ServiceTypeOK

(* The tables start empty, or with every account registered on the first      *)
(* endpoint.                                                                  *)
LEMMA ServiceStarts == ServiceInit => ServiceInv
<1> SUFFICES ASSUME ServiceInit PROVE ServiceInv
  OBVIOUS
<1>1. NoPost \in PostRow /\ PostFits(NoPost)
  BY NoPostFits
<1>2. posts \in [Posts -> PostRow] /\ \A p \in Posts : PostFits(posts[p])
  BY <1>1 DEF ServiceInit
<1>3. acme \in [AcmeEndpoints -> AcmeRow]
  <2>1. \A r \in {"none", "live", "deleted"}, on \in BOOLEAN : [row |-> r, name |-> Unset, enabled |-> on] \in AcmeRow
    BY Zenon DEF AcmeRow
  <2> QED
    BY <2>1 DEF ServiceInit
<1>4. \A e \in AcmeEndpoints : /\ acme[e].enabled => acme[e].row = "live"
                               /\ acme[e].name = Unset
                               /\ about # "names" => acme[e].row = "live"
  BY DEF ServiceInit
<1>5. /\ kids \in [Kids -> KidRow]
      /\ \A k \in Kids : \/ kids[k].state = "none" /\ kids[k].ep = 0
                         \/ kids[k].state = "live" /\ kids[k].ep = 1 /\ k = 1 /\ about = "revocation"
      /\ about = "revocation" => kids[1].state = "live" /\ kids[1].ep = 1
  BY ServiceAssumption DEF ServiceInit, KidRow
<1>6. /\ accounts \in [Accounts -> AccountRow]
      /\ \A u \in Accounts : \/ accounts[u].state = "none" /\ accounts[u].ep = 0
                             \/ /\ accounts[u].state = "valid" /\ accounts[u].ep = 1 /\ accounts[u].kid = 1
                                /\ about = "revocation"
  BY ServiceAssumption DEF ServiceInit, AccountRow
<1>7. leaves \in [Leaves -> LeafRow]
      /\ \A l \in Leaves : leaves[l].state = "none" /\ ~leaves[l].order /\ leaves[l].by = "nobody"
  <2>1. NoLeaf \in LeafRow
    BY Zenon DEF NoLeaf, LeafRow, Reasons
  <2>2. NoLeaf.state = "none" /\ ~NoLeaf.order /\ NoLeaf.by = "nobody"
    BY DEF NoLeaf
  <2> QED
    BY <2>1, <2>2 DEF ServiceInit
<1>8. about \in Affairs
  BY DEF ServiceInit
<1>9. ServiceTypeOK
  BY <1>2, <1>3, <1>4, <1>5, <1>6, <1>7, <1>8 DEF ServiceTypeOK, AcmeRow, KidRow, AccountRow, LeafRow, PostRow
<1>10. AcmeNamesDiffer /\ RevokedByOwner
  BY <1>4, <1>7 DEF AcmeNamesDiffer, RevokedByOwner
<1>11. ParentsAreThere /\ BoundWhereMinted
  BY <1>5, <1>6, <1>7, ServiceAssumption DEF ParentsAreThere, BoundWhereMinted
<1>12. NothingOutlives
  BY <1>4, <1>5, <1>6, <1>7, ServiceAssumption DEF NothingOutlives, Live
<1> QED
  BY <1>2, <1>9, <1>10, <1>11, <1>12 DEF ServiceInv

(* Every step keeps the invariant, and every revocation.                      *)
LEMMA ServiceSteps ==
  ASSUME ServiceInv, [ServiceNext]_serviceVars
  PROVE  ServiceInv' /\ RevocationStands
<1>1. CASE UNCHANGED serviceVars
  <2>1. \A q \in Posts : PostFits(posts[q])'
    BY <1>1 DEF serviceVars, ServiceInv, PostFits
  <2> QED
    BY <1>1, <2>1 DEF serviceVars, ServiceInv, ServiceTypeOK, AcmeNamesDiffer, BoundWhereMinted,
       NothingOutlives, RevokedByOwner, ParentsAreThere, Live, RevocationStands
<1>2. ASSUME UNCHANGED leaves PROVE RevocationStands
  BY <1>2 DEF RevocationStands
<1>3. ASSUME NEW p \in Posts,
             \/ \E n \in AcmeNames : createAcme(p, n) \/ \E e \in AcmeEndpoints : updateAcme(p, e, n)
             \/ \E e \in AcmeEndpoints : removeAcme(p, e) \/ mintCredential(p, e)
             \/ \E k \in Kids : revokeCredential(p, k)
      PROVE  ServiceInv' /\ RevocationStands
  <2>1. UNCHANGED leaves
    BY <1>3 DEF createAcme, updateAcme, removeAcme, mintCredential, revokeCredential
  <2> QED
    BY <1>2, <1>3, <2>1, ConsoleAsks
<1>4. ASSUME NEW p \in Posts, NEW e \in AcmeEndpoints,
             \/ \E u \in Accounts : \/ \E k \in Kids : newAccount(p, e, u, k)
                                    \/ \E l \in Leaves, what \in Resources : Authenticate(p, e, u, l, what)
             \/ \E l \in Leaves, reason \in Reasons : revokeCert(p, e, l, reason)
      PROVE  ServiceInv' /\ RevocationStands
  <2>1. UNCHANGED leaves
    BY <1>4 DEF newAccount, Authenticate, revokeCert
  <2> QED
    BY <1>2, <1>4, <2>1, ClientAsks
<1>5. ASSUME NEW p \in Posts, order(p) \/ certificate(p) \/ authorization(p) \/ challenge(p) \/ EndPost(p)
      PROVE  ServiceInv' /\ RevocationStands
  <2>1. UNCHANGED leaves
    BY <1>5 DEF order, certificate, authorization, challenge, EndPost, dispatch
  <2> QED
    BY <1>2, <1>5, <2>1, Answers
<1>6. ASSUME NEW p \in Posts, Revoke(p) PROVE ServiceInv' /\ RevocationStands
  <2>1. UNCHANGED leaves
    BY <1>6 DEF Revoke
  <2> QED
    BY <1>2, <1>6, <2>1, Authorizes
<1>7. ASSUME \/ \E p \in Posts : InsertAcme(p) \/ UpdateAcme(p)
             \/ \E e \in AcmeEndpoints, on \in BOOLEAN : setAcmeEnabled(e, on)
      PROVE  ServiceInv' /\ RevocationStands
  <2>1. UNCHANGED leaves
    BY <1>7 DEF InsertAcme, UpdateAcme, setAcmeEnabled
  <2> QED
    BY <1>2, <1>7, <2>1, EndpointsWritten
<1>8. ASSUME NEW p \in Posts, CreateCredential(p) \/ RevokeCredential(p) \/ bindExternalAccount(p)
      PROVE  ServiceInv' /\ RevocationStands
  <2>1. UNCHANGED leaves
    BY <1>8 DEF CreateCredential, RevokeCredential, bindExternalAccount
  <2> QED
    BY <1>2, <1>8, <2>1, CredentialMinted, CredentialWithdrawn, AccountBound
<1>9. ASSUME NEW p \in Posts, ServiceNext,
             \/ InsertAcme(p) \/ UpdateAcme(p) \/ DeleteAcme(p) \/ CreateCredential(p) \/ RevokeCredential(p)
             \/ bindExternalAccount(p) \/ order(p) \/ certificate(p) \/ authorization(p) \/ challenge(p)
             \/ Revoke(p) \/ RevokeCertificate(p) \/ EndPost(p)
      PROVE  ServiceInv' /\ RevocationStands
  BY <1>5, <1>6, <1>7, <1>8, <1>9, EndpointDeleted, CertificateRevoked
<1>10. ASSUME ServiceNext PROVE ServiceInv' /\ RevocationStands
  BY <1>3, <1>4, <1>7, <1>9, <1>10, OrderCompleted, CertificateRevoked DEF ServiceNext
<1> QED
  BY <1>1, <1>10

(* What an account may see, change and leave behind ends with its own orders  *)
(* and its own endpoint, though requests authenticate in one step and act in  *)
(* a later one; a revocation signed by a key is by the key of the certificate *)
(* it carries; and the first revocation of a certificate stands (service.go,  *)
(* repo.go).                                                                  *)
THEOREM OwnersHold == ServiceSpec => OwnersAndEndpointsHold
<1>1. ServiceInv => /\ RevokedByOwner /\ ToldOnlyOwn /\ NothingOutlives /\ BoundWhereMinted
                    /\ AcmeNamesDiffer /\ ServiceTypeOK
  BY DEF ServiceInv, ToldOnlyOwn, PostFits
<1>2. ServiceInv /\ [ServiceNext]_serviceVars => ServiceInv'
  BY ServiceSteps
<1>3. ServiceInv /\ [ServiceNext]_serviceVars => RevocationStands
  BY ServiceSteps
<1> QED
  BY <1>1, <1>2, <1>3, ServiceStarts, PTL DEF ServiceSpec, OwnersAndEndpointsHold

----------------------------------------------------------------------------
(* SignIn.                                                                   *)

ChallengeRow == [row : BOOLEAN, fresh : BOOLEAN, rite : BOOLEAN,
                 stage : {"verify", "enroll"}, attempts : 0..MaxAttempts,
                 pending : Secrets \union {None}]
SignInRow == [at : {"idle", "mint", "enroll", "totp", "advance", "recovery",
                    "replace", "redeem", "reset", "passkey", "assert", "confirm",
                    "add", "remove"},
              chal : Links \union {None}, sess : Sessions \union {None},
              secret : Secrets \union {None},
              cred : Rows \union Passkeys \union (1..MaxBatch) \union {None},
              step : 0..LastStep + Skew + MaxCount, tries : 0..MaxAttempts,
              seen : SUBSET (Rows \union (1..MaxBatch))]
StepsOfCodes == 1..LastStep + Skew

(* A request has what its next step is about.                                 *)
OnChallenge == {"mint", "enroll", "replace", "totp", "advance", "recovery", "redeem", "reset",
                "passkey", "assert"}
Knows(x) ==
    /\ x.at \in OnChallenge => x.chal \in Links
    /\ x.at = "mint" => x.secret \in Secrets
    /\ x.at = "replace" => x.cred \in 1..MaxBatch /\ x.secret \in Secrets /\ x.step \in StepsOfCodes
    /\ x.at = "advance" => x.cred \in Rows /\ x.step \in StepsOfCodes
    /\ x.at \in {"redeem", "reset"} => x.cred \in 1..MaxBatch
    /\ x.at = "assert" => x.cred \in Passkeys /\ x.step \in 0..MaxCount
    /\ x.at = "confirm" => x.cred \in Passkeys /\ x.sess \in Sessions /\ x.step \in 0..MaxCount
    /\ x.at = "add" => x.sess \in Sessions /\ x.secret \in Secrets /\ x.step \in StepsOfCodes
    /\ x.at = "remove" => x.cred \in Rows

RequestsKnow == \A r \in Requests : Knows(req[r])

(* One request resets the factors with a code, and the code is there.         *)
OneReset ==
    /\ \A r \in Requests : req[r].at = "reset" => req[r].cred \in codes
    /\ \A r, q \in Requests :
         req[r].at = "reset" /\ req[q].at = "reset" /\ req[r].cred = req[q].cred => r = q

(* The codes that are there were not redeemed, and no replacement that has    *)
(* committed began when they were there.                                      *)
CodesAreCurrent ==
    /\ \A k \in 1..MaxBatch : k \in codes \/ k \notin issued => redeemed[k] = 0
    /\ \A b \in 1..MaxBatch : before[b] \subseteq issued
    /\ \A b \in issued : codes \intersect before[b] = {}

(* A set being issued is of one request, whose DELETE saw every code that was *)
(* there when it began and still is.                                          *)
SetsUnderWay ==
    /\ \A r \in Requests : req[r].at = "replace" =>
         /\ req[r].cred \in (1..batch) \ issued
         /\ codes \intersect before[req[r].cred] \subseteq req[r].seen
    /\ \A r, q \in Requests :
         req[r].at = "replace" /\ req[q].at = "replace" /\ req[r].cred = req[q].cred => r = q

(* A row yet to be made has no last step, and no reset has deleted it.        *)
RowsToCome == \A t \in Rows : totp[t] = None => last[t] = 0 /\ t \notin wiped

FactorsInv ==
    /\ SignInTypeOK /\ RequestsKnow /\ OneReset /\ CodesAreCurrent /\ SetsUnderWay
    /\ RowsToCome /\ ResetEndsSessions

USE SignInAssumption

(* What a step may not do.                                                    *)
UsedOnce == AcceptedAdvances /\ RecoveryCodeCurrent /\ CounterAdvances

(* The type invariant by its parts, the records of challenges and requests   *)
(* by name.                                                                  *)
LEMMA SignInTypes ==
  ASSUME SignInTypeOK
  PROVE  /\ chal \in [Links -> ChallengeRow] /\ req \in [Requests -> SignInRow]
         /\ now \in 1..LastStep /\ now \in Nat
         /\ totp \in [Rows -> Secrets \union {None}] /\ last \in [Rows -> 0..LastStep + Skew]
         /\ removed \subseteq Rows /\ wiped \subseteq Rows
         /\ codes \subseteq issued /\ issued \subseteq 1..batch /\ batch \in 0..MaxBatch
         /\ before \in [1..MaxBatch -> SUBSET (1..MaxBatch)]
         /\ redeemed \in [1..MaxBatch -> 0..2]
         /\ passkeys \subseteq Passkeys /\ flagged \subseteq Passkeys
         /\ counter \in [Passkeys -> 0..MaxCount]
         /\ live \subseteq Sessions /\ by \in [Sessions -> Rows \union Passkeys \union {None}]
         /\ stamp \in [Sessions -> 0..LastStep]
         /\ park \in [Sessions -> Secrets \union {None}] /\ rite \in [Sessions -> BOOLEAN]
<1>1. now \in 1..LastStep /\ now \in Nat
  BY DEF SignInTypeOK
<1>2. chal \in [Links -> ChallengeRow] /\ req \in [Requests -> SignInRow]
  BY Zenon DEF SignInTypeOK, ChallengeRow, SignInRow
<1> QED
  BY <1>1, <1>2, Zenon DEF SignInTypeOK

(* A step that opens no session, moves no counter and redeems no code, and    *)
(* does not confirm on behalf of a request, uses nothing.                     *)
LEMMA NothingUsed ==
  ASSUME SignInTypeOK, UNCHANGED <<by, counter, redeemed>>, UNCHANGED stamp \/ UNCHANGED req
  PROVE  UsedOnce
<1>1. passkeys \subseteq Passkeys
  BY SignInTypes
<1>2. ASSUME NEW t \in Rows \union Passkeys, NEW s \in Sessions, by[s] = None, by'[s] = t
      PROVE  FALSE
  BY <1>2
<1>3. ASSUME NEW r \in Requests, req'[r] # req[r], stamp' # stamp
      PROVE  FALSE
  BY <1>3
<1> QED
  BY <1>1, <1>2, <1>3 DEF UsedOnce, AcceptedAdvances, RecoveryCodeCurrent, CounterAdvances

(* A request that is not under way.                                           *)
LEMMA IdleRow ==
  Idle \in SignInRow /\ Idle.at = "idle"
  BY DEF Idle, SignInRow

(* Nobody has signed in, and nothing was used.                               *)
LEMMA SignInFirst ==
  ASSUME SignInInit
  PROVE  FactorsInv
<1> DEFINE first == [row |-> FALSE, fresh |-> TRUE, rite |-> FALSE,
                     stage |-> "enroll", attempts |-> 0, pending |-> None]
<1>1. first \in ChallengeRow
  <2>1. 0 \in 0..MaxAttempts
    OBVIOUS
  <2> QED
    BY <2>1, Zenon DEF ChallengeRow
<1>2. Idle \in SignInRow /\ Idle.at = "idle"
  BY IdleRow
<1>3. menu \in Menus /\ now = 1 /\ chal = [c \in Links |-> first] /\ req = [r \in Requests |-> Idle]
  BY DEF SignInInit
<1>4. PICK c \in Links : link = [d \in Links |-> IF d = c \/ menu \intersect PanelKinds = {}
                                                THEN "none" ELSE "lapsed"]
  BY DEF SignInInit
<1>5. PICK owned \in {0, 1, 2} :
        /\ totp = [t \in Rows |-> IF t <= owned THEN t ELSE None]
        /\ batch = (IF owned = 0 THEN 0 ELSE 1) /\ codes = 1..batch /\ issued = 1..batch
        /\ passkeys \subseteq Passkeys
  BY DEF SignInInit, OwnedAtFirst
<1>6. totp \in [Rows -> Secrets \union {None}]
  <2>1. \A t \in Rows : t <= owned => t \in {1, 2}
    BY <1>5
  <2> QED
    BY <1>5, <2>1
<1>7. /\ last = [t \in Rows |-> 0] /\ removed = {} /\ wiped = {}
      /\ redeemed = [k \in 1..MaxBatch |-> 0] /\ before = [k \in 1..MaxBatch |-> {}]
      /\ live = 1..OpenAtFirst(menu) /\ by = [s \in Sessions |-> IF s \in live THEN 1 ELSE None]
      /\ counter = [p \in Passkeys |-> 0] /\ flagged = {}
      /\ stamp = [s \in Sessions |-> 0] /\ rite = [s \in Sessions |-> FALSE]
      /\ park = [s \in Sessions |-> None]
  BY DEF SignInInit
<1>8. live \subseteq Sessions
  <2>1. OpenAtFirst(menu) \in {0, 1, 2}
    BY DEF OpenAtFirst
  <2> QED
    BY <1>7, <2>1
<1>9. link \in [Links -> {"none", "sent", "lapsed", "spent"}]
  BY <1>4
<1> HIDE DEF first
<1>10. chal \in [Links -> ChallengeRow] /\ req \in [Requests -> SignInRow]
  BY <1>1, <1>2, <1>3
<1>11. batch \in 0..MaxBatch /\ codes \subseteq issued /\ issued \subseteq 1..batch
  BY <1>5
<1>12. SignInTypeOK
  BY <1>3, <1>5, <1>6, <1>7, <1>8, <1>9, <1>10, <1>11 DEF SignInTypeOK, ChallengeRow, SignInRow
<1>13. \A r \in Requests : req[r].at = "idle"
  BY <1>2, <1>3
<1>14. RequestsKnow /\ OneReset /\ SetsUnderWay
  BY <1>13 DEF RequestsKnow, Knows, OnChallenge, OneReset, SetsUnderWay
<1>15. CodesAreCurrent /\ RowsToCome /\ ResetEndsSessions
  BY <1>7, <1>11 DEF CodesAreCurrent, RowsToCome, ResetEndsSessions
<1> QED
  BY <1>12, <1>14, <1>15 DEF FactorsInv

----------------------------------------------------------------------------
(* What a step leaves of a challenge and of a request.                        *)

(* A challenge written as a whole.                                           *)
LEMMA ChallengeSet ==
  ASSUME SignInTypeOK, NEW c \in Links, NEW row \in ChallengeRow
  PROVE  [chal EXCEPT ![c] = row] \in [Links -> ChallengeRow]
  BY SignInTypes

(* A challenge is deleted, opened again, extended or expires.                 *)
LEMMA ChallengeKept ==
  ASSUME SignInTypeOK, NEW c \in Links
  PROVE  /\ DeleteChallenge(c) \in [Links -> ChallengeRow]
         /\ CreateChallenge(c) \in [Links -> ChallengeRow]
         /\ SetChallengeStage(c) \in [Links -> ChallengeRow]
         /\ SetChallengeCeremony(c) \in [Links -> ChallengeRow]
         /\ [chal EXCEPT ![c].fresh = FALSE] \in [Links -> ChallengeRow]
         /\ \A k \in Secrets : SetPendingSecret(c, k) \in [Links -> ChallengeRow]
         /\ SpendChallengeAttempt(c) =>
              /\ chal[c].attempts + 1 \in 0..MaxAttempts
              /\ [chal EXCEPT ![c].attempts = @ + 1] \in [Links -> ChallengeRow]
<1>1. chal[c] \in ChallengeRow /\ chal \in [Links -> ChallengeRow]
  BY SignInTypes
<1>2. [chal[c] EXCEPT !.row = FALSE] \in ChallengeRow
  BY <1>1, Zenon DEF ChallengeRow
<1>3. \A v \in {"verify", "enroll"} : [[chal[c] EXCEPT !.row = TRUE] EXCEPT !.stage = v] \in ChallengeRow
  BY <1>1, Zenon DEF ChallengeRow
<1>4. [[chal[c] EXCEPT !.stage = "enroll"] EXCEPT !.pending = None] \in ChallengeRow
  BY <1>1, Zenon DEF ChallengeRow
<1>5. [chal[c] EXCEPT !.rite = TRUE] \in ChallengeRow
  BY <1>1, Zenon DEF ChallengeRow
<1>6. [chal[c] EXCEPT !.fresh = FALSE] \in ChallengeRow
  BY <1>1, Zenon DEF ChallengeRow
<1>7. \A k \in Secrets : [chal[c] EXCEPT !.pending = k] \in ChallengeRow
  BY <1>1, Zenon DEF ChallengeRow
<1>8. SpendChallengeAttempt(c) =>
        chal[c].attempts + 1 \in 0..MaxAttempts /\ [chal[c] EXCEPT !.attempts = @ + 1] \in ChallengeRow
  <2>1. chal[c].attempts \in 0..MaxAttempts
    BY <1>1 DEF ChallengeRow
  <2>2. SpendChallengeAttempt(c) => chal[c].attempts + 1 \in 0..MaxAttempts
    BY <2>1 DEF SpendChallengeAttempt
  <2>3. \A n \in 0..MaxAttempts : [chal[c] EXCEPT !.attempts = n] \in ChallengeRow
    BY <1>1, Zenon DEF ChallengeRow
  <2> QED
    BY <2>2, <2>3
<1>9. DeleteChallenge(c) \in [Links -> ChallengeRow]
  <2>1. DeleteChallenge(c) = [chal EXCEPT ![c] = [chal[c] EXCEPT !.row = FALSE]]
    BY DEF DeleteChallenge
  <2> QED
    BY <1>2, <2>1, ChallengeSet
<1>10. CreateChallenge(c) \in [Links -> ChallengeRow]
  <2> DEFINE v == IF Enrolled = {} THEN "enroll" ELSE "verify"
             row == [[chal[c] EXCEPT !.row = TRUE] EXCEPT !.stage = v]
  <2>1. CreateChallenge(c) = [chal EXCEPT ![c] = row]
    BY DEF CreateChallenge
  <2>2. v \in {"verify", "enroll"}
    OBVIOUS
  <2>3. row \in ChallengeRow
    BY <1>3, <2>2
  <2> HIDE DEF row
  <2> QED
    BY <2>1, <2>3, ChallengeSet
<1>11. SetChallengeStage(c) \in [Links -> ChallengeRow]
  <2> DEFINE row == [[chal[c] EXCEPT !.stage = "enroll"] EXCEPT !.pending = None]
  <2>1. SetChallengeStage(c) = IF chal[c].row THEN [chal EXCEPT ![c] = row] ELSE chal
    BY DEF SetChallengeStage
  <2> HIDE DEF row
  <2> QED
    BY <1>1, <1>4, <2>1, ChallengeSet DEF row
<1>12. SetChallengeCeremony(c) \in [Links -> ChallengeRow]
  <2>1. SetChallengeCeremony(c) = IF chal[c].row THEN [chal EXCEPT ![c] = [chal[c] EXCEPT !.rite = TRUE]]
                                  ELSE chal
    BY DEF SetChallengeCeremony
  <2> QED
    BY <1>1, <1>5, <2>1, ChallengeSet
<1>13. [chal EXCEPT ![c].fresh = FALSE] \in [Links -> ChallengeRow]
  <2>1. [chal EXCEPT ![c].fresh = FALSE] = [chal EXCEPT ![c] = [chal[c] EXCEPT !.fresh = FALSE]]
    OBVIOUS
  <2> QED
    BY <1>6, <2>1, ChallengeSet
<1>14. \A k \in Secrets : SetPendingSecret(c, k) \in [Links -> ChallengeRow]
  <2>1. \A k : SetPendingSecret(c, k) = IF chal[c].row THEN [chal EXCEPT ![c] = [chal[c] EXCEPT !.pending = k]]
                                        ELSE chal
    BY DEF SetPendingSecret
  <2> QED
    BY <1>1, <1>7, <2>1, ChallengeSet
<1>15. SpendChallengeAttempt(c) => [chal EXCEPT ![c].attempts = @ + 1] \in [Links -> ChallengeRow]
  <2>1. [chal EXCEPT ![c].attempts = @ + 1] = [chal EXCEPT ![c] = [chal[c] EXCEPT !.attempts = @ + 1]]
    OBVIOUS
  <2> QED
    BY <1>8, <2>1, ChallengeSet
<1> QED
  BY <1>8, <1>9, <1>10, <1>11, <1>12, <1>13, <1>14, <1>15

(* One request goes on; it knows what it needs.                               *)
Goes(r) ==
    /\ req' \in [Requests -> SignInRow] /\ Knows(req'[r])
    /\ \A q \in Requests \ {r} : req'[q] = req[q]
Stops(r) == Goes(r) /\ req'[r].at = "idle"

(* A request goes on with what it knows; the others stay where they are.     *)
LEMMA RowSet ==
  ASSUME SignInTypeOK, NEW r \in Requests, NEW x \in SignInRow, Knows(x), req' = [req EXCEPT ![r] = x]
  PROVE  Goes(r) /\ req'[r] = x
  BY SignInTypes DEF Goes

(* A request that ends is idle; the others stay where they are.              *)
LEMMA Stopped ==
  ASSUME SignInTypeOK, NEW r \in Requests, req' = [req EXCEPT ![r] = Idle]
  PROVE  Stops(r)
<1>1. Idle \in SignInRow /\ Idle.at = "idle"
  BY IdleRow
<1>2. Knows(Idle)
  BY <1>1 DEF Knows, OnChallenge
<1> QED
  BY <1>1, <1>2, RowSet DEF Stops

----------------------------------------------------------------------------
(* Most steps do nothing to what lets a person in.                           *)

(* Nobody begins to reset or to replace codes; a session may end, and a step   *)
(* may be burned on an authenticator that is there.                           *)
Calm ==
    /\ \/ UNCHANGED req
       \/ UNCHANGED stamp /\ \E r \in Requests : Goes(r) /\ req'[r].at \notin {"reset", "replace"}
    /\ UNCHANGED <<menu, totp, wiped, recovery, passkeys, counter, by>>
    /\ live' \subseteq live
    /\ \A t \in Rows : last'[t] # last[t] => totp[t] # None

(* The rest of the types.                                                    *)
RestTyped ==
    /\ now' \in 1..LastStep /\ link' \in [Links -> {"none", "sent", "lapsed", "spent"}]
    /\ chal' \in [Links -> ChallengeRow]
    /\ last' \in [Rows -> 0..LastStep + Skew] /\ removed' \subseteq Rows
    /\ flagged' \subseteq Passkeys
    /\ stamp' \in [Sessions -> 0..LastStep]
    /\ park' \in [Sessions -> Secrets \union {None}] /\ rite' \in [Sessions -> BOOLEAN]

(* A calm step keeps the invariant and uses nothing.                         *)
LEMMA CalmKeeps ==
  ASSUME FactorsInv, Calm, RestTyped
  PROVE  FactorsInv' /\ UsedOnce
<1>1. req' \in [Requests -> SignInRow] /\ RequestsKnow'
  BY SignInTypes DEF Calm, Goes, FactorsInv, RequestsKnow, SignInTypeOK
<1>2. SignInTypeOK'
  BY <1>1 DEF FactorsInv, Calm, RestTyped, SignInTypeOK, ChallengeRow, SignInRow, recovery
<1>3. ASSUME NEW r \in Requests, req'[r].at \in {"reset", "replace"}
      PROVE  req'[r] = req[r]
  BY <1>3 DEF Calm, Goes
<1>4. OneReset'
  BY <1>3 DEF FactorsInv, OneReset, Calm, recovery
<1>5. SetsUnderWay'
  BY <1>3 DEF FactorsInv, SetsUnderWay, Calm, recovery
<1>6. CodesAreCurrent' /\ RowsToCome' /\ ResetEndsSessions'
  BY DEF FactorsInv, Calm, CodesAreCurrent, RowsToCome, ResetEndsSessions, recovery
<1>7. UsedOnce
  BY NothingUsed DEF Calm, FactorsInv, recovery
<1> QED
  BY <1>1, <1>2, <1>4, <1>5, <1>6, <1>7 DEF FactorsInv

(* What is left of the types when nothing of it changes.                      *)
LEMMA RestKept ==
  ASSUME SignInTypeOK
  PROVE  /\ now \in 1..LastStep /\ link \in [Links -> {"none", "sent", "lapsed", "spent"}]
         /\ last \in [Rows -> 0..LastStep + Skew] /\ removed \subseteq Rows
         /\ chal \in [Links -> ChallengeRow]
         /\ flagged \subseteq Passkeys /\ stamp \in [Sessions -> 0..LastStep]
         /\ park \in [Sessions -> Secrets \union {None}] /\ rite \in [Sessions -> BOOLEAN]
  BY DEF SignInTypeOK, ChallengeRow

----------------------------------------------------------------------------
(* The link and the challenge.                                               *)

(* Mailing a link, following it, its expiry and the login by passkey that is *)
(* begun leave factors and sessions alone.                                   *)
LEMMA LinkSteps ==
  ASSUME FactorsInv, NEW c \in Links, Tick \/ sendLogin(c) \/ email(c) \/ Expire(c) \/ beginPasskeyLogin(c)
  PROVE  Calm /\ RestTyped
<1>0. SignInTypeOK
  BY DEF FactorsInv
<1>1. UNCHANGED <<menu, req, factors, keys, sessions>>
  BY DEF Tick, sendLogin, email, Expire, beginPasskeyLogin
<1>2. Calm
  BY <1>1 DEF Calm, factors, keys, sessions
<1>3. chal' \in [Links -> ChallengeRow]
  <2>1. CASE Tick \/ sendLogin(c)
    BY <1>0, <2>1, RestKept DEF Tick, sendLogin
  <2>2. CASE email(c)
    BY <1>0, <2>2, ChallengeKept DEF email
  <2>3. CASE Expire(c)
    <3>1. UNCHANGED chal \/ chal' = [chal EXCEPT ![c].fresh = FALSE]
      BY <2>3 DEF Expire
    <3>2. chal \in [Links -> ChallengeRow]
      BY <1>0, RestKept
    <3>3. [chal EXCEPT ![c].fresh = FALSE] \in [Links -> ChallengeRow]
      BY <1>0, ChallengeKept
    <3> QED
      BY <3>1, <3>2, <3>3, Zenon
  <2>4. CASE beginPasskeyLogin(c)
    BY <1>0, <2>4, ChallengeKept DEF beginPasskeyLogin
  <2> QED
    BY <2>1, <2>2, <2>3, <2>4
<1>4. now' \in 1..LastStep
  BY <1>0, RestKept DEF Tick, sendLogin, email, Expire, beginPasskeyLogin
<1>5. link' \in [Links -> {"none", "sent", "lapsed", "spent"}]
  BY <1>0, RestKept DEF Tick, sendLogin, email, Expire, beginPasskeyLogin
<1> QED
  BY <1>0, <1>1, <1>2, <1>3, <1>4, <1>5, RestKept DEF RestTyped, factors, keys, sessions

(* A secret that was minted is one of the secrets.                            *)
LEMMA NewKeys ==
  ASSUME NEW k \in newTOTPKey PROVE k \in Secrets
  BY DEF newTOTPKey, First

(* The page of the challenge mints a secret at most, into the challenge.     *)
LEMMA PageSteps ==
  ASSUME FactorsInv, NEW r \in Requests, NEW c \in Links, twoFactor(r, c) \/ pendingSecret(r)
  PROVE  Calm /\ RestTyped
<1>0. SignInTypeOK /\ Knows(req[r])
  BY DEF FactorsInv, RequestsKnow
<1>1. UNCHANGED <<menu, now, link, factors, keys, sessions>>
  BY DEF twoFactor, pendingSecret
<1>2. chal' \in [Links -> ChallengeRow] /\ Goes(r) /\ req'[r].at \notin {"reset", "replace"}
  <2>1. CASE twoFactor(r, c)
    <3>1. PICK k \in Secrets :
            req' = [req EXCEPT ![r] = [Idle EXCEPT !.at = "mint", !.chal = c, !.secret = k]]
      BY <2>1, NewKeys DEF twoFactor
    <3> DEFINE x == [Idle EXCEPT !.at = "mint", !.chal = c, !.secret = k]
    <3>2. x.at = "mint" /\ x.chal = c /\ x.secret = k
      BY IdleRow DEF SignInRow
    <3>3. x \in SignInRow
      BY IdleRow DEF SignInRow
    <3>4. Knows(x) /\ x.at = "mint"
      BY <3>2 DEF Knows, OnChallenge
    <3> HIDE DEF x
    <3> QED
      BY <1>0, <2>1, <3>1, <3>3, <3>4, RowSet, RestKept DEF twoFactor, x
  <2>2. CASE pendingSecret(r)
    <3>1. req[r].chal \in Links /\ req[r].secret \in Secrets
      BY <1>0, <2>2 DEF pendingSecret, Knows, OnChallenge
    <3> QED
      BY <1>0, <2>2, <3>1, Stopped, ChallengeKept DEF pendingSecret, Stops
  <2> QED
    BY <2>1, <2>2
<1> QED
  BY <1>0, <1>1, <1>2, RestKept DEF Calm, RestTyped, factors, keys, sessions

(* An attempt is spent before a factor is looked at.                         *)
LEMMA SpendSteps ==
  ASSUME FactorsInv, NEW r \in Requests, NEW c \in Links,
         NEW kind \in {"enroll", "totp", "recovery", "passkey"}, spend(r, c, kind)
  PROVE  Calm /\ RestTyped
<1>0. SignInTypeOK
  BY DEF FactorsInv
<1>1. UNCHANGED <<menu, now, link, factors, keys, sessions>>
  BY DEF spend
<1> DEFINE x == [Idle EXCEPT !.at = kind, !.chal = c, !.secret = chal[c].pending,
                             !.tries = chal[c].attempts + 1]
<1>2. /\ chal' \in [Links -> ChallengeRow]
      /\ UNCHANGED req \/ (SpendChallengeAttempt(c) /\ req' = [req EXCEPT ![r] = x])
  <2>1. CASE SpendChallengeAttempt(c)
    <3>1. chal' = [chal EXCEPT ![c].attempts = @ + 1]
      BY <2>1 DEF spend
    <3>2. UNCHANGED req \/ req' = [req EXCEPT ![r] = x]
      BY <2>1 DEF spend
    <3> HIDE DEF x
    <3> QED
      BY <1>0, <2>1, <3>1, <3>2, ChallengeKept
  <2>2. CASE ~SpendChallengeAttempt(c)
    <3>1. chal' = DeleteChallenge(c) /\ UNCHANGED req
      BY <2>2 DEF spend
    <3> QED
      BY <1>0, <3>1, ChallengeKept
  <2> QED
    BY <2>1, <2>2
<1>3. SpendChallengeAttempt(c) => x \in SignInRow /\ x.at = kind /\ x.chal = c
  <2>1. chal[c].pending \in Secrets \union {None}
    BY <1>0, SignInTypes DEF ChallengeRow
  <2>2. SpendChallengeAttempt(c) => chal[c].attempts + 1 \in 0..MaxAttempts
    BY <1>0, ChallengeKept
  <2>3. x.at = kind /\ x.chal = c
    BY IdleRow DEF SignInRow
  <2>4. SpendChallengeAttempt(c) => x \in SignInRow
    BY <2>1, <2>2, IdleRow DEF SignInRow
  <2> QED
    BY <2>3, <2>4
<1> HIDE DEF x
<1>4. SpendChallengeAttempt(c) => Knows(x)
  BY <1>3 DEF Knows
<1>5. UNCHANGED req \/ (Goes(r) /\ req'[r].at \notin {"reset", "replace"})
  BY <1>0, <1>2, <1>3, <1>4, RowSet
<1> QED
  BY <1>0, <1>1, <1>2, <1>5, RestKept DEF Calm, RestTyped, factors, keys, sessions

(* A refusal ends a request, whatever it had found.                          *)
LEMMA EndSteps ==
  ASSUME FactorsInv, NEW r \in Requests,
         \/ req[r].at \in OnChallenge /\ codeRejected(r)
         \/ Abandon(r) \/ passkeyRefused(r)
  PROVE  Calm /\ RestTyped
<1>0. SignInTypeOK /\ Knows(req[r])
  BY DEF FactorsInv, RequestsKnow
<1>1. UNCHANGED <<menu, now, link, factors, keys, sessions>>
  BY DEF codeRejected, Abandon, passkeyRefused
<1>2. Stops(r)
  BY <1>0, Stopped DEF codeRejected, Abandon, passkeyRefused
<1>3. chal' \in [Links -> ChallengeRow]
  <2>1. req[r].at \in OnChallenge => req[r].chal \in Links
    BY <1>0 DEF Knows
  <2>2. CASE req[r].at \in OnChallenge /\ codeRejected(r)
    <3>1. chal' = chal \/ chal' = DeleteChallenge(req[r].chal)
      BY <2>2 DEF codeRejected
    <3>2. chal \in [Links -> ChallengeRow]
      BY <1>0, RestKept
    <3>3. DeleteChallenge(req[r].chal) \in [Links -> ChallengeRow]
      BY <1>0, <2>1, <2>2, ChallengeKept
    <3> QED
      BY <3>1, <3>2, <3>3
  <2>3. CASE Abandon(r) \/ passkeyRefused(r)
    BY <1>0, <2>3, RestKept DEF Abandon, passkeyRefused
  <2> QED
    BY <2>2, <2>3
<1> QED
  BY <1>0, <1>1, <1>2, <1>3, RestKept DEF Calm, RestTyped, Stops, factors, keys, sessions

(* A code is found to match before its step is burned; a recovery code is     *)
(* read before it is.                                                         *)
LEMMA MatchSteps ==
  ASSUME FactorsInv, NEW r \in Requests, verifyCode(r) \/ RecoveryCodeBySelector(r)
  PROVE  Calm /\ RestTyped
<1>0. SignInTypeOK /\ Knows(req[r]) /\ req[r] \in SignInRow /\ req[r].chal \in Links
  BY SignInTypes DEF FactorsInv, RequestsKnow, verifyCode, RecoveryCodeBySelector, Knows, OnChallenge
<1>1. UNCHANGED <<menu, now, link, chal, factors, keys, sessions>>
  BY DEF verifyCode, RecoveryCodeBySelector
<1>2. Goes(r) /\ req'[r].at \notin {"reset", "replace"}
  <2>1. ASSUME NEW t \in Rows, NEW n \in codeSteps,
               req' = [req EXCEPT ![r].at = "advance", ![r].cred = t, ![r].step = n]
        PROVE  Goes(r) /\ req'[r].at = "advance"
    <3> DEFINE x == [[[req[r] EXCEPT !.at = "advance"] EXCEPT !.cred = t] EXCEPT !.step = n]
    <3>1. n \in 0..LastStep + Skew + MaxCount /\ n \in StepsOfCodes
      BY DEF codeSteps, StepsOfCodes
    <3>2. x \in SignInRow /\ x.at = "advance" /\ x.cred = t /\ x.step = n /\ x.chal = req[r].chal
      BY <1>0, <3>1 DEF SignInRow
    <3>3. req' = [req EXCEPT ![r] = x]
      BY <1>0, <2>1, SignInTypes
    <3> HIDE DEF x
    <3>4. Knows(x)
      BY <1>0, <3>1, <3>2 DEF Knows
    <3> QED
      BY <1>0, <3>2, <3>3, <3>4, RowSet
  <2>2. ASSUME NEW k \in codes, req' = [req EXCEPT ![r].at = "redeem", ![r].cred = k]
        PROVE  Goes(r) /\ req'[r].at = "redeem"
    <3> DEFINE x == [[req[r] EXCEPT !.at = "redeem"] EXCEPT !.cred = k]
    <3>1. k \in 1..MaxBatch
      BY <1>0, SignInTypes
    <3>2. x \in SignInRow /\ x.at = "redeem" /\ x.cred = k /\ x.chal = req[r].chal
      BY <1>0, <3>1 DEF SignInRow
    <3>3. req' = [req EXCEPT ![r] = x]
      BY <1>0, <2>2, SignInTypes
    <3> HIDE DEF x
    <3>4. Knows(x)
      BY <1>0, <3>1, <3>2 DEF Knows
    <3> QED
      BY <1>0, <3>2, <3>3, <3>4, RowSet
  <2>3. req' = [req EXCEPT ![r] = Idle] => Goes(r) /\ req'[r].at = "idle"
    BY <1>0, Stopped DEF Stops
  <2> QED
    BY <2>1, <2>2, <2>3 DEF verifyCode, RecoveryCodeBySelector
<1> QED
  BY <1>0, <1>1, <1>2, RestKept DEF Calm, RestTyped, factors, keys, sessions

(* Authenticators on the panel: asking for a code, and removing one.          *)
LEMMA RowSteps ==
  ASSUME FactorsInv, NEW r \in Requests, NEW s \in Sessions,
         confirmTOTP(r, s) \/ deleteTOTP(r, s) \/ deleteTOTPCommit(r)
  PROVE  Calm /\ RestTyped
<1>0. SignInTypeOK /\ Knows(req[r])
  BY DEF FactorsInv, RequestsKnow
<1>1. UNCHANGED <<menu, now, link, chal, totp, last, wiped, recovery, keys, sessions>>
  BY DEF confirmTOTP, deleteTOTP, deleteTOTPCommit, factors
<1>2. Goes(r) /\ req'[r].at \notin {"reset", "replace"} /\ removed' \subseteq Rows
  <2>1. CASE confirmTOTP(r, s)
    <3>1. PICK n \in codeSteps :
            req' = [req EXCEPT ![r] = [Idle EXCEPT !.at = "add", !.sess = s,
                                                   !.secret = park[s], !.step = n]]
      BY <2>1 DEF confirmTOTP
    <3> DEFINE x == [Idle EXCEPT !.at = "add", !.sess = s, !.secret = park[s], !.step = n]
    <3>2. park[s] \in Secrets
      BY <1>0, <2>1, RestKept DEF confirmTOTP, PendingTOTP
    <3>3. n \in 0..LastStep + Skew + MaxCount /\ n \in StepsOfCodes
      BY DEF codeSteps, StepsOfCodes
    <3>4. x.at = "add" /\ x.sess = s /\ x.secret = park[s] /\ x.step = n
      BY IdleRow DEF SignInRow
    <3>5. x \in SignInRow
      BY <3>2, <3>3, IdleRow DEF SignInRow
    <3>6. Knows(x) /\ x.at = "add"
      BY <3>2, <3>3, <3>4 DEF Knows, OnChallenge
    <3> HIDE DEF x
    <3> QED
      BY <1>0, <2>1, <3>1, <3>5, <3>6, RowSet, RestKept DEF confirmTOTP, x, factors
  <2>2. CASE deleteTOTP(r, s)
    <3>1. PICK t \in Rows : req' = [req EXCEPT ![r] = [Idle EXCEPT !.at = "remove", !.cred = t]]
      BY <2>2 DEF deleteTOTP, Enrolled
    <3> DEFINE x == [Idle EXCEPT !.at = "remove", !.cred = t]
    <3>2. x.at = "remove" /\ x.cred = t
      BY IdleRow DEF SignInRow
    <3>3. x \in SignInRow
      BY IdleRow DEF SignInRow
    <3>4. Knows(x) /\ x.at = "remove"
      BY <3>2 DEF Knows, OnChallenge
    <3> HIDE DEF x
    <3> QED
      BY <1>0, <2>2, <3>1, <3>3, <3>4, RowSet, RestKept DEF deleteTOTP, x, factors
  <2>3. CASE deleteTOTPCommit(r)
    <3>1. req[r].cred \in Rows
      BY <1>0, <2>3 DEF deleteTOTPCommit, Knows
    <3> QED
      BY <1>0, <2>3, <3>1, Stopped, RestKept DEF deleteTOTPCommit, DeleteTOTPCredential, Stops
  <2> QED
    BY <2>1, <2>2, <2>3
<1> QED
  BY <1>0, <1>1, <1>2, RestKept DEF Calm, RestTyped, keys, sessions

(* The panel itself.                                                         *)
LEMMA PanelSteps ==
  ASSUME FactorsInv, NEW s \in Sessions,
         \/ logout(s) \/ proveTOTP(s) \/ beginStepUpPasskey(s) \/ beginPasskeyRegistration(s)
         \/ beginTOTP(s) \/ totpQR(s) \/ cancelTOTP(s)
  PROVE  Calm /\ RestTyped
<1>0. SignInTypeOK
  BY DEF FactorsInv
<1>1. CASE logout(s)
  BY <1>0, <1>1, RestKept DEF logout, Calm, RestTyped, factors, keys
<1>2. CASE proveTOTP(s)
  <2>1. PICK t \in Rows, n \in codeSteps : last' = [last EXCEPT ![t] = n] /\ totp[t] # None
    BY <1>2 DEF proveTOTP, Enrolled
  <2>2. stamp' = [stamp EXCEPT ![s] = now]
    BY <1>2 DEF proveTOTP, StampStepUp
  <2>3. stamp' \in [Sessions -> 0..LastStep]
    <3>1. now \in 0..LastStep
      BY <1>0, RestKept
    <3> QED
      BY <1>0, <2>2, <3>1, RestKept
  <2>4. last' \in [Rows -> 0..LastStep + Skew] /\ \A u \in Rows : last'[u] # last[u] => totp[u] # None
    BY <1>0, <2>1, RestKept DEF codeSteps
  <2> QED
    BY <1>0, <1>2, <2>3, <2>4, RestKept DEF proveTOTP, Calm, RestTyped, keys
<1>3. CASE beginStepUpPasskey(s) \/ beginPasskeyRegistration(s)
  <2>1. rite' = [rite EXCEPT ![s] = TRUE]
        /\ UNCHANGED <<menu, now, link, chal, req, factors, keys, live, by, stamp, park>>
    BY <1>3 DEF beginStepUpPasskey, beginPasskeyRegistration, SetSessionCeremony
  <2>2. rite' \in [Sessions -> BOOLEAN]
    BY <1>0, <2>1, RestKept
  <2> QED
    BY <1>0, <2>1, <2>2, RestKept DEF Calm, RestTyped, factors, keys
<1>4. CASE beginTOTP(s) \/ totpQR(s) \/ cancelTOTP(s)
  <2>1. /\ park' \in [Sessions -> Secrets \union {None}]
        /\ UNCHANGED <<menu, now, link, chal, req, factors, keys, live, by, stamp, rite>>
    <3>1. park \in [Sessions -> Secrets \union {None}]
      BY <1>0, RestKept
    <3> QED
      BY <1>4, <3>1, NewKeys DEF beginTOTP, totpQR, cancelTOTP, pendingSessionSecret, SetPendingTOTP
  <2> QED
    BY <1>0, <2>1, RestKept DEF Calm, RestTyped, factors, keys
<1> QED
  BY <1>1, <1>2, <1>3, <1>4

(* An assertion is checked against the counter after it was read.            *)
LEMMA AssertSteps ==
  ASSUME FactorsInv, NEW r \in Requests, NEW s \in Sessions,
         finishPasskeyLogin(r) \/ finishStepUpPasskey(r, s)
  PROVE  Calm /\ RestTyped
<1>0. SignInTypeOK /\ Knows(req[r]) /\ req[r] \in SignInRow
  BY SignInTypes DEF FactorsInv, RequestsKnow
<1>1. UNCHANGED <<menu, now, link, chal, factors, keys, sessions>>
  BY DEF finishPasskeyLogin, finishStepUpPasskey
<1>2. \A n \in 0..MaxCount : n \in 0..LastStep + Skew + MaxCount
  OBVIOUS
<1>3. Goes(r) /\ req'[r].at \notin {"reset", "replace"}
  <2>1. CASE finishPasskeyLogin(r)
    <3>1. PICK p \in Passkeys, n \in 0..MaxCount :
            req' = [req EXCEPT ![r].at = "assert", ![r].cred = p, ![r].step = n]
      BY <1>0, <2>1, SignInTypes DEF finishPasskeyLogin, usablePasskeys
    <3>2. req[r].chal \in Links
      BY <1>0, <2>1 DEF finishPasskeyLogin, Knows, OnChallenge
    <3> DEFINE x == [[[req[r] EXCEPT !.at = "assert"] EXCEPT !.cred = p] EXCEPT !.step = n]
    <3>3. x \in SignInRow /\ x.at = "assert" /\ x.cred = p /\ x.step = n /\ x.chal = req[r].chal
      BY <1>0, <1>2 DEF SignInRow
    <3>4. req' = [req EXCEPT ![r] = x]
      BY <1>0, <3>1, SignInTypes
    <3> HIDE DEF x
    <3>5. Knows(x)
      BY <3>2, <3>3 DEF Knows
    <3> QED
      BY <1>0, <3>3, <3>4, <3>5, RowSet
  <2>2. CASE finishStepUpPasskey(r, s)
    <3>1. PICK p \in Passkeys, n \in 0..MaxCount :
            req' = [req EXCEPT ![r] = [Idle EXCEPT !.at = "confirm", !.sess = s, !.cred = p, !.step = n]]
      BY <1>0, <2>2, SignInTypes DEF finishStepUpPasskey, usablePasskeys
    <3> DEFINE x == [Idle EXCEPT !.at = "confirm", !.sess = s, !.cred = p, !.step = n]
    <3>2. x.at = "confirm" /\ x.sess = s /\ x.cred = p /\ x.step = n
      BY IdleRow DEF SignInRow
    <3>3. x \in SignInRow
      BY <1>2, IdleRow DEF SignInRow
    <3>4. Knows(x) /\ x.at = "confirm" /\ req' = [req EXCEPT ![r] = x]
      BY <3>1, <3>2 DEF Knows, OnChallenge
    <3> HIDE DEF x
    <3> QED
      BY <1>0, <3>3, <3>4, RowSet
  <2> QED
    BY <2>1, <2>2
<1> QED
  BY <1>0, <1>1, <1>3, RestKept DEF Calm, RestTyped, factors, keys, sessions

----------------------------------------------------------------------------
(* The steps that let a person in, or change what does.                       *)

(* What an ended request leaves of the others.                                *)
LEMMA EndKeeps ==
  ASSUME FactorsInv, NEW r \in Requests, Stops(r), UNCHANGED recovery
  PROVE  RequestsKnow' /\ OneReset' /\ SetsUnderWay' /\ CodesAreCurrent'
<1>1. ASSUME NEW q \in Requests, req'[q].at # "idle" PROVE q # r /\ req'[q] = req[q]
  BY <1>1 DEF Stops, Goes
<1>2. RequestsKnow'
  BY DEF FactorsInv, RequestsKnow, Stops, Goes
<1>3. OneReset' /\ SetsUnderWay'
  BY <1>1 DEF FactorsInv, OneReset, SetsUnderWay, recovery
<1> QED
  BY <1>2, <1>3 DEF FactorsInv, CodesAreCurrent, recovery

(* The replacement of the codes begins: a set nobody else issues.             *)
LEMMA BeginEnrolStep ==
  ASSUME FactorsInv, NEW r \in Requests, confirmEnrollment(r)
  PROVE  FactorsInv' /\ UsedOnce
<1>0. /\ SignInTypeOK /\ Knows(req[r]) /\ req[r] \in SignInRow /\ req[r].chal \in Links
      /\ req[r].secret \in Secrets /\ batch \in Nat /\ batch < MaxBatch
  <2>1. SignInTypeOK /\ Knows(req[r]) /\ req[r].at = "enroll" /\ batch < MaxBatch /\ req[r].secret # None
    BY DEF FactorsInv, RequestsKnow, confirmEnrollment
  <2>2. req[r] \in SignInRow /\ batch \in Nat
    BY <2>1, SignInTypes
  <2>3. req[r].secret \in Secrets
    BY <2>1, <2>2 DEF SignInRow
  <2>4. req[r].chal \in Links
    BY <2>1 DEF Knows, OnChallenge
  <2> QED
    BY <2>1, <2>2, <2>3, <2>4
<1> DEFINE b == batch + 1
<1>1. PICK n \in codeSteps :
        req' = [req EXCEPT ![r].at = "replace", ![r].cred = b, ![r].step = n, ![r].seen = codes]
  BY DEF confirmEnrollment
<1>2. /\ batch' = b /\ before' = [before EXCEPT ![b] = issued]
      /\ UNCHANGED <<menu, now, link, chal, totp, last, removed, wiped, codes, issued, redeemed,
                     keys, sessions>>
  BY DEF confirmEnrollment
<1>3. b \in 1..MaxBatch /\ b \notin 1..batch /\ 1..batch \subseteq 1..b
  BY <1>0
<1>4. /\ codes \subseteq issued /\ issued \subseteq 1..batch /\ issued \subseteq 1..MaxBatch
      /\ codes \in SUBSET (Rows \union (1..MaxBatch))
      /\ before \in [1..MaxBatch -> SUBSET (1..MaxBatch)]
  BY <1>0, SignInTypes
<1> HIDE DEF b
<1> DEFINE y == [[[req[r] EXCEPT !.at = "replace"] EXCEPT !.cred = b] EXCEPT !.step = n]
           x == [y EXCEPT !.seen = codes]
<1>5. req' = [req EXCEPT ![r] = x]
  BY <1>0, <1>1, SignInTypes
<1>6. /\ x \in SignInRow /\ x.at = "replace" /\ x.cred = b /\ x.step = n /\ x.seen = codes
      /\ x.chal = req[r].chal /\ x.secret = req[r].secret
  <2>1. n \in 0..LastStep + Skew + MaxCount
    BY DEF codeSteps
  <2>2. /\ y \in SignInRow /\ y.at = "replace" /\ y.cred = b /\ y.step = n
        /\ y.chal = req[r].chal /\ y.secret = req[r].secret
    BY <1>0, <1>3, <2>1 DEF SignInRow
  <2> HIDE DEF y
  <2> QED
    BY <1>4, <2>2 DEF SignInRow
<1> HIDE DEF x, y
<1>7. Knows(x)
  BY <1>0, <1>3, <1>6 DEF Knows, codeSteps, StepsOfCodes
<1>8. Goes(r) /\ req'[r] = x
  BY <1>0, <1>5, <1>6, <1>7, RowSet
<1>9. \A c \in 1..MaxBatch : before'[c] = IF c = b THEN issued ELSE before[c]
  BY <1>2, <1>3, <1>4
<1>10. SignInTypeOK'
  <2>1. before' \in [1..MaxBatch -> SUBSET (1..MaxBatch)]
    BY <1>2, <1>3, <1>4
  <2>2. batch' \in 0..MaxBatch /\ issued' \subseteq 1..batch' /\ codes' \subseteq issued'
    BY <1>2, <1>3, <1>4
  <2>3. req' \in [Requests -> SignInRow]
    BY <1>8 DEF Goes
  <2> QED
    BY <1>0, <1>2, <2>1, <2>2, <2>3 DEF SignInTypeOK, ChallengeRow, SignInRow, keys, sessions
<1>11. RequestsKnow'
  BY <1>8 DEF FactorsInv, RequestsKnow, Goes
<1>12. OneReset'
  <2>1. \A q \in Requests : req'[q].at = "reset" => req'[q] = req[q]
    BY <1>6, <1>8 DEF Goes
  <2> QED
    BY <1>2, <2>1 DEF FactorsInv, OneReset
<1>13. CodesAreCurrent'
  BY <1>2, <1>3, <1>4, <1>9 DEF FactorsInv, CodesAreCurrent
<1>14. SetsUnderWay'
  <2>1. \A q \in Requests \ {r} : req'[q] = req[q]
    BY <1>8 DEF Goes
  <2>2. \A q \in Requests \ {r} : req'[q].at = "replace" =>
          /\ req'[q].cred \in (1..batch) \ issued
          /\ codes \intersect before[req'[q].cred] \subseteq req'[q].seen
          /\ req'[q].cred # b /\ req'[q].cred \in 1..MaxBatch
    <3>1. 1..batch \subseteq 1..MaxBatch
      BY <1>0
    <3> QED
      BY <1>3, <2>1, <3>1 DEF FactorsInv, SetsUnderWay
  <2>3. req'[r].cred = b /\ req'[r].seen = codes
    BY <1>6, <1>8
  <2>4. \A q \in Requests : req'[q].at = "replace" =>
          /\ req'[q].cred \in (1..batch') \ issued'
          /\ codes' \intersect before'[req'[q].cred] \subseteq req'[q].seen
    <3> TAKE q \in Requests
    <3>1. CASE q = r
      <4>1. b \in (1..b) \ issued
        BY <1>0, <1>3, <1>4 DEF b
      <4> QED
        BY <1>2, <1>3, <1>9, <2>3, <3>1, <4>1
    <3>2. CASE q # r
      BY <1>2, <1>3, <1>9, <2>2, <3>2
    <3> QED
      BY <3>1, <3>2
  <2>5. \A q, p \in Requests :
          req'[q].at = "replace" /\ req'[p].at = "replace" /\ req'[q].cred = req'[p].cred => q = p
    <3> TAKE q, p \in Requests
    <3>1. CASE q # r /\ p # r
      BY <2>1, <3>1 DEF FactorsInv, SetsUnderWay
    <3>2. CASE q = r \/ p = r
      BY <2>2, <2>3, <3>2
    <3> QED
      BY <3>1, <3>2
  <2> QED
    BY <2>4, <2>5 DEF SetsUnderWay
<1>15. RowsToCome' /\ ResetEndsSessions'
  BY <1>2 DEF FactorsInv, RowsToCome, ResetEndsSessions, sessions
<1>16. UsedOnce
  BY <1>0, <1>2, NothingUsed DEF keys, sessions
<1> QED
  BY <1>10, <1>11, <1>12, <1>13, <1>14, <1>15, <1>16 DEF FactorsInv

(* An enrolment commits: a row nobody had, and codes of its set instead of    *)
(* those its DELETE saw.                                                      *)
LEMMA EnrolStep ==
  ASSUME FactorsInv, NEW r \in Requests, confirmEnrollmentCommit(r)
  PROVE  FactorsInv' /\ UsedOnce
<1> DEFINE b == req[r].cred
           n == req[r].step
           seen == req[r].seen
<1>0. /\ SignInTypeOK /\ req[r].at = "replace" /\ req[r].chal \in Links /\ b \in 1..MaxBatch
      /\ req[r].secret \in Secrets /\ n \in StepsOfCodes
      /\ b \in (1..batch) \ issued /\ codes \intersect before[b] \subseteq seen
  BY DEF FactorsInv, RequestsKnow, SetsUnderWay, confirmEnrollmentCommit, Knows, OnChallenge
<1>1. PICK t \in Rows, s \in Sessions :
        /\ totp[t] = None /\ by[s] = None
        /\ totp' = [totp EXCEPT ![t] = req[r].secret] /\ last' = [last EXCEPT ![t] = n]
        /\ live' = live \union {s} /\ by' = [by EXCEPT ![s] = t]
        /\ UNCHANGED <<stamp, park, rite>>
  BY DEF confirmEnrollmentCommit, FreshRows, FreshSessions, First, SaveTOTPCredential,
         CreateVerifiedSession
<1>2. /\ codes' = (codes \ seen) \union {b} /\ issued' = issued \union {b}
      /\ ~\E k \in seen : Redeeming(k)
      /\ chal' = DeleteChallenge(req[r].chal)
      /\ UNCHANGED <<menu, now, link, removed, wiped, batch, before, redeemed, keys>>
  BY DEF confirmEnrollmentCommit, ReplaceRecoveryCodes
<1>3. Stops(r)
  BY <1>0, Stopped DEF confirmEnrollmentCommit
<1>4. n \in 0..LastStep + Skew /\ n \in Nat /\ n > 0
  BY <1>0 DEF StepsOfCodes
<1>5. /\ codes \subseteq issued /\ issued \subseteq 1..batch
      /\ before \in [1..MaxBatch -> SUBSET (1..MaxBatch)]
  BY <1>0, SignInTypes
<1>6. ASSUME NEW q \in Requests, req'[q].at # "idle" PROVE q # r /\ req'[q] = req[q]
  BY <1>3, <1>6 DEF Stops, Goes
<1>7. \A q \in Requests : req[q].at = "replace" /\ req[q].cred = b => q = r
  BY <1>0 DEF FactorsInv, SetsUnderWay
<1>8. /\ \A k \in 1..MaxBatch : k \in codes \/ k \notin issued => redeemed[k] = 0
      /\ \A c \in 1..MaxBatch : before[c] \subseteq issued
      /\ \A c \in issued : codes \intersect before[c] = {}
  BY DEF FactorsInv, CodesAreCurrent
<1> HIDE DEF b, n, seen
<1>9. SignInTypeOK'
  <2>1. totp' \in [Rows -> Secrets \union {None}] /\ last' \in [Rows -> 0..LastStep + Skew]
    BY <1>0, <1>1, <1>4, SignInTypes
  <2>2. live' \subseteq Sessions /\ by' \in [Sessions -> Rows \union Passkeys \union {None}]
    BY <1>0, <1>1, SignInTypes
  <2>3. codes' \subseteq issued' /\ issued' \subseteq 1..batch'
    BY <1>0, <1>2, <1>5
  <2>4. chal' \in [Links -> ChallengeRow] /\ req' \in [Requests -> SignInRow]
    BY <1>0, <1>2, <1>3, ChallengeKept DEF Stops, Goes
  <2> QED
    BY <1>0, <1>1, <1>2, <2>1, <2>2, <2>3, <2>4 DEF SignInTypeOK, ChallengeRow, SignInRow, keys
<1>10. RequestsKnow'
  BY <1>3 DEF FactorsInv, RequestsKnow, Stops, Goes
<1>11. OneReset'
  <2>1. \A q \in Requests : req'[q].at = "reset" => req'[q].cred \in codes \ seen
    BY <1>2, <1>6 DEF FactorsInv, OneReset, Redeeming
  <2> QED
    BY <1>2, <1>6, <2>1 DEF FactorsInv, OneReset
<1>12. CodesAreCurrent'
  <2>1. b \notin before[b] /\ \A c \in issued : b \notin before[c]
    <3>1. 1..batch \subseteq 1..MaxBatch
      BY <1>0, SignInTypes
    <3> QED
      BY <1>0, <1>5, <1>8, <3>1
  <2>2. \A c \in issued' : codes' \intersect before[c] = {}
    BY <1>0, <1>2, <1>8, <2>1
  <2>3. \A k \in 1..MaxBatch : k \in codes' \/ k \notin issued' => redeemed[k] = 0
    BY <1>0, <1>2, <1>8
  <2> QED
    BY <1>2, <1>8, <2>2, <2>3 DEF CodesAreCurrent
<1>13. SetsUnderWay'
  <2>1. \A q \in Requests : req'[q].at = "replace" =>
          /\ req'[q].cred \in (1..batch) \ (issued \union {b}) /\ req'[q].cred \in 1..MaxBatch
          /\ codes \intersect before[req'[q].cred] \subseteq req'[q].seen
    <3>1. 1..batch \subseteq 1..MaxBatch
      BY <1>0, SignInTypes
    <3> QED
      BY <1>6, <1>7, <3>1 DEF FactorsInv, SetsUnderWay
  <2>2. \A q \in Requests : req'[q].at = "replace" =>
          codes' \intersect before[req'[q].cred] \subseteq req'[q].seen
    BY <1>0, <1>2, <1>8, <2>1
  <2>3. \A q, p \in Requests :
          req'[q].at = "replace" /\ req'[p].at = "replace" /\ req'[q].cred = req'[p].cred => q = p
    BY <1>6 DEF FactorsInv, SetsUnderWay
  <2> QED
    BY <1>2, <2>1, <2>2, <2>3 DEF SetsUnderWay
<1>14. t \notin wiped /\ last[t] = 0
  BY <1>1 DEF FactorsInv, RowsToCome
<1>15. RowsToCome' /\ ResetEndsSessions'
  <2>1. RowsToCome'
    BY <1>0, <1>1, <1>2, SignInTypes DEF FactorsInv, RowsToCome
  <2>2. ResetEndsSessions'
    <3>1. \A z \in Sessions : by'[z] = IF z = s THEN t ELSE by[z]
      BY <1>0, <1>1, SignInTypes
    <3>2. \A z \in live' : z \in Sessions /\ (z = s \/ z \in live)
      BY <1>0, <1>1, SignInTypes
    <3>3. \A z \in live : by[z] \notin wiped
      BY DEF FactorsInv, ResetEndsSessions
    <3> QED
      BY <1>2, <1>14, <3>1, <3>2, <3>3 DEF ResetEndsSessions
  <2> QED
    BY <2>1, <2>2
<1>16. UsedOnce
  <2>1. AcceptedAdvances
    BY SMTT(30), <1>0, <1>1, <1>4, <1>14, SignInTypes DEF AcceptedAdvances
  <2>2. RecoveryCodeCurrent
    BY <1>2 DEF RecoveryCodeCurrent
  <2>3. CounterAdvances
    <3>1. ASSUME NEW p \in passkeys, NEW z \in Sessions, by[z] = None, by'[z] = p PROVE FALSE
      <4>1. p \in Passkeys /\ by \in [Sessions -> Rows \union Passkeys \union {None}]
        BY <1>0, SignInTypes
      <4> QED
        BY <1>1, <3>1, <4>1
    <3>2. \A p \in passkeys : counter'[p] = counter[p]
      BY <1>2 DEF keys
    <3> QED
      BY <1>1, <3>1, <3>2 DEF CounterAdvances
  <2> QED
    BY <2>1, <2>2, <2>3 DEF UsedOnce
<1> QED
  BY <1>9, <1>10, <1>11, <1>12, <1>13, <1>15, <1>16 DEF FactorsInv

(* A code: its step is above the last one of an authenticator that is there.  *)
LEMMA CodeStep ==
  ASSUME FactorsInv, NEW r \in Requests, verifyCodeCommit(r)
  PROVE  FactorsInv' /\ UsedOnce
<1> DEFINE t == req[r].cred
           n == req[r].step
<1>0. SignInTypeOK /\ req[r].chal \in Links /\ t \in Rows /\ n \in StepsOfCodes
      /\ req[r].at \in OnChallenge
  BY DEF FactorsInv, RequestsKnow, verifyCodeCommit, Knows, OnChallenge
<1>1. CASE ~AdvanceTOTPStep(t, n)
  BY <1>0, <1>1, EndSteps, CalmKeeps DEF verifyCodeCommit
<1>2. CASE AdvanceTOTPStep(t, n)
  <2>1. PICK s \in Sessions :
          live' = live \union {s} /\ by' = [by EXCEPT ![s] = t] /\ UNCHANGED <<stamp, park, rite>>
    BY <1>2 DEF verifyCodeCommit, CreateVerifiedSession, FreshSessions, First
  <2>2. /\ last' = [last EXCEPT ![t] = n] /\ chal' = DeleteChallenge(req[r].chal)
        /\ UNCHANGED <<menu, now, link, totp, removed, wiped, recovery, keys>>
    BY <1>2 DEF verifyCodeCommit
  <2>3. Stops(r)
    BY <1>0, <1>2, Stopped DEF verifyCodeCommit
  <2>4. last[t] < n /\ totp[t] # None /\ t \notin wiped
    BY <1>2 DEF AdvanceTOTPStep, Enrolled
  <2> HIDE DEF t, n
  <2>5. SignInTypeOK'
    <3>1. last' \in [Rows -> 0..LastStep + Skew]
      <4>1. n \in 0..LastStep + Skew
        BY <1>0 DEF StepsOfCodes
      <4> QED
        BY <1>0, <2>2, <4>1, SignInTypes
    <3>2. live' \subseteq Sessions /\ by' \in [Sessions -> Rows \union Passkeys \union {None}]
      BY <1>0, <2>1, SignInTypes
    <3>3. chal' \in [Links -> ChallengeRow] /\ req' \in [Requests -> SignInRow]
      BY <1>0, <2>2, <2>3, ChallengeKept DEF Stops, Goes
    <3> QED
      BY <1>0, <2>1, <2>2, <3>1, <3>2, <3>3 DEF SignInTypeOK, ChallengeRow, SignInRow, keys, recovery
  <2>6. RequestsKnow' /\ OneReset' /\ SetsUnderWay' /\ CodesAreCurrent'
    BY <2>2, <2>3, EndKeeps
  <2>7. RowsToCome'
    BY <1>0, <2>2, <2>4, SignInTypes DEF FactorsInv, RowsToCome
  <2>8. ResetEndsSessions'
    BY SMTT(30), <1>0, <2>1, <2>2, <2>4, SignInTypes DEF FactorsInv, ResetEndsSessions
  <2>9. UsedOnce
    <3>1. AcceptedAdvances
      BY <1>0, <2>1, <2>2, <2>4, SignInTypes DEF AcceptedAdvances
    <3>2. RecoveryCodeCurrent /\ CounterAdvances
      BY SMTT(30), <1>0, <2>1, <2>2, SignInTypes DEF RecoveryCodeCurrent, CounterAdvances, keys, recovery
    <3> QED
      BY <3>1, <3>2 DEF UsedOnce
  <2> QED
    BY <2>5, <2>6, <2>7, <2>8, <2>9 DEF FactorsInv
<1> QED
  BY <1>1, <1>2

(* A recovery code is burned, by one request at a time.                       *)
LEMMA BurnStep ==
  ASSUME FactorsInv, NEW r \in Requests, verifyRecovery(r)
  PROVE  FactorsInv' /\ UsedOnce
<1>0. SignInTypeOK /\ Knows(req[r]) /\ req[r].at = "redeem" /\ req[r] \in SignInRow
  BY SignInTypes DEF FactorsInv, RequestsKnow, verifyRecovery
<1>1. CASE ~ConsumeRecoveryCode(req[r].cred)
  BY <1>0, <1>1, EndSteps, CalmKeeps DEF verifyRecovery, OnChallenge
<1>2. CASE ConsumeRecoveryCode(req[r].cred)
  <2>1. /\ req' = [req EXCEPT ![r].at = "reset", ![r].seen = Enrolled]
        /\ ~Redeeming(req[r].cred) /\ req[r].cred \in codes
        /\ UNCHANGED <<menu, now, link, chal, factors, keys, sessions>>
    BY <1>2 DEF verifyRecovery, ConsumeRecoveryCode
  <2> DEFINE x == [[req[r] EXCEPT !.at = "reset"] EXCEPT !.seen = Enrolled]
  <2>2. /\ x \in SignInRow /\ x.at = "reset" /\ x.cred = req[r].cred /\ x.chal = req[r].chal
    <3>1. Enrolled \in SUBSET (Rows \union (1..MaxBatch))
      BY DEF Enrolled
    <3> QED
      BY <1>0, <3>1 DEF SignInRow
  <2>3. req' = [req EXCEPT ![r] = x]
    BY <1>0, <2>1, SignInTypes
  <2> HIDE DEF x
  <2>4. Knows(x)
    BY <1>0, <2>2 DEF Knows, OnChallenge
  <2>5. Goes(r) /\ req'[r] = x
    BY <1>0, <2>2, <2>3, <2>4, RowSet
  <2>6. SignInTypeOK' /\ RequestsKnow'
    BY <2>1, <2>5 DEF Goes, FactorsInv, SignInTypeOK, ChallengeRow, SignInRow, RequestsKnow, factors,
                      keys, sessions, recovery
  <2>7. \A q \in Requests \ {r} : req'[q] = req[q] /\ (req[q].at = "reset" => req[q].cred # req[r].cred)
    BY <2>1, <2>5 DEF Goes, Redeeming
  <2>8. OneReset'
    <3>1. req'[r].cred \in codes' /\ req'[r].cred = req[r].cred
      BY <2>1, <2>2, <2>5 DEF factors, recovery
    <3>2. codes' = codes
      BY <2>1 DEF factors, recovery
    <3> QED
      BY <2>7, <3>1, <3>2 DEF FactorsInv, OneReset
  <2>9. SetsUnderWay'
    <3>1. \A q \in Requests : req'[q].at = "replace" => req'[q] = req[q]
      BY <2>2, <2>5 DEF Goes
    <3> QED
      BY <2>1, <3>1 DEF FactorsInv, SetsUnderWay, factors, recovery
  <2>10. CodesAreCurrent' /\ RowsToCome' /\ ResetEndsSessions'
    BY <2>1 DEF FactorsInv, CodesAreCurrent, RowsToCome, ResetEndsSessions, factors, sessions, recovery
  <2>11. UsedOnce
    BY <1>0, <2>1, NothingUsed DEF factors, keys, sessions, recovery
  <2> QED
    BY <2>6, <2>8, <2>9, <2>10, <2>11 DEF FactorsInv
<1> QED
  BY <1>1, <1>2

(* What it resets: the authenticators it saw and every session.               *)
LEMMA ResetStep ==
  ASSUME FactorsInv, NEW r \in Requests, verifyRecoveryCommit(r)
  PROVE  FactorsInv' /\ UsedOnce
<1> DEFINE k == req[r].cred
<1>0. /\ SignInTypeOK /\ req[r].at = "reset" /\ req[r].chal \in Links
      /\ k \in codes /\ k \in 1..MaxBatch
  BY DEF FactorsInv, RequestsKnow, verifyRecoveryCommit, Knows, OnChallenge, OneReset
<1>1. /\ codes' = codes \ {k} /\ redeemed' = [redeemed EXCEPT ![k] = @ + 1]
      /\ wiped' = wiped \union (req[r].seen \intersect Enrolled)
      /\ chal' = SetChallengeStage(req[r].chal) /\ live' = {}
      /\ UNCHANGED <<menu, now, link, totp, last, removed, batch, issued, before, keys, by,
                     stamp, park, rite>>
  BY DEF verifyRecoveryCommit, DeleteTOTPCredentials, DeleteSessionsForUser
<1>2. Stops(r)
  BY <1>0, Stopped DEF verifyRecoveryCommit
<1>3. redeemed[k] = 0 /\ k \in issued /\ \A b \in issued : k \notin before[b]
  BY <1>0, SignInTypes DEF FactorsInv, CodesAreCurrent
<1>4. \A q \in Requests : req[q].at = "reset" /\ req[q].cred = k => q = r
  BY <1>0 DEF FactorsInv, OneReset
<1> HIDE DEF k
<1>5. SignInTypeOK'
  <2>1. redeemed' \in [1..MaxBatch -> 0..2]
    BY <1>0, <1>1, <1>3, SignInTypes
  <2>2. wiped' \subseteq Rows /\ codes' \subseteq issued'
    BY <1>0, <1>1, SignInTypes DEF Enrolled
  <2>3. chal' \in [Links -> ChallengeRow] /\ req' \in [Requests -> SignInRow]
    BY <1>0, <1>1, <1>2, ChallengeKept DEF Stops, Goes
  <2> QED
    BY <1>0, <1>1, <2>1, <2>2, <2>3 DEF SignInTypeOK, ChallengeRow, SignInRow, keys
<1>6. ASSUME NEW q \in Requests, req'[q].at # "idle" PROVE q # r /\ req'[q] = req[q]
  BY <1>2, <1>6 DEF Stops, Goes
<1>7. RequestsKnow' /\ OneReset' /\ SetsUnderWay'
  <2>1. RequestsKnow'
    BY <1>2 DEF FactorsInv, RequestsKnow, Stops, Goes
  <2>2. OneReset'
    BY <1>1, <1>4, <1>6 DEF FactorsInv, OneReset
  <2>3. SetsUnderWay'
    BY <1>1, <1>6 DEF FactorsInv, SetsUnderWay
  <2> QED
    BY <2>1, <2>2, <2>3
<1>8. CodesAreCurrent'
  <2>1. \A c \in 1..MaxBatch : c \in codes' \/ c \notin issued => redeemed'[c] = 0
    BY <1>0, <1>1, <1>3, SignInTypes DEF FactorsInv, CodesAreCurrent
  <2> QED
    BY <1>1, <2>1 DEF FactorsInv, CodesAreCurrent
<1>9. RowsToCome' /\ ResetEndsSessions'
  BY <1>1 DEF FactorsInv, RowsToCome, ResetEndsSessions, Enrolled
<1>10. UsedOnce
  <2>1. \A c \in 1..MaxBatch : redeemed'[c] # redeemed[c] => c = k
    BY <1>0, <1>1, SignInTypes
  <2>2. RecoveryCodeCurrent
    BY <1>3, <2>1 DEF RecoveryCodeCurrent
  <2>3. AcceptedAdvances /\ CounterAdvances
    BY <1>0, <1>1, SignInTypes DEF AcceptedAdvances, CounterAdvances, keys
  <2> QED
    BY <2>2, <2>3 DEF UsedOnce
<1> QED
  BY <1>5, <1>7, <1>8, <1>9, <1>10 DEF FactorsInv

(* A passkey lets in if its counter still advances.                           *)
LEMMA AdmitStep ==
  ASSUME FactorsInv, NEW r \in Requests, finishPasskeyLoginCommit(r)
  PROVE  FactorsInv' /\ UsedOnce
<1> DEFINE p == req[r].cred
           n == req[r].step
<1>0. /\ SignInTypeOK /\ req[r].at = "assert" /\ req[r].chal \in Links
      /\ p \in Passkeys /\ n \in 0..MaxCount
  BY DEF FactorsInv, RequestsKnow, finishPasskeyLoginCommit, Knows, OnChallenge
<1>1. Stops(r)
  BY <1>0, Stopped DEF finishPasskeyLoginCommit
<1>2. UNCHANGED <<menu, now, link, factors, passkeys, flagged>>
  BY DEF finishPasskeyLoginCommit
<1>3. CASE ~AdvancePasskeyCounter(p, n)
  <2>1. UNCHANGED <<chal, counter, sessions>>
    BY <1>3 DEF finishPasskeyLoginCommit
  <2>2. Calm /\ RestTyped
    BY <1>0, <1>1, <1>2, <2>1, RestKept DEF Calm, RestTyped, Stops, factors, sessions
  <2> QED
    BY <2>2, CalmKeeps
<1>4. CASE AdvancePasskeyCounter(p, n)
  <2>1. PICK s \in Sessions :
          live' = live \union {s} /\ by' = [by EXCEPT ![s] = p] /\ UNCHANGED <<stamp, park, rite>>
    BY <1>4 DEF finishPasskeyLoginCommit, CreateVerifiedSession, FreshSessions, First
  <2>2. counter' = [counter EXCEPT ![p] = n] /\ chal' = DeleteChallenge(req[r].chal)
    BY <1>4 DEF finishPasskeyLoginCommit
  <2>3. n > counter[p] \/ (n = 0 /\ counter[p] = 0)
    BY <1>4 DEF AdvancePasskeyCounter
  <2> HIDE DEF p, n
  <2>4. SignInTypeOK'
    <3>1. counter' \in [Passkeys -> 0..MaxCount]
      BY <1>0, <2>2, SignInTypes
    <3>2. live' \subseteq Sessions /\ by' \in [Sessions -> Rows \union Passkeys \union {None}]
      BY <1>0, <2>1, SignInTypes
    <3>3. chal' \in [Links -> ChallengeRow] /\ req' \in [Requests -> SignInRow]
      BY <1>0, <1>1, <2>2, ChallengeKept DEF Stops, Goes
    <3> QED
      BY <1>0, <1>2, <2>1, <3>1, <3>2, <3>3
      DEF SignInTypeOK, ChallengeRow, SignInRow, factors, recovery
  <2>5. RequestsKnow' /\ OneReset' /\ SetsUnderWay' /\ CodesAreCurrent'
    BY <1>1, <1>2, EndKeeps DEF factors
  <2>6. RowsToCome'
    BY <1>2 DEF FactorsInv, RowsToCome, factors
  <2>7. ResetEndsSessions'
    <3>1. p \notin wiped
      BY <1>0, SignInTypes
    <3> QED
      BY <1>0, <1>2, <2>1, <3>1, SignInTypes DEF FactorsInv, ResetEndsSessions, factors
  <2>8. UsedOnce
    <3>1. \A z \in Sessions : by'[z] = IF z = s THEN p ELSE by[z]
      BY <1>0, <2>1, SignInTypes
    <3>2. AcceptedAdvances
      <4>1. p \notin Rows /\ None \notin Rows
        BY <1>0
      <4>2. \A t \in Rows, z \in Sessions : ~(by[z] = None /\ by'[z] = t)
        BY <3>1, <4>1
      <4> QED
        BY <4>2 DEF AcceptedAdvances
    <3>3. RecoveryCodeCurrent
      BY <1>2 DEF RecoveryCodeCurrent, factors, recovery
    <3>4. CounterAdvances
      <4>1. \A q \in passkeys : q # p =>
              counter'[q] = counter[q] /\ \A z \in Sessions : by'[z] = q => by[z] = q
        BY <1>0, <2>2, <3>1, SignInTypes
      <4>2. counter'[p] = n
        BY <1>0, <2>2, SignInTypes
      <4>3. None \notin Passkeys /\ passkeys \subseteq Passkeys /\ stamp' = stamp
        BY <1>0, <2>1, SignInTypes
      <4> QED
        BY <2>3, <4>1, <4>2, <4>3 DEF CounterAdvances
    <3> QED
      BY <3>2, <3>3, <3>4 DEF UsedOnce
  <2> QED
    BY <2>4, <2>5, <2>6, <2>7, <2>8 DEF FactorsInv
<1> QED
  BY <1>3, <1>4

(* A passkey confirms a session if its counter still advances; otherwise it   *)
(* is flagged.                                                                *)
LEMMA ConfirmStep ==
  ASSUME FactorsInv, NEW r \in Requests, finishStepUpPasskeyCommit(r)
  PROVE  FactorsInv' /\ UsedOnce
<1> DEFINE p == req[r].cred
           n == req[r].step
           s == req[r].sess
<1>0. /\ SignInTypeOK /\ req[r].at = "confirm"
      /\ p \in Passkeys /\ n \in 0..MaxCount /\ s \in Sessions
  BY DEF FactorsInv, RequestsKnow, finishStepUpPasskeyCommit, Knows
<1>1. Stops(r)
  BY <1>0, Stopped DEF finishStepUpPasskeyCommit
<1>2. UNCHANGED <<menu, now, link, chal, factors, passkeys, live, by, park>>
  BY DEF finishStepUpPasskeyCommit
<1>3. CASE ~AdvancePasskeyCounter(p, n)
  <2>1. flagged' = flagged \union ({p} \intersect passkeys) /\ UNCHANGED <<counter, rite, stamp>>
    BY <1>3 DEF finishStepUpPasskeyCommit, FlagPasskeyClone
  <2>2. Calm
    BY <1>1, <1>2, <2>1 DEF Calm, Stops, factors
  <2>3. RestTyped
    BY <1>0, <1>2, <2>1, RestKept DEF RestTyped, factors
  <2> QED
    BY <2>2, <2>3, CalmKeeps
<1>4. CASE AdvancePasskeyCounter(p, n)
  <2>1. /\ counter' = [counter EXCEPT ![p] = n] /\ UNCHANGED flagged
        /\ rite' = [rite EXCEPT ![s] = FALSE] /\ stamp' = [stamp EXCEPT ![s] = now]
    BY <1>4 DEF finishStepUpPasskeyCommit, StampStepUp
  <2>2. n > counter[p] \/ (n = 0 /\ counter[p] = 0)
    BY <1>4 DEF AdvancePasskeyCounter
  <2>3. \A q \in Requests \ {r} : req'[q] = req[q]
    BY <1>1 DEF Stops, Goes
  <2>4. req[r].cred = p
    OBVIOUS
  <2> HIDE DEF p, n, s
  <2>5. SignInTypeOK'
    <3>1. counter' \in [Passkeys -> 0..MaxCount]
      BY <1>0, <2>1, SignInTypes
    <3>2. rite' \in [Sessions -> BOOLEAN] /\ stamp' \in [Sessions -> 0..LastStep]
      <4>1. now \in 0..LastStep
        BY <1>0, RestKept
      <4> QED
        BY <1>0, <2>1, <4>1, RestKept
    <3>3. req' \in [Requests -> SignInRow]
      BY <1>1 DEF Stops, Goes
    <3> QED
      BY <1>0, <1>2, <2>1, <3>1, <3>2, <3>3
      DEF SignInTypeOK, ChallengeRow, SignInRow, factors, recovery
  <2>6. RequestsKnow' /\ OneReset' /\ SetsUnderWay' /\ CodesAreCurrent'
    BY <1>1, <1>2, EndKeeps DEF factors
  <2>7. RowsToCome' /\ ResetEndsSessions'
    BY <1>2 DEF FactorsInv, RowsToCome, ResetEndsSessions, factors
  <2>8. UsedOnce
    <3>1. \A z \in Sessions, f \in Rows \union Passkeys : ~(by[z] = None /\ by'[z] = f)
      BY <1>2
    <3>2. AcceptedAdvances
      BY <3>1 DEF AcceptedAdvances
    <3>3. RecoveryCodeCurrent
      BY <1>2 DEF RecoveryCodeCurrent, factors, recovery
    <3>4. CounterAdvances
      <4>1. \A q \in passkeys : q # p => counter'[q] = counter[q]
        BY <1>0, <2>1, SignInTypes
      <4>2. counter'[p] = n
        BY <1>0, <2>1, SignInTypes
      <4>3. passkeys \subseteq Passkeys
        BY <1>0, SignInTypes
      <4>4. \A q \in Requests : req'[q] # req[q] => req[q].cred = p
        BY <2>3, <2>4
      <4> QED
        BY <2>2, <3>1, <4>1, <4>2, <4>3, <4>4 DEF CounterAdvances
    <3> QED
      BY <3>2, <3>3, <3>4 DEF UsedOnce
  <2> QED
    BY <2>5, <2>6, <2>7, <2>8 DEF FactorsInv
<1> QED
  BY <1>3, <1>4

(* A passkey is registered or deleted.                                        *)
LEMMA PasskeySteps ==
  ASSUME FactorsInv, NEW s \in Sessions, finishPasskeyRegistration(s) \/ deletePasskey(s)
  PROVE  FactorsInv' /\ UsedOnce
<1>0. SignInTypeOK
  BY DEF FactorsInv
<1>1. UNCHANGED <<menu, now, link, chal, req, factors, live, by, stamp, park>>
  BY DEF finishPasskeyRegistration, deletePasskey, sessions
<1>2. /\ passkeys' \subseteq Passkeys /\ flagged' \subseteq Passkeys
      /\ counter' \in [Passkeys -> 0..MaxCount] /\ rite' \in [Sessions -> BOOLEAN]
      /\ \A p \in passkeys \intersect passkeys' : counter'[p] = counter[p]
  <2>0. /\ passkeys \subseteq Passkeys /\ flagged \subseteq Passkeys
        /\ counter \in [Passkeys -> 0..MaxCount] /\ rite \in [Sessions -> BOOLEAN]
    BY <1>0 DEF SignInTypeOK
  <2>1. CASE finishPasskeyRegistration(s)
    BY <2>0, <2>1 DEF finishPasskeyRegistration, SavePasskey
  <2>2. CASE deletePasskey(s)
    <3>1. PICK p \in passkeys :
            /\ passkeys' = passkeys \ {p} /\ flagged' = flagged \ {p}
            /\ counter' = [counter EXCEPT ![p] = 0]
      BY <2>2 DEF deletePasskey, DeletePasskey
    <3>2. counter' \in [Passkeys -> 0..MaxCount] /\ \A q \in passkeys \ {p} : counter'[q] = counter[q]
      <4>1. 0 \in 0..MaxCount
        OBVIOUS
      <4> QED
        BY <2>0, <3>1, <4>1
    <3>3. UNCHANGED rite
      BY <2>2 DEF deletePasskey, sessions
    <3> QED
      BY <2>0, <3>1, <3>2, <3>3
  <2> QED
    BY <2>1, <2>2
<1>3. SignInTypeOK'
  BY <1>0, <1>1, <1>2 DEF SignInTypeOK, factors, recovery
<1>4. /\ RequestsKnow' /\ OneReset' /\ CodesAreCurrent' /\ SetsUnderWay' /\ RowsToCome'
      /\ ResetEndsSessions'
  BY <1>1 DEF FactorsInv, RequestsKnow, OneReset, CodesAreCurrent, SetsUnderWay, RowsToCome,
              ResetEndsSessions, factors, recovery
<1>5. UsedOnce
  <2>1. None \notin Passkeys /\ None \notin Rows /\ passkeys \subseteq Passkeys
    BY <1>0, SignInTypes
  <2> QED
    BY <1>1, <1>2, <2>1
    DEF UsedOnce, AcceptedAdvances, RecoveryCodeCurrent, CounterAdvances, factors, recovery
<1> QED
  BY <1>3, <1>4, <1>5 DEF FactorsInv

(* A second authenticator: a row nobody had.                                  *)
LEMMA AddStep ==
  ASSUME FactorsInv, NEW r \in Requests, confirmTOTPCommit(r)
  PROVE  FactorsInv' /\ UsedOnce
<1> DEFINE s == req[r].sess
           n == req[r].step
<1>0. /\ SignInTypeOK /\ s \in Sessions /\ req[r].secret \in Secrets /\ n \in 0..LastStep + Skew
  BY DEF FactorsInv, RequestsKnow, confirmTOTPCommit, Knows, StepsOfCodes
<1>1. PICK t \in Rows :
        /\ totp[t] = None /\ totp' = [totp EXCEPT ![t] = req[r].secret] /\ last' = [last EXCEPT ![t] = n]
  BY DEF confirmTOTPCommit, FreshRows, First, SaveTOTPCredential
<1>2. /\ park' = [park EXCEPT ![s] = None]
      /\ UNCHANGED <<menu, now, link, chal, removed, wiped, recovery, keys, live, by, stamp, rite>>
  BY DEF confirmTOTPCommit, SetPendingTOTP
<1>3. Stops(r)
  BY <1>0, Stopped DEF confirmTOTPCommit
<1> HIDE DEF s, n
<1>4. SignInTypeOK'
  <2>1. totp' \in [Rows -> Secrets \union {None}] /\ last' \in [Rows -> 0..LastStep + Skew]
    BY <1>0, <1>1, SignInTypes
  <2>2. park' \in [Sessions -> Secrets \union {None}]
    BY <1>0, <1>2, SignInTypes
  <2>3. req' \in [Requests -> SignInRow]
    BY <1>3 DEF Stops, Goes
  <2> QED
    BY <1>0, <1>2, <2>1, <2>2, <2>3 DEF SignInTypeOK, ChallengeRow, SignInRow, keys, recovery
<1>5. RequestsKnow' /\ OneReset' /\ SetsUnderWay' /\ CodesAreCurrent'
  BY <1>2, <1>3, EndKeeps
<1>6. RowsToCome' /\ ResetEndsSessions'
  BY <1>0, <1>1, <1>2, SignInTypes DEF FactorsInv, RowsToCome, ResetEndsSessions
<1>7. UsedOnce
  BY <1>0, <1>2, NothingUsed DEF keys, recovery
<1> QED
  BY <1>4, <1>5, <1>6, <1>7 DEF FactorsInv

----------------------------------------------------------------------------
(* Every step of the sign-in keeps the invariant and uses a code, a recovery *)
(* code or a counter once.                                                   *)
LEMMA SignInKept ==
  ASSUME FactorsInv, SignInNext
  PROVE  FactorsInv' /\ UsedOnce
<1>1. ASSUME Tick PROVE FactorsInv' /\ UsedOnce
  <2>1. Calm
    BY <1>1 DEF Tick, Calm, factors, keys, sessions
  <2>2. RestTyped
    BY <1>1, RestKept DEF Tick, RestTyped, factors, keys, sessions, FactorsInv
  <2> QED
    BY <2>1, <2>2, CalmKeeps
<1>2. ASSUME NEW c \in Links, sendLogin(c) \/ email(c) \/ Expire(c) \/ beginPasskeyLogin(c)
      PROVE  FactorsInv' /\ UsedOnce
  BY <1>2, LinkSteps, CalmKeeps
<1>3. ASSUME NEW r \in Requests, NEW c \in Links, twoFactor(r, c)
      PROVE  FactorsInv' /\ UsedOnce
  BY <1>3, PageSteps, CalmKeeps
<1>4. ASSUME NEW r \in Requests, NEW c \in ReadChallengeCookie,
             NEW kind \in {"enroll", "totp", "recovery", "passkey"}, spend(r, c, kind)
      PROVE  FactorsInv' /\ UsedOnce
  BY <1>4, SpendSteps, CalmKeeps DEF ReadChallengeCookie
<1>5. ASSUME NEW r \in Requests, pendingSecret(r) PROVE FactorsInv' /\ UsedOnce
  <2>1. req[r].chal \in Links
    BY <1>5 DEF pendingSecret, FactorsInv, RequestsKnow, Knows, OnChallenge
  <2> QED
    BY <1>5, <2>1, PageSteps, CalmKeeps
<1>6. ASSUME NEW r \in Requests, Refuse(r) \/ Abandon(r) \/ passkeyRefused(r)
      PROVE  FactorsInv' /\ UsedOnce
  BY <1>6, EndSteps, CalmKeeps DEF Refuse, OnChallenge
<1>7. ASSUME NEW r \in Requests, verifyCode(r) \/ RecoveryCodeBySelector(r)
      PROVE  FactorsInv' /\ UsedOnce
  BY <1>7, MatchSteps, CalmKeeps
<1>8. ASSUME NEW r \in Requests,
             \/ confirmEnrollment(r) \/ confirmEnrollmentCommit(r) \/ verifyCodeCommit(r)
             \/ verifyRecovery(r) \/ verifyRecoveryCommit(r) \/ finishPasskeyLoginCommit(r)
             \/ finishStepUpPasskeyCommit(r) \/ confirmTOTPCommit(r)
      PROVE  FactorsInv' /\ UsedOnce
  BY <1>8, BeginEnrolStep, EnrolStep, CodeStep, BurnStep, ResetStep, AdmitStep, ConfirmStep, AddStep
<1>9. ASSUME NEW r \in Requests, NEW s \in Sessions, confirmTOTP(r, s) \/ deleteTOTP(r, s)
      PROVE  FactorsInv' /\ UsedOnce
  BY <1>9, RowSteps, CalmKeeps
<1>10. ASSUME NEW r \in Requests, deleteTOTPCommit(r) PROVE FactorsInv' /\ UsedOnce
  <2>1. 1 \in Sessions
    OBVIOUS
  <2> QED
    BY <1>10, <2>1, RowSteps, CalmKeeps
<1>11. ASSUME NEW s \in Sessions,
              \/ logout(s) \/ proveTOTP(s) \/ beginStepUpPasskey(s) \/ beginPasskeyRegistration(s)
              \/ beginTOTP(s) \/ totpQR(s) \/ cancelTOTP(s)
       PROVE  FactorsInv' /\ UsedOnce
  BY <1>11, PanelSteps, CalmKeeps
<1>12. ASSUME NEW s \in Sessions, finishPasskeyRegistration(s) \/ deletePasskey(s)
       PROVE  FactorsInv' /\ UsedOnce
  BY <1>12, PasskeySteps
<1>13. ASSUME NEW r \in Requests, NEW s \in Sessions, finishStepUpPasskey(r, s)
       PROVE  FactorsInv' /\ UsedOnce
  BY <1>13, AssertSteps, CalmKeeps
<1>14. ASSUME NEW r \in Requests, finishPasskeyLogin(r) PROVE FactorsInv' /\ UsedOnce
  <2>1. 1 \in Sessions
    OBVIOUS
  <2> QED
    BY <1>14, <2>1, AssertSteps, CalmKeeps
<1> QED
  BY <1>1, <1>2, <1>3, <1>4, <1>5, <1>6, <1>7, <1>8, <1>9, <1>10, <1>11, <1>12, <1>13, <1>14
  DEF SignInNext

(* So does a step that changes nothing.                                      *)
LEMMA SignInStutters ==
  ASSUME FactorsInv, UNCHANGED signInVars
  PROVE  FactorsInv'
<1>1. UNCHANGED <<menu, now, link, chal, req, totp, last, removed, wiped, codes, batch, issued,
                  before, redeemed, passkeys, counter, flagged, live, by, stamp, park, rite>>
  BY DEF signInVars, factors, keys, sessions, recovery
<1> QED
  BY <1>1 DEF FactorsInv, SignInTypeOK, RequestsKnow, OneReset, CodesAreCurrent, SetsUnderWay,
              RowsToCome, ResetEndsSessions

(* Whoever races, what lets a person in is used once, while it stands, and    *)
(* what a reset has taken away keeps no session open.                         *)
THEOREM FactorsAreSound == SignInSpec => FactorsHold
<1>1. FactorsInv /\ [SignInNext]_signInVars => FactorsInv'
  BY SignInKept, SignInStutters
<1>2. ASSUME FactorsInv, FactorsInv', [SignInNext]_signInVars
      PROVE  [/\ AcceptedAdvances /\ RecoveryCodeCurrent /\ CounterAdvances
              /\ ResetEndsSessions' /\ SignInTypeOK']_signInVars
  BY <1>2, SignInKept DEF FactorsInv, UsedOnce
<1> QED
  BY <1>1, <1>2, SignInFirst, PTL DEF SignInSpec, FactorsHold

----------------------------------------------------------------------------
(* RateLimiter.                                                              *)

BucketRow == [start : Nat, count : Nat]
AdmissionRow == [at : Nat, nth : Nat]

Since(A, t) == {a \in A : a.at >= t}
Before(A, t) == {a \in A : a.at < t}

(* What a bucket knows of the admissions of one window, at moment t: those    *)
(* since it was opened it counts, those before are of one other bucket, and   *)
(* when it is gone all of them are of one bucket that has rolled over.        *)
Fits(t, b, A) ==
    IF b.count = 0 THEN Cardinality(A) <= Limit /\ \A a \in A : a.at < t
    ELSE /\ Cardinality(Since(A, b.start)) <= Limit
         /\ Cardinality(Since(A, b.start)) <= b.count
         /\ Cardinality(Before(A, b.start)) <= Limit
         /\ \A a \in A : a.at < b.start + Window

(* A history is finite and of the last window.                                *)
Recent(t, A) ==
    IsFiniteSet(A) /\ A \subseteq AdmissionRow /\ \A a \in A : a.at <= t /\ t < a.at + Window

HistoriesFit == \A k \in Callers : Recent(clock, admitted[k]) /\ Fits(clock, buckets[k], admitted[k])

(* What is tracked was opened within a window of the last sweep.              *)
TrackedIsSwept == \A k \in tracked : lastSweep < buckets[k].start + Window

LimiterInv ==
    /\ LimiterTypeOK /\ HistoriesFit /\ TrackedIsSwept /\ RefusedUnderFlood
    /\ IsFiniteSet(tracked) /\ BucketsBounded

HIDE SignInAssumption
USE LimiterAssumption

(* The parts of the type invariant, with the clock no longer the bound of a  *)
(* set.                                                                      *)
LEMMA LimiterTypes ==
  ASSUME LimiterTypeOK
  PROVE  /\ clock \in Nat /\ Window <= clock /\ clock <= LastMoment
         /\ lastSweep \in Nat /\ lastSweep <= clock
         /\ buckets \in [Callers -> BucketRow] /\ \A k \in Callers : buckets[k].start <= clock
         /\ tracked \subseteq Callers
<1>1. clock \in Nat /\ Window <= clock /\ clock <= LastMoment /\ lastSweep \in Nat /\ lastSweep <= clock
  BY DEF LimiterTypeOK
<1>2. buckets \in [Callers -> [start : 0..clock, count : Nat]]
  BY DEF LimiterTypeOK
<1>3. \A b \in [start : 0..clock, count : Nat] : b \in BucketRow /\ b.start <= clock
  BY <1>1 DEF BucketRow
<1> QED
  BY <1>1, <1>2, <1>3 DEF tracked

----------------------------------------------------------------------------
(* One history.                                                              *)

(* At most two buckets have a part in it.                                     *)
LEMMA TwoBudgets ==
  ASSUME NEW t \in Nat, NEW b \in BucketRow, NEW A, Recent(t, A), Fits(t, b, A)
  PROVE  Cardinality(A) <= 2 * Limit
<1>1. IsFiniteSet(A) /\ Cardinality(A) \in Nat
  BY FS_CardinalityType DEF Recent
<1>2. CASE b.count = 0
  BY <1>1, <1>2 DEF Fits
<1>3. CASE b.count # 0
  <2> DEFINE S == Since(A, b.start)
             B == Before(A, b.start)
  <2>1. IsFiniteSet(S) /\ IsFiniteSet(B) /\ IsFiniteSet(S \intersect B)
    BY <1>1, FS_Subset DEF Since, Before
  <2>2. A = S \union B
    BY DEF Since, Before, Recent, AdmissionRow, BucketRow
  <2>3. /\ Cardinality(S) \in Nat /\ Cardinality(B) \in Nat /\ Cardinality(S \intersect B) \in Nat
        /\ Cardinality(S \union B) = Cardinality(S) + Cardinality(B) - Cardinality(S \intersect B)
    BY <2>1, FS_CardinalityType, FS_Union
  <2>4. Cardinality(S) <= Limit /\ Cardinality(B) <= Limit
    BY <1>3 DEF Fits
  <2> HIDE DEF S, B
  <2> QED
    BY <2>2, <2>3, <2>4
<1> QED
  BY <1>2, <1>3

(* A bucket that has rolled over leaves one budget, all of it used before.    *)
LEMMA RolledLeaves ==
  ASSUME NEW t \in Nat, NEW b \in BucketRow, NEW A, Recent(t, A), Fits(t, b, A),
         b.count = 0 \/ t - b.start >= Window
  PROVE  Cardinality(A) <= Limit /\ \A a \in A : a.at < t
<1>1. CASE b.count = 0
  BY <1>1 DEF Fits
<1>2. CASE b.count # 0
  <2>1. b.start \in Nat /\ b.start + Window <= t
    BY <1>2 DEF BucketRow
  <2>2. \A a \in A : a.at \in Nat /\ t < a.at + Window /\ a.at < b.start + Window
    BY <1>2 DEF Recent, AdmissionRow, Fits
  <2>3. Since(A, b.start) = A
    BY <2>1, <2>2 DEF Since
  <2> QED
    BY <1>2, <2>1, <2>2, <2>3 DEF Fits
<1> QED
  BY <1>1, <1>2

(* One more admission, now.                                                  *)
LEMMA OneMore ==
  ASSUME NEW t \in Nat, NEW A, Recent(t, A), NEW x \in AdmissionRow, x.at = t
  PROVE  Recent(t, A \union {x})
<1>1. IsFiniteSet(A \union {x})
  BY FS_AddElement DEF Recent
<1> QED
  BY <1>1 DEF Recent

(* A bucket opened now, for a key whose earlier admissions are one budget at *)
(* most.                                                                     *)
LEMMA Opens ==
  ASSUME NEW t \in Nat, NEW A, Recent(t, A), Cardinality(A) <= Limit, \A a \in A : a.at < t,
         NEW x \in AdmissionRow, x.at = t, NEW b \in BucketRow, b.start = t, b.count = 1
  PROVE  Fits(t, b, A \union {x})
<1>1. Since(A \union {x}, t) = {x} /\ Before(A \union {x}, t) = A
  BY DEF Since, Before, Recent, AdmissionRow
<1>2. Cardinality({x}) = 1
  BY FS_Singleton
<1>3. \A a \in A \union {x} : a.at < t + Window
  BY DEF Recent, AdmissionRow
<1> QED
  BY <1>1, <1>2, <1>3 DEF Fits

(* A bucket inside its window counts; it admits while it is within budget.    *)
LEMMA Counts ==
  ASSUME NEW t \in Nat, NEW A, Recent(t, A), NEW b \in BucketRow, Fits(t, b, A), b.count # 0,
         b.start <= t, t - b.start < Window, NEW c \in BucketRow, c.start = b.start, c.count = b.count + 1,
         NEW x \in AdmissionRow, x.at = t
  PROVE  Fits(t, c, A) /\ (c.count <= Limit => Fits(t, c, A \union {x}))
<1> DEFINE S == Since(A, b.start)
<1>1. IsFiniteSet(S) /\ Cardinality(S) \in Nat /\ b.count \in Nat /\ b.start \in Nat
  <2>1. IsFiniteSet(S)
    BY FS_Subset DEF Since, Recent
  <2> QED
    BY <2>1, FS_CardinalityType DEF BucketRow
<1>2. /\ Cardinality(S) <= Limit /\ Cardinality(S) <= b.count
      /\ Cardinality(Before(A, b.start)) <= Limit /\ \A a \in A : a.at < b.start + Window
  BY DEF Fits
<1>3. Since(A \union {x}, b.start) = S \union {x} /\ Before(A \union {x}, b.start) = Before(A, b.start)
  BY <1>1 DEF Since, Before
<1> HIDE DEF S
<1>4. Cardinality(S \union {x}) <= Cardinality(S) + 1 /\ Cardinality(S \union {x}) \in Nat
  <2>1. Cardinality(S \union {x}) = IF x \in S THEN Cardinality(S) ELSE Cardinality(S) + 1
    BY <1>1, FS_AddElement
  <2> QED
    BY <1>1, <2>1
<1>5. Fits(t, c, A)
  BY <1>1, <1>2 DEF Fits, S
<1>6. ASSUME c.count <= Limit PROVE Fits(t, c, A \union {x})
  <2>1. Cardinality(S \union {x}) <= c.count /\ Cardinality(S \union {x}) <= Limit
    BY <1>1, <1>2, <1>4, <1>6
  <2>2. \A a \in A \union {x} : a.at < c.start + Window
    BY <1>1, <1>2
  <2>3. c.count # 0 /\ b.count \in Nat
    BY <1>1
  <2>4. /\ Since(A \union {x}, c.start) = S \union {x}
        /\ Before(A \union {x}, c.start) = Before(A, b.start)
    BY <1>3
  <2>5. Cardinality(Before(A \union {x}, c.start)) <= Limit
    BY <1>2, <2>4
  <2>6. /\ Cardinality(Since(A \union {x}, c.start)) <= Limit
        /\ Cardinality(Since(A \union {x}, c.start)) <= c.count
    BY <2>1, <2>4
  <2> QED
    BY <2>2, <2>3, <2>5, <2>6 DEF Fits
<1> QED
  BY <1>5, <1>6

(* As time passes a history forgets.                                          *)
LEMMA Forgets ==
  ASSUME NEW t \in Nat, NEW A, Recent(t, A), NEW b \in BucketRow, Fits(t, b, A),
         NEW B \in SUBSET A, \A a \in B : t + 1 - a.at < Window
  PROVE  Recent(t + 1, B) /\ Fits(t + 1, b, B)
<1>1. IsFiniteSet(A) /\ IsFiniteSet(B) /\ Cardinality(A) \in Nat /\ Cardinality(B) <= Cardinality(A)
      /\ Cardinality(B) \in Nat
  BY FS_Subset, FS_CardinalityType DEF Recent
<1>2. Recent(t + 1, B)
  BY <1>1 DEF Recent, AdmissionRow
<1>3. \A n : /\ Cardinality(Since(B, n)) \in Nat /\ Cardinality(Since(A, n)) \in Nat
             /\ Cardinality(Since(B, n)) <= Cardinality(Since(A, n))
             /\ Cardinality(Before(B, n)) \in Nat /\ Cardinality(Before(A, n)) \in Nat
             /\ Cardinality(Before(B, n)) <= Cardinality(Before(A, n))
  <2> TAKE n
  <2>1. Since(B, n) \subseteq Since(A, n) /\ Before(B, n) \subseteq Before(A, n)
        /\ Since(A, n) \subseteq A /\ Before(A, n) \subseteq A
    BY DEF Since, Before
  <2>2. IsFiniteSet(Since(A, n)) /\ IsFiniteSet(Before(A, n))
    BY <1>1, <2>1, FS_Subset
  <2>3. IsFiniteSet(Since(B, n)) /\ IsFiniteSet(Before(B, n))
    BY <2>1, <2>2, FS_Subset
  <2> QED
    BY <2>1, <2>2, <2>3, FS_Subset, FS_CardinalityType
<1>4. \A a \in B : a.at \in Nat
  BY DEF Recent, AdmissionRow
<1>5. CASE b.count = 0
  <2>1. Cardinality(A) <= Limit /\ \A a \in A : a.at < t
    BY <1>5 DEF Fits
  <2>2. Cardinality(B) <= Limit
    BY <1>1, <2>1
  <2>3. \A a \in B : a.at < t + 1
    BY <1>4, <2>1
  <2> QED
    BY <1>2, <1>5, <2>2, <2>3 DEF Fits
<1>6. CASE b.count # 0
  <2> DEFINE n == b.start
  <2>1. /\ Cardinality(Since(A, n)) <= Limit /\ Cardinality(Since(A, n)) <= b.count
        /\ Cardinality(Before(A, n)) <= Limit /\ \A a \in A : a.at < b.start + Window
    BY <1>6 DEF Fits
  <2>2. b.count \in Nat
    BY DEF BucketRow
  <2>3. /\ Cardinality(Since(B, n)) <= Limit /\ Cardinality(Since(B, n)) <= b.count
        /\ Cardinality(Before(B, n)) <= Limit
    <3>1. /\ Cardinality(Since(B, n)) \in Nat /\ Cardinality(Since(A, n)) \in Nat
          /\ Cardinality(Since(B, n)) <= Cardinality(Since(A, n))
          /\ Cardinality(Before(B, n)) \in Nat /\ Cardinality(Before(A, n)) \in Nat
          /\ Cardinality(Before(B, n)) <= Cardinality(Before(A, n))
      BY <1>3
    <3> QED
      BY <2>1, <2>2, <3>1
  <2> QED
    BY <1>2, <1>6, <2>1, <2>3 DEF Fits
<1> QED
  BY <1>2, <1>5, <1>6

----------------------------------------------------------------------------
(* The steps.                                                                *)

(* The invariant holds of an empty map: nobody was admitted.                 *)
LEMMA LimiterFirst ==
  ASSUME LimiterInit
  PROVE  LimiterInv
<1>1. /\ clock = Window /\ lastSweep = 0 /\ refused = Nothing
      /\ \A k \in Callers : buckets[k] = Untracked /\ admitted[k] = {}
  BY DEF LimiterInit
<1>2. tracked = {}
  BY <1>1 DEF tracked, Untracked
<1>3. IsFiniteSet({}) /\ Cardinality({}) = 0
  BY FS_EmptySet
<1>4. LimiterTypeOK
  <2>1. Untracked \in [start : 0..clock, count : Nat]
    BY <1>1 DEF Untracked
  <2>2. refused \in [key : SUBSET Callers, starts : SUBSET (0..clock)]
    BY <1>1 DEF Nothing
  <2> QED
    BY <1>1, <2>1, <2>2 DEF LimiterInit, LimiterTypeOK
<1>5. HistoriesFit
  BY <1>1, <1>3 DEF HistoriesFit, Recent, Fits, Untracked
<1> QED
  BY <1>1, <1>2, <1>3, <1>4, <1>5 DEF LimiterInv, TrackedIsSwept, RefusedUnderFlood, BucketsBounded, Nothing

(* Time passes: what is forgotten was admitted a window ago, and no bucket   *)
(* changes.                                                                  *)
LEMMA ElapseStep ==
  ASSUME LimiterInv, Elapse
  PROVE  LimiterInv'
<1>1. /\ clock < LastMoment /\ clock' = clock + 1 /\ refused' = Nothing
      /\ \A k \in Callers : admitted'[k] = {a \in admitted[k] : clock + 1 - a.at < Window}
      /\ UNCHANGED <<buckets, lastSweep>>
  BY DEF Elapse
<1>2. LimiterTypeOK
  BY DEF LimiterInv
<1>3. HistoriesFit'
  <2> SUFFICES ASSUME NEW k \in Callers
               PROVE  Recent(clock + 1, admitted'[k]) /\ Fits(clock + 1, buckets[k], admitted'[k])
    BY <1>1 DEF HistoriesFit
  <2>1. admitted'[k] \in SUBSET admitted[k] /\ \A a \in admitted'[k] : clock + 1 - a.at < Window
    BY <1>1
  <2>2. Recent(clock, admitted[k]) /\ Fits(clock, buckets[k], admitted[k])
    BY DEF LimiterInv, HistoriesFit
  <2> QED
    BY <1>2, <2>1, <2>2, LimiterTypes, Forgets
<1>4. LimiterTypeOK'
  <2>1. clock \in Nat /\ clock' \in Window..LastMoment /\ lastSweep' \in 0..clock'
    BY <1>1, <1>2, LimiterTypes
  <2>2. buckets' \in [Callers -> [start : 0..clock', count : Nat]]
    <3>1. buckets \in [Callers -> [start : 0..clock, count : Nat]]
      BY <1>2 DEF LimiterTypeOK
    <3>2. \A b \in [start : 0..clock, count : Nat] : b \in [start : 0..clock', count : Nat]
      BY <1>1, <2>1
    <3> QED
      BY <1>1, <3>1, <3>2
  <2>3. refused' \in [key : SUBSET Callers, starts : SUBSET (0..clock')]
    BY <1>1 DEF Nothing
  <2>4. admitted' \in [Callers -> SUBSET [at : Window..clock', nth : Nat \ {0}]]
    <3>1. admitted \in [Callers -> SUBSET [at : Window..clock, nth : Nat \ {0}]]
      BY <1>2 DEF LimiterTypeOK
    <3>2. \A a \in [at : Window..clock, nth : Nat \ {0}] : a \in [at : Window..clock', nth : Nat \ {0}]
      BY <1>1, <2>1
    <3>3. \A k \in Callers : admitted'[k] \in SUBSET [at : Window..clock', nth : Nat \ {0}]
      BY <1>1, <3>1, <3>2
    <3>4. admitted' = [k \in Callers |-> admitted'[k]]
      BY DEF Elapse
    <3> QED
      BY <3>3, <3>4
  <2> QED
    BY <2>1, <2>2, <2>3, <2>4 DEF LimiterTypeOK
<1>5. tracked' = tracked
  BY <1>1 DEF tracked
<1>6. TrackedIsSwept' /\ RefusedUnderFlood'
  BY <1>1, <1>5 DEF LimiterInv, TrackedIsSwept, RefusedUnderFlood, Nothing
<1> QED
  BY <1>3, <1>4, <1>5, <1>6 DEF LimiterInv, BucketsBounded

(* What the map is after the sweep, if one was due.                           *)
Map == IF SweepDue THEN Swept ELSE buckets
Held == {j \in Callers : Map[j].count > 0}

(* What a call finds, swept if that is due: buckets of the last window as    *)
(* they were, the others as they were or gone, and each still fits the       *)
(* history of its key.                                                       *)
LEMMA AfterSweep ==
  ASSUME LimiterInv
  PROVE  /\ Map \in [Callers -> BucketRow] /\ \A j \in Callers : Map[j].start <= clock
         /\ \A j \in Callers :
              \/ Map[j] = buckets[j] /\ (SweepDue => ~Rolled(buckets[j]))
              \/ Map[j] = Untracked /\ Rolled(buckets[j])
         /\ \A j \in Callers : Fits(clock, Map[j], admitted[j])
         /\ Held \subseteq tracked /\ IsFiniteSet(Held) /\ Cardinality(Held) \in Nat
         /\ Cardinality(Held) <= MaxBuckets
<1>0. /\ clock \in Nat /\ buckets \in [Callers -> BucketRow]
      /\ \A j \in Callers : buckets[j].start <= clock
  BY LimiterTypes DEF LimiterInv
<1>1. Untracked \in BucketRow /\ Untracked.count = 0 /\ Untracked.start = 0
  BY DEF Untracked, BucketRow
<1>2. ASSUME NEW j \in Callers
      PROVE  \/ Map[j] = buckets[j] /\ (SweepDue => ~Rolled(buckets[j]))
             \/ Map[j] = Untracked /\ Rolled(buckets[j])
  BY DEF Map, Swept
<1>3. Map \in [Callers -> BucketRow] /\ \A j \in Callers : Map[j].start <= clock
  BY <1>0, <1>1 DEF Map, Swept
<1>4. ASSUME NEW j \in Callers PROVE Fits(clock, Map[j], admitted[j])
  <2>1. Recent(clock, admitted[j]) /\ Fits(clock, buckets[j], admitted[j])
    BY DEF LimiterInv, HistoriesFit
  <2>2. CASE Map[j] = buckets[j]
    BY <2>1, <2>2
  <2>3. CASE Map[j] = Untracked /\ Rolled(buckets[j])
    <3>1. Cardinality(admitted[j]) <= Limit /\ \A a \in admitted[j] : a.at < clock
      BY <1>0, <2>1, <2>3, RolledLeaves DEF Rolled
    <3> QED
      BY <1>1, <2>3, <3>1 DEF Fits
  <2> QED
    BY <1>2, <2>2, <2>3
<1>5. Held \subseteq tracked
  BY <1>1, <1>2 DEF Held, tracked
<1>6. IsFiniteSet(Held) /\ Cardinality(Held) \in Nat /\ Cardinality(Held) <= MaxBuckets
  <2>1. IsFiniteSet(tracked) /\ Cardinality(tracked) <= MaxBuckets
    BY DEF LimiterInv, BucketsBounded
  <2> QED
    BY <1>5, <2>1, FS_Subset, FS_CardinalityType
<1> QED
  BY <1>2, <1>3, <1>4, <1>5, <1>6

(* The bucket of a call that is not refused.                                  *)
Bucket(k) == IF Rolled(Map[k]) \/ k \notin Held THEN Opened ELSE [Map[k] EXCEPT !.count = @ + 1]

(* A call without its LET.                                                    *)
LEMMA Allows ==
  ASSUME NEW k \in Callers, Allow(k)
  PROVE  /\ UNCHANGED clock /\ lastSweep' = (IF SweepDue THEN clock ELSE lastSweep)
         /\ Refuses(k, Held) =>
              /\ buckets' = Map /\ UNCHANGED admitted
              /\ refused' = [key |-> {k}, starts |-> {Map[j].start : j \in Held}]
         /\ ~Refuses(k, Held) =>
              /\ buckets' = [Map EXCEPT ![k] = Bucket(k)] /\ refused' = Nothing
              /\ admitted' = IF Bucket(k).count <= Limit
                             THEN [admitted EXCEPT ![k] = @ \union {Admission(k)}] ELSE admitted
  BY DEF Allow, Map, Held, Bucket

(* The bucket a call writes is a new one, where there was none in its        *)
(* window, or counts one more.                                               *)
LEMMA BucketIs ==
  ASSUME LimiterInv, NEW k \in Callers
  PROVE  /\ Bucket(k) \in BucketRow /\ Bucket(k).start <= clock /\ Bucket(k).count > 0
         /\ \/ Bucket(k).start = clock /\ Bucket(k).count = 1 /\ (Rolled(Map[k]) \/ Map[k].count = 0)
            \/ /\ Bucket(k).start = Map[k].start /\ Bucket(k).count = Map[k].count + 1
               /\ ~Rolled(Map[k]) /\ Map[k].count > 0
<1>0. clock \in Nat /\ Map[k] \in BucketRow /\ Map[k].start <= clock
  BY AfterSweep, LimiterTypes DEF LimiterInv
<1>1. CASE Rolled(Map[k]) \/ k \notin Held
  <2>1. Bucket(k) = Opened /\ (Rolled(Map[k]) \/ Map[k].count = 0)
    BY <1>0, <1>1 DEF Bucket, Held, BucketRow
  <2> QED
    BY <1>0, <2>1 DEF Opened, BucketRow
<1>2. CASE ~(Rolled(Map[k]) \/ k \notin Held)
  <2>1. Bucket(k) = [Map[k] EXCEPT !.count = @ + 1] /\ ~Rolled(Map[k]) /\ Map[k].count > 0
    BY <1>2 DEF Bucket, Held
  <2> QED
    BY <1>0, <2>1 DEF BucketRow
<1> QED
  BY <1>1, <1>2

(* An admission is of this moment, with a number of its own.                 *)
LEMMA AdmissionIs ==
  ASSUME LimiterInv, NEW k \in Callers
  PROVE  /\ Admission(k) \in AdmissionRow /\ Admission(k).at = clock
         /\ Admission(k) \in [at : Window..clock, nth : Nat \ {0}]
<1>1. Cardinality({a \in admitted[k] : a.at = clock}) \in Nat
  <2>1. IsFiniteSet(admitted[k])
    BY DEF LimiterInv, HistoriesFit, Recent
  <2>2. IsFiniteSet({a \in admitted[k] : a.at = clock})
    BY <2>1, FS_Subset
  <2> QED
    BY <2>2, FS_CardinalityType
<1>2. clock \in Nat /\ Window <= clock
  BY LimiterTypes DEF LimiterInv
<1> QED
  BY <1>1, <1>2 DEF Admission, AdmissionRow

(* A call leaves every key's history in its two budgets.                     *)
LEMMA AllowHistories ==
  ASSUME LimiterInv, NEW k \in Callers, Allow(k)
  PROVE  HistoriesFit'
<1>0. clock \in Nat /\ clock' = clock
  BY LimiterTypes, Allows DEF LimiterInv
<1>1. \A j \in Callers : /\ Recent(clock, admitted[j]) /\ Fits(clock, Map[j], admitted[j])
                         /\ Map[j] \in BucketRow /\ Map[j].start <= clock
  BY AfterSweep DEF LimiterInv, HistoriesFit
<1>2. CASE Refuses(k, Held)
  BY <1>0, <1>1, <1>2, Allows DEF HistoriesFit
<1>3. CASE ~Refuses(k, Held)
  <2> DEFINE A == admitted[k]
             x == Admission(k)
             b == Bucket(k)
  <2>1. /\ \A j \in Callers \ {k} : buckets'[j] = Map[j] /\ admitted'[j] = admitted[j]
        /\ buckets'[k] = b /\ admitted'[k] = IF b.count <= Limit THEN A \union {x} ELSE A
    <3>1. Map \in [Callers -> BucketRow] /\ admitted \in [Callers -> SUBSET [at : Window..clock, nth : Nat \ {0}]]
      BY AfterSweep DEF LimiterInv, LimiterTypeOK
    <3> QED
      BY <1>3, <3>1, Allows
  <2>2. x \in AdmissionRow /\ x.at = clock /\ b \in BucketRow /\ Recent(clock, A)
    BY <1>1, AdmissionIs, BucketIs
  <2>3. Recent(clock, A \union {x})
    BY <1>0, <2>2, OneMore
  <2>4. Recent(clock, admitted'[k])
    BY <2>1, <2>2, <2>3
  <2>5. Fits(clock, b, admitted'[k])
    <3>1. CASE b.start = clock /\ b.count = 1 /\ (Rolled(Map[k]) \/ Map[k].count = 0)
      <4>1. Cardinality(A) <= Limit /\ \A a \in A : a.at < clock
        BY <1>0, <1>1, <3>1, RolledLeaves DEF Rolled
      <4>2. Fits(clock, b, A \union {x})
        BY <1>0, <2>2, <3>1, <4>1, Opens
      <4> QED
        BY <2>1, <3>1, <4>2
    <3>2. CASE /\ b.start = Map[k].start /\ b.count = Map[k].count + 1
               /\ ~Rolled(Map[k]) /\ Map[k].count > 0
      <4>1. clock - Map[k].start < Window /\ Map[k].count # 0
        BY <1>0, <1>1, <3>2 DEF Rolled, BucketRow
      <4>2. Fits(clock, b, A) /\ (b.count <= Limit => Fits(clock, b, A \union {x}))
        BY <1>0, <1>1, <2>2, <3>2, <4>1, Counts
      <4> QED
        BY <2>1, <4>2
    <3> QED
      BY <3>1, <3>2, BucketIs
  <2> HIDE DEF A, x, b
  <2> QED
    BY <1>0, <1>1, <2>1, <2>4, <2>5 DEF HistoriesFit
<1> QED
  BY <1>2, <1>3

(* A call keeps the invariant: the map has room for what it adds, and who is *)
(* turned away was not tracked within its window.                            *)
LEMMA AllowStep ==
  ASSUME LimiterInv, NEW k \in Callers, Allow(k)
  PROVE  LimiterInv' /\ TrackedKeepBudget
<1>0. /\ clock \in Nat /\ clock' = clock /\ Window <= clock /\ clock <= LastMoment
      /\ lastSweep \in Nat /\ lastSweep <= clock
      /\ lastSweep' = (IF SweepDue THEN clock ELSE lastSweep)
  BY LimiterTypes, Allows DEF LimiterInv
<1>1. Map \in [Callers -> BucketRow] /\ \A j \in Callers : Map[j].start <= clock
  BY AfterSweep
<1>2. Bucket(k) \in BucketRow /\ Bucket(k).start <= clock /\ Bucket(k).count > 0
  BY BucketIs
<1>3. buckets' \in [Callers -> BucketRow] /\ \A j \in Callers : buckets'[j].start <= clock
  BY <1>1, <1>2, Allows
<1>4. LimiterTypeOK'
  <2>1. clock' \in Window..LastMoment /\ lastSweep' \in 0..clock'
    BY <1>0
  <2>2. buckets' \in [Callers -> [start : 0..clock', count : Nat]]
    <3>1. \A b \in BucketRow : b.start <= clock => b \in [start : 0..clock', count : Nat]
      BY <1>0 DEF BucketRow
    <3> QED
      BY <1>3, <3>1
  <2>3. refused' \in [key : SUBSET Callers, starts : SUBSET (0..clock')]
    <3>1. \A j \in Held : Map[j].start \in 0..clock
      BY <1>0, <1>1 DEF Held, BucketRow
    <3>2. {Map[j].start : j \in Held} \subseteq 0..clock'
      BY <1>0, <3>1
    <3> QED
      BY <3>2, Allows DEF Nothing
  <2>4. admitted' \in [Callers -> SUBSET [at : Window..clock', nth : Nat \ {0}]]
    <3>1. admitted \in [Callers -> SUBSET [at : Window..clock, nth : Nat \ {0}]]
      BY DEF LimiterInv, LimiterTypeOK
    <3>2. Admission(k) \in [at : Window..clock, nth : Nat \ {0}]
      BY AdmissionIs
    <3>3. UNCHANGED admitted \/ admitted' = [admitted EXCEPT ![k] = @ \union {Admission(k)}]
      BY Allows
    <3> QED
      BY <1>0, <3>1, <3>2, <3>3
  <2> QED
    BY <2>1, <2>2, <2>3, <2>4 DEF LimiterTypeOK
<1>5. \/ Refuses(k, Held) /\ tracked' = Held
      \/ ~Refuses(k, Held) /\ tracked' = Held \union {k}
  BY <1>1, <1>2, Allows DEF tracked, Held
<1>6. IsFiniteSet(tracked') /\ Cardinality(tracked') <= MaxBuckets
  <2>1. IsFiniteSet(Held) /\ Cardinality(Held) \in Nat /\ Cardinality(Held) <= MaxBuckets
    BY AfterSweep
  <2>2. CASE Refuses(k, Held) /\ tracked' = Held
    BY <2>1, <2>2
  <2>3. CASE ~Refuses(k, Held) /\ tracked' = Held \union {k}
    <3>1. IsFiniteSet(Held \union {k})
          /\ Cardinality(Held \union {k}) = IF k \in Held THEN Cardinality(Held) ELSE Cardinality(Held) + 1
      BY <2>1, FS_AddElement
    <3>2. k \in Held \/ Cardinality(Held) < MaxBuckets
      BY <2>1, <2>3 DEF Refuses
    <3> QED
      BY <2>1, <2>3, <3>1, <3>2
  <2> QED
    BY <1>5, <2>2, <2>3
<1>7. \A j \in Held : lastSweep' < Map[j].start + Window /\ (SweepDue => clock < Map[j].start + Window)
  <2> SUFFICES ASSUME NEW j \in Held
               PROVE  lastSweep' < Map[j].start + Window /\ (SweepDue => clock < Map[j].start + Window)
    OBVIOUS
  <2>1. j \in Callers /\ j \in tracked /\ Map[j].count > 0 /\ Map[j].start \in Nat
    BY <1>1, AfterSweep DEF Held, BucketRow
  <2>2. Map[j] = buckets[j] /\ (SweepDue => ~Rolled(buckets[j]))
    BY <2>1, AfterSweep DEF Untracked
  <2>3. lastSweep < buckets[j].start + Window
    BY <2>1 DEF LimiterInv, TrackedIsSwept
  <2>4. SweepDue => clock < Map[j].start + Window
    BY <1>0, <2>1, <2>2 DEF Rolled
  <2> QED
    BY <1>0, <2>2, <2>3, <2>4
<1>8. TrackedIsSwept'
  <2> SUFFICES ASSUME NEW j \in tracked' PROVE lastSweep' < buckets'[j].start + Window
    BY DEF TrackedIsSwept
  <2>1. CASE j = k /\ ~Refuses(k, Held)
    <3>1. buckets'[k] = Bucket(k)
      BY <1>1, <2>1, Allows
    <3>2. CASE Bucket(k).start = clock
      BY <1>0, <2>1, <3>1, <3>2
    <3>3. CASE Bucket(k).start = Map[k].start /\ Map[k].count > 0
      BY <1>7, <2>1, <3>1, <3>3 DEF Held
    <3> QED
      BY <3>2, <3>3, BucketIs
  <2>2. CASE ~(j = k /\ ~Refuses(k, Held))
    <3>1. j \in Held /\ buckets'[j] = Map[j]
      BY <1>1, <1>5, <2>2, Allows DEF Held
    <3> QED
      BY <1>7, <3>1
  <2> QED
    BY <2>1, <2>2
<1>9. RefusedUnderFlood'
  <2>1. CASE ~Refuses(k, Held)
    BY <2>1, Allows DEF RefusedUnderFlood, Nothing
  <2>2. CASE Refuses(k, Held)
    <3> SUFFICES ASSUME NEW j \in Held PROVE clock - Map[j].start < Window + SweepInterval
      BY <1>0, <2>2, Allows DEF RefusedUnderFlood
    <3>1. Map[j].start \in Nat /\ Map[j].start <= clock
      BY <1>1 DEF Held, BucketRow
    <3>2. CASE SweepDue
      BY <1>0, <1>7, <3>1, <3>2
    <3>3. CASE ~SweepDue
      <4>1. Held = tracked
        BY <3>3 DEF Held, tracked, Map
      <4>2. Full
        BY <2>2, <4>1 DEF Refuses, Full
      <4>3. clock - lastSweep < SweepInterval
        BY <1>0, <3>3, <4>2 DEF SweepDue
      <4> QED
        BY <1>0, <1>7, <3>1, <3>3, <4>3
    <3> QED
      BY <3>2, <3>3
  <2> QED
    BY <2>1, <2>2
<1>10. TrackedKeepBudget
  <2> SUFFICES ASSUME NEW j \in tracked, j \in refused'.key PROVE Rolled(buckets[j])
    BY DEF TrackedKeepBudget
  <2>1. Refuses(k, Held) /\ j = k
    BY Allows DEF Nothing
  <2>2. j \in Callers /\ ~(Map[j].count > 0) /\ buckets[j].count > 0
    BY <2>1 DEF Refuses, Held, tracked
  <2> QED
    BY <2>2, AfterSweep
<1> QED
  BY <1>4, <1>6, <1>8, <1>9, <1>10, AllowHistories DEF LimiterInv, BucketsBounded

(* So does a step that changes nothing.                                      *)
LEMMA LimiterStutters ==
  ASSUME LimiterInv, UNCHANGED limiterVars
  PROVE  LimiterInv'
<1>1. tracked' = tracked /\ UNCHANGED <<clock, buckets, lastSweep, admitted, refused>>
  BY DEF limiterVars, tracked
<1> QED
  BY <1>1 DEF LimiterInv, LimiterTypeOK, HistoriesFit, TrackedIsSwept, RefusedUnderFlood, BucketsBounded

(* However many callers flood the map, no caller that it knows is turned away *)
(* in its window, none gains a budget, and the map stays within its cap.      *)
THEOREM BudgetsHold == LimiterSpec => BudgetsHoldUnderFlood
<1>1. ASSUME LimiterInv, LimiterNext PROVE LimiterInv' /\ TrackedKeepBudget
  <2>1. ASSUME Elapse PROVE TrackedKeepBudget
    BY <2>1 DEF Elapse, TrackedKeepBudget, Nothing
  <2> QED
    BY <1>1, <2>1, ElapseStep, AllowStep DEF LimiterNext
<1>2. LimiterInv /\ [LimiterNext]_limiterVars => LimiterInv'
  BY <1>1, LimiterStutters
<1>3. ASSUME LimiterInv PROVE BudgetHolds
  BY <1>3, LimiterTypes, TwoBudgets DEF LimiterInv, HistoriesFit, BudgetHolds
<1>4. LimiterInv' => BudgetHolds'
  BY <1>3, PTL
<1>5. ASSUME LimiterInv, LimiterInv', [LimiterNext]_limiterVars
      PROVE  [/\ TrackedKeepBudget /\ BudgetHolds' /\ BucketsBounded' /\ RefusedUnderFlood'
              /\ LimiterTypeOK']_limiterVars
  BY <1>1, <1>4, <1>5 DEF LimiterInv
<1> QED
  BY <1>2, <1>5, LimiterFirst, PTL DEF LimiterSpec, BudgetsHoldUnderFlood

=============================================================================

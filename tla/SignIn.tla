-------------------------------- MODULE SignIn --------------------------------
(* How one person gets in and what they hold: the emailed link, the login     *)
(* challenge between the two factors, authenticators, passkeys and recovery   *)
(* codes, sessions, and the security panel that changes the factors.  The     *)
(* rows are committed ones; a request that spans transactions, or statements  *)
(* that another transaction can come between, has a step for each.            *)
EXTENDS Naturals, FiniteSets

CONSTANTS
    Requests, Links, Passkeys,
    Rows, Secrets, Sessions,    \* numbered, in the order they are created
    Menus,          \* the sets of operations a behaviour may be about
    MaxAttempts,    \* maxChallengeAttempts
    Skew, Grace,    \* totpSkew and StepUpGrace, in time steps of a code
    LastStep,       \* bound: the time steps explored
    MaxBatch,       \* bound: sets of recovery codes issued
    MaxCount,       \* bound: signature counter of a passkey
    None

ASSUME SignInAssumption ==
    /\ MaxAttempts \in Nat \ {0} /\ Skew \in Nat /\ Grace \in Nat \ {0}
    /\ LastStep \in Nat \ {0} /\ MaxBatch \in Nat \ {0} /\ MaxCount \in Nat \ {0}
    /\ None \notin Rows \union Secrets \union Passkeys \union Sessions \union Links
    /\ Rows \union Secrets \union Sessions \subseteq Nat \ {0}
    /\ {1, 2} \subseteq Rows \intersect Secrets \intersect Sessions
    /\ Rows \intersect Passkeys = {}

VARIABLES
    menu,           \* what the requests of this behaviour do
    now,            \* the time step a code generated now belongs to
    link,           \* magic_link rows, by the challenge they lead to
    chal,           \* login_challenge rows
    req,            \* requests between two of their steps
    totp, last,     \* user_totp_credential: secret and last_step
    removed,        \* rows deleted from the panel
    wiped,          \* rows deleted by a recovery code
    codes,          \* user_recovery_code rows with no used_at, one for each set
    batch,          \* sets of recovery codes generated so far
    issued,         \* sets whose enrolment has committed
    before,         \* sets issued when the DELETE of a set's enrolment began
    redeemed,       \* times each code was redeemed
    passkeys, counter, flagged,     \* user_webauthn_credential
    live,           \* session rows
    by,             \* the factor that opened a session
    stamp,          \* session.stepped_up_at, 0 for NULL
    park, rite      \* pending_totp_secret, webauthn_session of a session

recovery == <<codes, batch, issued, before, redeemed>>
factors == <<totp, last, removed, wiped, recovery>>
keys == <<passkeys, counter, flagged>>
sessions == <<live, by, stamp, park, rite>>
signInVars == <<menu, now, link, chal, req, factors, keys, sessions>>

Idle == [at |-> "idle", chal |-> None, sess |-> None, secret |-> None,
         cred |-> None, step |-> 0, tries |-> 0, seen |-> {}]

Enrolled == {t \in Rows : totp[t] # None} \ (removed \union wiped)
Minted == {totp[t] : t \in Rows} \union {chal[c].pending : c \in Links}
          \union {park[s] : s \in Sessions} \union {req[r].secret : r \in Requests}

(* Types; the attempts of a challenge stay within maxChallengeAttempts.    *)
SignInTypeOK ==
    /\ menu \in Menus /\ now \in 1..LastStep
    /\ link \in [Links -> {"none", "sent", "lapsed", "spent"}]
    /\ chal \in [Links -> [row : BOOLEAN, fresh : BOOLEAN, rite : BOOLEAN,
                           stage : {"verify", "enroll"}, attempts : 0..MaxAttempts,
                           pending : Secrets \union {None}]]
    /\ req \in [Requests ->
                  [at : {"idle", "mint", "enroll", "totp", "advance", "recovery",
                         "replace", "redeem", "reset", "passkey", "assert", "confirm",
                         "add", "remove"},
                   chal : Links \union {None}, sess : Sessions \union {None},
                   secret : Secrets \union {None},
                   cred : Rows \union Passkeys \union (1..MaxBatch) \union {None},
                   step : 0..LastStep + Skew + MaxCount, tries : 0..MaxAttempts,
                   seen : SUBSET (Rows \union (1..MaxBatch))]]
    /\ totp \in [Rows -> Secrets \union {None}] /\ last \in [Rows -> 0..LastStep + Skew]
    /\ removed \subseteq Rows /\ wiped \subseteq Rows
    /\ codes \subseteq issued /\ issued \subseteq 1..batch /\ batch \in 0..MaxBatch
    /\ before \in [1..MaxBatch -> SUBSET (1..MaxBatch)]
    /\ redeemed \in [1..MaxBatch -> 0..2]
    /\ passkeys \subseteq Passkeys /\ flagged \subseteq Passkeys
    /\ counter \in [Passkeys -> 0..MaxCount]
    /\ live \subseteq Sessions /\ by \in [Sessions -> Rows \union Passkeys \union {None}]
    /\ stamp \in [Sessions -> 0..LastStep]
    /\ park \in [Sessions -> Secrets \union {None}] /\ rite \in [Sessions -> BOOLEAN]

(* The account starts with no factor, or with authenticators, a passkey and   *)
(* the recovery codes of its first enrolment; behaviours about the panel      *)
(* start signed in, and those about nothing else in two browsers.             *)
PanelKinds == {"adding", "removing", "keys"}
SignsIn == ~(menu \subseteq PanelKinds)
OwnedAtFirst(m) == IF "removing" \in m THEN {2} ELSE
                   IF m \intersect PanelKinds = {} THEN {0, 1} ELSE {1}
OpenAtFirst(m) == IF m = {"removing"} THEN 2 ELSE
                  IF m \intersect PanelKinds = {} THEN 0 ELSE 1

SignInInit ==
    /\ menu \in Menus /\ now = 1
    /\ \E c \in Links : link = [d \in Links |-> IF d = c \/ menu \intersect PanelKinds = {}
                                              THEN "none" ELSE "lapsed"]
    /\ chal = [c \in Links |-> [row |-> FALSE, fresh |-> TRUE, rite |-> FALSE,
                                stage |-> "enroll", attempts |-> 0, pending |-> None]]
    /\ req = [r \in Requests |-> Idle]
    /\ last = [t \in Rows |-> 0] /\ removed = {} /\ wiped = {}
    /\ redeemed = [k \in 1..MaxBatch |-> 0] /\ before = [k \in 1..MaxBatch |-> {}]
    /\ \E owned \in OwnedAtFirst(menu) :
         /\ totp = [t \in Rows |-> IF t <= owned THEN t ELSE None]
         /\ batch = (IF owned = 0 THEN 0 ELSE 1) /\ codes = 1..batch /\ issued = 1..batch
         /\ passkeys = (IF menu \intersect {"passkey", "keys"} # {} /\ owned # 0
                        THEN Passkeys ELSE {})
    /\ live = 1..OpenAtFirst(menu) /\ by = [s \in Sessions |-> IF s \in live THEN 1 ELSE None]
    /\ counter = [p \in Passkeys |-> 0] /\ flagged = {}
    /\ stamp = [s \in Sessions |-> 0] /\ rite = [s \in Sessions |-> FALSE]
    /\ park = [s \in Sessions |-> None]

----------------------------------------------------------------------------
(* The rows.                                                                 *)

First(S) == {i \in S : \A j \in S : i <= j}
newTOTPKey == First(Secrets \ Minted)
FreshRows == First({t \in Rows : totp[t] = None})
FreshSessions == First({s \in Sessions : by[s] = None /\ ~\E r \in Requests : req[r].sess = s})

(* Row locks held from one step to the next: a redemption holds its code, a   *)
(* removal its authenticator.                                                 *)
Redeeming(k) == \E r \in Requests : req[r].at = "reset" /\ req[r].cred = k
Removing(t) == \E r \in Requests : req[r].at = "remove" /\ req[r].cred = t

(* A link is redeemed by one UPDATE while it is unused and has not expired.   *)
UserByMagicToken(c) == link[c] = "sent"

(* The cookie names a challenge this server opened; the row may be gone.      *)
ReadChallengeCookie == {c \in Links : link[c] = "spent"}
ChallengeByID(c) == chal[c].row /\ chal[c].fresh
SpendChallengeAttempt(c) == ChallengeByID(c) /\ chal[c].attempts < MaxAttempts
DeleteChallenge(c) == [chal EXCEPT ![c].row = FALSE]
CreateChallenge(c) ==
    [chal EXCEPT ![c].row = TRUE, ![c].stage = IF Enrolled = {} THEN "enroll" ELSE "verify"]
SetPendingSecret(c, k) == IF chal[c].row THEN [chal EXCEPT ![c].pending = k] ELSE chal
SetChallengeStage(c) ==
    IF chal[c].row THEN [chal EXCEPT ![c].stage = "enroll", ![c].pending = None] ELSE chal
SetChallengeCeremony(c) == IF chal[c].row THEN [chal EXCEPT ![c].rite = TRUE] ELSE chal

(* totp.go: a code of step n is looked for around now, above the last step.   *)
verifyTOTP(n, lastStep) == n > lastStep /\ n >= 1 /\ n + Skew >= now /\ n <= now + Skew
matchTOTP(t, n) == t \in Enrolled /\ verifyTOTP(n, last[t])
(* Fault: the UPDATE has no predicate on the step.                            *)
FaultAdvanceTOTPStep(t, n) == t \in Enrolled /\ n >= 1
AdvanceTOTPStep(t, n) == t \in Enrolled /\ last[t] < n
AdvancePasskeyCounter(p, n) == p \in passkeys /\ (n > counter[p] \/ (n = 0 /\ counter[p] = 0))
usablePasskeys == passkeys \ flagged

(* DELETE of the rows it saw when it began, then the INSERTs of set b.         *)
ReplaceRecoveryCodes(b, seen) == codes' = (codes \ seen) \union {b} /\ issued' = issued \union {b}
DeleteSessionsForUser == live' = {}
SaveTOTPCredential(t, k, n) == totp' = [totp EXCEPT ![t] = k] /\ last' = [last EXCEPT ![t] = n]
DeleteTOTPCredentials(seen) == wiped' = wiped \union (seen \intersect Enrolled)
DeleteTOTPCredential(t) == removed' = removed \union {t}
CreateVerifiedSession(s, f) ==
    /\ live' = live \union {s} /\ by' = [by EXCEPT ![s] = f]
    /\ UNCHANGED <<stamp, park, rite>>

StampStepUp(s) == stamp' = [stamp EXCEPT ![s] = now]
SetSessionCeremony(s) == rite' = [rite EXCEPT ![s] = TRUE]
FlagPasskeyClone(p) == flagged' = flagged \union ({p} \intersect passkeys)
SavePasskey(p) == passkeys' = passkeys \union {p}
DeletePasskey(p) ==
    /\ passkeys' = passkeys \ {p} /\ flagged' = flagged \ {p}
    /\ counter' = [counter EXCEPT ![p] = 0]
PendingTOTP(s) == park[s] # None
SetPendingTOTP(s, k) == park' = [park EXCEPT ![s] = k]
SteppedUp(s) == stamp[s] # 0 /\ now - stamp[s] < Grace
codeSteps == 1..LastStep + Skew

----------------------------------------------------------------------------
(* The emailed link and the challenge it opens.                              *)

Tick ==
    /\ now < LastStep /\ now' = now + 1
    /\ UNCHANGED <<menu, link, chal, req, factors, keys, sessions>>

sendLogin(c) ==
    /\ SignsIn /\ link[c] = "none" /\ link' = [link EXCEPT ![c] = "sent"]
    /\ UNCHANGED <<menu, now, chal, req, factors, keys, sessions>>

(* beginChallenge: one transaction redeems the link and opens the challenge.  *)
email(c) ==
    /\ UserByMagicToken(c) /\ link' = [link EXCEPT ![c] = "spent"] /\ chal' = CreateChallenge(c)
    /\ UNCHANGED <<menu, now, req, factors, keys, sessions>>

Expire(c) ==
    /\ \/ link[c] = "sent" /\ link' = [link EXCEPT ![c] = "lapsed"] /\ UNCHANGED chal
       \/ ChallengeByID(c) /\ chal' = [chal EXCEPT ![c].fresh = FALSE] /\ UNCHANGED link
    /\ UNCHANGED <<menu, now, req, factors, keys, sessions>>

(* The page and its QR code: pendingSecret reads the challenge in one         *)
(* transaction and stores the secret it minted in another.                    *)
twoFactor(r, c) ==
    /\ req[r].at = "idle" /\ "enroll" \in menu
    /\ ChallengeByID(c) /\ chal[c].stage = "enroll" /\ chal[c].pending = None
    /\ \E k \in newTOTPKey :
         req' = [req EXCEPT ![r] = [Idle EXCEPT !.at = "mint", !.chal = c, !.secret = k]]
    /\ UNCHANGED <<menu, now, link, chal, factors, keys, sessions>>

pendingSecret(r) ==
    LET c == req[r].chal IN
    /\ req[r].at = "mint"
    /\ chal' = SetPendingSecret(c, req[r].secret)
    /\ req' = [req EXCEPT ![r] = Idle]
    /\ UNCHANGED <<menu, now, link, factors, keys, sessions>>

(* spend: the attempt is counted before anything is checked, in a transaction *)
(* of its own; a challenge that is out of attempts is discarded.              *)
spend(r, c, kind) ==
    /\ req[r].at = "idle" /\ kind \in menu
    /\ IF SpendChallengeAttempt(c)
       THEN /\ chal' = [chal EXCEPT ![c].attempts = @ + 1]
            /\ req' = IF \/ kind = "enroll" /\ chal[c].stage # "enroll"
                         \/ kind = "totp" /\ chal[c].stage # "verify"
                      THEN req
                      ELSE [req EXCEPT ![r] =
                               [Idle EXCEPT !.at = kind, !.chal = c,
                                            !.secret = chal[c].pending,
                                            !.tries = chal[c].attempts + 1]]
       ELSE /\ chal[c].row /\ chal' = DeleteChallenge(c) /\ UNCHANGED req
    /\ UNCHANGED <<menu, now, link, factors, keys, sessions>>

(* codeRejected: the last attempt takes the challenge with it.                *)
codeRejected(r) ==
    /\ req' = [req EXCEPT ![r] = Idle]
    /\ IF req[r].tries < MaxAttempts THEN UNCHANGED chal
       ELSE chal' = DeleteChallenge(req[r].chal)
    /\ UNCHANGED <<menu, now, link, factors, keys, sessions>>

(* A wrong code, in any of the forms that check one.                          *)
Refuse(r) == req[r].at \in {"enroll", "totp", "recovery"} /\ codeRejected(r)

(* The transaction of a request fails: everything it wrote is rolled back.    *)
Abandon(r) ==
    /\ req[r].at \in {"enroll", "replace", "totp", "advance", "recovery", "redeem", "reset",
                      "passkey", "assert", "confirm", "add", "remove"}
    /\ req' = [req EXCEPT ![r] = Idle]
    /\ UNCHANGED <<menu, now, link, chal, factors, keys, sessions>>

----------------------------------------------------------------------------
(* The four ways through a challenge.                                        *)

(* confirmEnrollment: the last transaction does not look at the challenge     *)
(* again, and its replacement of the codes takes no lock that another         *)
(* enrolment waits for.  The DELETE sees the codes committed when it begins;  *)
(* it may then wait for one of them that is being redeemed.                   *)
confirmEnrollment(r) ==
    /\ req[r].at = "enroll" /\ req[r].secret # None /\ batch < MaxBatch
    /\ \E n \in codeSteps : verifyTOTP(n, 0) /\
         req' = [req EXCEPT ![r].at = "replace", ![r].cred = batch + 1, ![r].step = n,
                            ![r].seen = codes]
    /\ batch' = batch + 1 /\ before' = [before EXCEPT ![batch + 1] = issued]
    /\ UNCHANGED <<menu, now, link, chal, totp, last, removed, wiped, codes, issued, redeemed,
                   keys, sessions>>

confirmEnrollmentCommit(r) ==
    /\ req[r].at = "replace" /\ ~\E k \in req[r].seen : Redeeming(k)
    /\ \E t \in FreshRows, s \in FreshSessions :
         /\ SaveTOTPCredential(t, req[r].secret, req[r].step)
         /\ CreateVerifiedSession(s, t)
    /\ ReplaceRecoveryCodes(req[r].cred, req[r].seen) /\ chal' = DeleteChallenge(req[r].chal)
    /\ req' = [req EXCEPT ![r] = Idle]
    /\ UNCHANGED <<menu, now, link, removed, wiped, batch, before, redeemed, keys>>

(* verifyCode: the credentials are read, then one of them is advanced.        *)
verifyCode(r) ==
    /\ req[r].at = "totp"
    /\ \/ /\ Enrolled = {} /\ req' = [req EXCEPT ![r] = Idle]
       \/ \E t \in Rows, n \in codeSteps :
            /\ matchTOTP(t, n)
            /\ req' = [req EXCEPT ![r].at = "advance", ![r].cred = t, ![r].step = n]
    /\ UNCHANGED <<menu, now, link, chal, factors, keys, sessions>>

verifyCodeCommit(r) ==
    LET t == req[r].cred IN
    /\ req[r].at = "advance" /\ ~Removing(t)
    /\ IF AdvanceTOTPStep(t, req[r].step)
       THEN /\ last' = [last EXCEPT ![t] = req[r].step]
            /\ chal' = DeleteChallenge(req[r].chal)
            /\ \E s \in FreshSessions : CreateVerifiedSession(s, t)
            /\ req' = [req EXCEPT ![r] = Idle]
            /\ UNCHANGED <<menu, now, link, totp, removed, wiped, recovery, keys>>
       ELSE codeRejected(r)

(* verifyRecovery: the code is read and its hash computed, then it is burned  *)
(* and the authenticators seen then are deleted, then the sessions, then      *)
(* COMMIT.                                                                   *)
RecoveryCodeBySelector(r) ==
    /\ req[r].at = "recovery"
    /\ \E k \in codes : req' = [req EXCEPT ![r].at = "redeem", ![r].cred = k]
    /\ UNCHANGED <<menu, now, link, chal, factors, keys, sessions>>

ConsumeRecoveryCode(k) == k \in codes

verifyRecovery(r) ==
    /\ req[r].at = "redeem" /\ ~Redeeming(req[r].cred)
    /\ IF ConsumeRecoveryCode(req[r].cred)
       THEN /\ req' = [req EXCEPT ![r].at = "reset", ![r].seen = Enrolled]
            /\ UNCHANGED <<menu, now, link, chal, factors, keys, sessions>>
       ELSE codeRejected(r)

verifyRecoveryCommit(r) ==
    LET k == req[r].cred IN
    /\ req[r].at = "reset" /\ ~\E t \in req[r].seen : Removing(t)
    /\ codes' = codes \ {k} /\ redeemed' = [redeemed EXCEPT ![k] = @ + 1]
    /\ DeleteTOTPCredentials(req[r].seen) /\ chal' = SetChallengeStage(req[r].chal)
    /\ DeleteSessionsForUser /\ req' = [req EXCEPT ![r] = Idle]
    /\ UNCHANGED <<menu, now, link, totp, last, removed, batch, issued, before, keys,
                   by, stamp, park, rite>>

(* A passkey: begin parks a ceremony on the challenge, finish spends an       *)
(* attempt, checks the assertion and its counter n, and commits later.        *)
beginPasskeyLogin(c) ==
    /\ "passkey" \in menu /\ ChallengeByID(c) /\ usablePasskeys # {}
    /\ ~chal[c].rite /\ chal' = SetChallengeCeremony(c)
    /\ UNCHANGED <<menu, now, link, req, factors, keys, sessions>>

(* A refused assertion; a counter that did not advance is refused as well,    *)
(* and the flag FlagPasskeyClone sets is rolled back with the refusal.        *)
passkeyRefused(r) ==
    /\ req[r].at = "passkey" /\ req' = [req EXCEPT ![r] = Idle]
    /\ UNCHANGED <<menu, now, link, chal, factors, keys, sessions>>

(* The ceremony and the passkeys are read; AdvancePasskeyCounter comes after, *)
(* when another request with the same ceremony may have committed.            *)
finishPasskeyLogin(r) ==
    LET c == req[r].chal IN
    /\ req[r].at = "passkey" /\ ChallengeByID(c) /\ chal[c].rite
    /\ \E p \in usablePasskeys, n \in 0..MaxCount :
         req' = [req EXCEPT ![r].at = "assert", ![r].cred = p, ![r].step = n]
    /\ UNCHANGED <<menu, now, link, chal, factors, keys, sessions>>

finishPasskeyLoginCommit(r) ==
    LET p == req[r].cred IN
    /\ req[r].at = "assert" /\ req' = [req EXCEPT ![r] = Idle]
    /\ IF AdvancePasskeyCounter(p, req[r].step)
       THEN /\ counter' = [counter EXCEPT ![p] = req[r].step]
            /\ chal' = DeleteChallenge(req[r].chal)
            /\ \E s \in FreshSessions : CreateVerifiedSession(s, p)
       ELSE UNCHANGED <<chal, counter, sessions>>
    /\ UNCHANGED <<menu, now, link, factors, passkeys, flagged>>

----------------------------------------------------------------------------
(* The security panel, in a session: serveSession has found its row.          *)

Panel(s, kinds) == menu \intersect kinds # {} /\ s \in live

logout(s) ==
    /\ Panel(s, PanelKinds) /\ live' = live \ {s}
    /\ UNCHANGED <<menu, now, link, chal, req, factors, keys, by, stamp, park, rite>>

(* A code confirms: the step is burned, then the session stamped.             *)
proveTOTP(s) ==
    /\ Panel(s, PanelKinds)
    /\ \E t \in Enrolled, n \in codeSteps :
         /\ ~Removing(t) /\ matchTOTP(t, n) /\ AdvanceTOTPStep(t, n)
         /\ last' = [last EXCEPT ![t] = n]
    /\ StampStepUp(s)
    /\ UNCHANGED <<menu, now, link, chal, req, totp, removed, wiped, recovery,
                   keys, live, by, park, rite>>

(* The ceremony on the session is one slot, for confirming and registering.   *)
beginStepUpPasskey(s) ==
    /\ Panel(s, {"keys"}) /\ usablePasskeys # {} /\ ~rite[s] /\ SetSessionCeremony(s)
    /\ UNCHANGED <<menu, now, link, chal, req, factors, keys, live, by, stamp, park>>

finishStepUpPasskey(r, s) ==
    /\ req[r].at = "idle" /\ Panel(s, {"keys"}) /\ rite[s]
    /\ \E p \in usablePasskeys, n \in 0..MaxCount :
         req' = [req EXCEPT ![r] = [Idle EXCEPT !.at = "confirm", !.sess = s, !.cred = p,
                                                !.step = n]]
    /\ UNCHANGED <<menu, now, link, chal, factors, keys, sessions>>

finishStepUpPasskeyCommit(r) ==
    LET p == req[r].cred  s == req[r].sess IN
    /\ req[r].at = "confirm" /\ req' = [req EXCEPT ![r] = Idle]
    /\ IF AdvancePasskeyCounter(p, req[r].step)
       THEN /\ counter' = [counter EXCEPT ![p] = req[r].step] /\ UNCHANGED flagged
            /\ rite' = [rite EXCEPT ![s] = FALSE]
            /\ StampStepUp(s)
       ELSE /\ FlagPasskeyClone(p)
            /\ UNCHANGED <<counter, rite, stamp>>
    /\ UNCHANGED <<menu, now, link, chal, factors, passkeys, live, by, park>>

beginPasskeyRegistration(s) ==
    /\ Panel(s, {"keys"}) /\ ~rite[s] /\ SteppedUp(s) /\ SetSessionCeremony(s)
    /\ UNCHANGED <<menu, now, link, chal, req, factors, keys, live, by, stamp, park>>

finishPasskeyRegistration(s) ==
    /\ Panel(s, {"keys"}) /\ rite[s] /\ rite' = [rite EXCEPT ![s] = FALSE]
    /\ \E p \in Passkeys \ passkeys : SavePasskey(p)
    /\ UNCHANGED <<menu, now, link, chal, req, factors, counter, flagged, live, by,
                   stamp, park>>

deletePasskey(s) ==
    /\ Panel(s, {"keys"}) /\ SteppedUp(s) /\ \E p \in passkeys : DeletePasskey(p)
    /\ UNCHANGED <<menu, now, link, chal, req, factors, sessions>>

(* pendingSessionSecret mints and parks a secret unless one is parked.        *)
pendingSessionSecret(s) ==
    IF PendingTOTP(s) THEN UNCHANGED park ELSE \E k \in newTOTPKey : SetPendingTOTP(s, k)

beginTOTP(s) ==
    /\ Panel(s, {"adding"}) /\ SteppedUp(s) /\ pendingSessionSecret(s)
    /\ UNCHANGED <<menu, now, link, chal, req, factors, keys, live, by, stamp, rite>>

(* GET, and not among the routes StepUp guards.                               *)
totpQR(s) ==
    /\ Panel(s, {"adding"}) /\ ~PendingTOTP(s) /\ pendingSessionSecret(s)
    /\ UNCHANGED <<menu, now, link, chal, req, factors, keys, live, by, stamp, rite>>

cancelTOTP(s) ==
    /\ Panel(s, {"adding"}) /\ PendingTOTP(s) /\ SetPendingTOTP(s, None)
    /\ UNCHANGED <<menu, now, link, chal, req, factors, keys, live, by, stamp, rite>>

confirmTOTP(r, s) ==
    /\ req[r].at = "idle" /\ Panel(s, {"adding"}) /\ PendingTOTP(s)
    /\ \E n \in codeSteps : verifyTOTP(n, 0) /\
         req' = [req EXCEPT ![r] = [Idle EXCEPT !.at = "add", !.sess = s,
                                                !.secret = park[s], !.step = n]]
    /\ UNCHANGED <<menu, now, link, chal, factors, keys, sessions>>

confirmTOTPCommit(r) ==
    LET s == req[r].sess IN
    /\ req[r].at = "add"
    /\ \E t \in FreshRows :
         /\ SaveTOTPCredential(t, req[r].secret, req[r].step)
    /\ SetPendingTOTP(s, None)
    /\ req' = [req EXCEPT ![r] = Idle]
    /\ UNCHANGED <<menu, now, link, chal, removed, wiped, recovery, keys,
                   live, by, stamp, rite>>

(* DeleteTOTPCredential: the row goes if the statement sees a sibling.        *)
HasSibling(t) == \E u \in Enrolled : u # t

deleteTOTP(r, s) ==
    /\ req[r].at = "idle" /\ Panel(s, {"removing"}) /\ SteppedUp(s)
    /\ \E t \in Enrolled : HasSibling(t) /\ ~Removing(t) /\
         req' = [req EXCEPT ![r] = [Idle EXCEPT !.at = "remove", !.cred = t]]
    /\ UNCHANGED <<menu, now, link, chal, factors, keys, sessions>>

deleteTOTPCommit(r) ==
    /\ req[r].at = "remove" /\ DeleteTOTPCredential(req[r].cred)
    /\ req' = [req EXCEPT ![r] = Idle]
    /\ UNCHANGED <<menu, now, link, chal, totp, last, wiped, recovery, keys, sessions>>

----------------------------------------------------------------------------
SignInNext ==
    \/ Tick
    \/ \E c \in Links : sendLogin(c) \/ email(c) \/ Expire(c) \/ beginPasskeyLogin(c)
    \/ \E r \in Requests :
         \/ \E c \in Links : twoFactor(r, c)
         \/ \E c \in ReadChallengeCookie, kind \in {"enroll", "totp", "recovery", "passkey"} :
              spend(r, c, kind)
         \/ pendingSecret(r) \/ Refuse(r) \/ Abandon(r) \/ confirmEnrollment(r)
         \/ confirmEnrollmentCommit(r) \/ verifyCode(r) \/ verifyCodeCommit(r) \/ RecoveryCodeBySelector(r)
         \/ verifyRecovery(r) \/ verifyRecoveryCommit(r) \/ passkeyRefused(r)
         \/ finishPasskeyLogin(r) \/ finishPasskeyLoginCommit(r)
         \/ \E s \in Sessions :
              finishStepUpPasskey(r, s) \/ confirmTOTP(r, s) \/ deleteTOTP(r, s)
         \/ finishStepUpPasskeyCommit(r)
         \/ confirmTOTPCommit(r) \/ deleteTOTPCommit(r)
    \/ \E s \in Sessions :
         \/ logout(s) \/ proveTOTP(s) \/ beginStepUpPasskey(s)
         \/ beginPasskeyRegistration(s) \/ finishPasskeyRegistration(s) \/ deletePasskey(s)
         \/ beginTOTP(s) \/ totpQR(s) \/ cancelTOTP(s)

SignInSpec == SignInInit /\ [][SignInNext]_signInVars

----------------------------------------------------------------------------
(* repo.go of AdvanceTOTPStep: "exactly one updates a row and the other gets  *)
(* false".  Whoever races, a session opened or confirmed with an              *)
(* authenticator moves its last step up: no code works twice on it.           *)
AcceptedAdvances ==
    \A t \in Rows, s \in Sessions :
      by[s] = None /\ by'[s] = t => last'[t] > last[t]

(* challenge.go of verifyRecovery: "Every existing session was authorised by  *)
(* a factor the user has just told us they no longer control."  A sign-in     *)
(* with an authenticator that races the reset either loses it or is ended.    *)
ResetEndsSessions == \A s \in live : by[s] \notin wiped

(* repo.go of ConsumeRecoveryCode: "stops two simultaneous submissions of the  *)
(* same code from both succeeding".  A code is redeemed once, and not after   *)
(* an enrolment that began its replacement when the code was there: only the  *)
(* sets of enrolments that overlap stay side by side.                         *)
RecoveryCodeCurrent ==
    \A k \in 1..MaxBatch : redeemed'[k] # redeemed[k] =>
      redeemed[k] = 0 /\ k \in issued /\ \A b \in issued : k \notin before[b]

(* A signature counter never goes back, and a value other than zero opens or  *)
(* confirms once, in sign-ins and confirmations together.  An assertion of a  *)
(* passkey that always reports zero may open a session for each request that  *)
(* read its ceremony before the first of them committed.                      *)
CounterAdvances ==
    \A p \in passkeys \intersect passkeys' :
      \/ counter'[p] > counter[p]
      \/ counter'[p] = counter[p]
         /\ (\A s \in Sessions : by[s] = None /\ by'[s] = p => counter[p] = 0)
         /\ (\A r \in Requests :
               req[r].at = "confirm" /\ req[r].cred = p /\ req'[r] # req[r] /\ stamp' # stamp
               => counter[p] = 0)

(* What lets a person in is used once, while it stands, and what a reset has  *)
(* taken away keeps no session open (challenge.go, security.go).              *)
FactorsHold ==
    [][/\ AcceptedAdvances
       /\ RecoveryCodeCurrent
       /\ CounterAdvances
       /\ ResetEndsSessions'
       /\ SignInTypeOK']_signInVars
=============================================================================

---------------------------- MODULE ExpiryAlerts -----------------------------
(* The sweep that mails administrators about expiring certificates.  Each     *)
(* process runs one (docs/est.md speaks of more than one replica).  A sweep   *)
(* reads settings, certificates and recipients, sends one message to each,    *)
(* and then marks the certificates, all in one transaction; the mail is not   *)
(* part of it.  The message names the first fifty and counts the rest, so     *)
(* every certificate read is told about and every one read is marked.         *)
EXTENDS Naturals, FiniteSets

CONSTANTS
    Sweepers,       \* processes that run the sweep
    Watched,        \* certificates
    Administrators,
    MaxTold         \* messages counted for one administrator and certificate

ASSUME ExpiryAssumption == MaxTold \in Nat /\ MaxTold >= 2

VARIABLES
    watched,        \* certificate rows: how near to expiry, and marked for whom
    organization,   \* the setting and the administrators
    told,           \* messages the mail service accepted
    excused,        \* certificates of sweeps that failed after sending, or overlapped
    sweeps

expiryVars == <<watched, organization, told, excused, sweeps>>

NoSweep == [at |-> "idle", read |-> {}, recipients |-> {}, sent |-> {}]

(* Types; messages are counted up to MaxTold.                              *)
ExpiryTypeOK ==
    /\ watched \in [Watched -> [state : {"later", "due", "over"}, marked : BOOLEAN,
                                told : SUBSET Administrators]]
    /\ organization \in [alerts : BOOLEAN, administrators : SUBSET Administrators]
    /\ told \in [Administrators -> [Watched -> 0..MaxTold]]
    /\ excused \subseteq Watched
    /\ sweeps \in [Sweepers -> [at : {"idle", "settings", "certificates", "sending"},
                                read : SUBSET Watched, recipients : SUBSET Administrators,
                                sent : SUBSET Administrators]]
    /\ \A s \in Sweepers : sweeps[s].sent \subseteq sweeps[s].recipients
    /\ \A s \in Sweepers : (sweeps[s].at = "sending") <=> (sweeps[s].recipients # {})

ExpiryInit ==
    /\ watched = [c \in Watched |-> [state |-> "later", marked |-> FALSE, told |-> {}]]
    /\ organization \in [alerts : {TRUE}, administrators : SUBSET Administrators]
    /\ told = [a \in Administrators |-> [c \in Watched |-> 0]]
    /\ excused = {} /\ sweeps = [s \in Sweepers |-> NoSweep]

----------------------------------------------------------------------------
(* The organization.                                                         *)

(* Time, and the window set in the dialog: a certificate may leave it again.  *)
ExpiryWindow(c, due) ==
    /\ watched[c].state = (IF due THEN "later" ELSE "due")
    /\ watched' = [watched EXCEPT ![c].state = IF due THEN "due" ELSE "later"]
    /\ UNCHANGED <<organization, told, excused, sweeps>>

(* Revoked, or expired.                                                       *)
CertificateEnds(c) ==
    /\ watched[c].state = "due" /\ watched' = [watched EXCEPT ![c].state = "over"]
    /\ UNCHANGED <<organization, told, excused, sweeps>>

updateNotifications(on) ==
    /\ organization.alerts # on /\ organization' = [organization EXCEPT !.alerts = on]
    /\ UNCHANGED <<watched, told, excused, sweeps>>

(* Roles change in the panel that Team models.                                *)
AdministratorChanges(a) ==
    /\ organization' = [organization EXCEPT !.administrators = IF a \in @ THEN @ \ {a} ELSE @ \union {a}]
    /\ UNCHANGED <<watched, told, excused, sweeps>>

----------------------------------------------------------------------------
(* The sweep.                                                                *)

liveCertificateCondition(c) == watched[c].state # "over"

(* Fault: what has been told about is not left out.                           *)
FaultExpiringCertificates == {c \in Watched : liveCertificateCondition(c) /\ watched[c].state = "due"}
ExpiringCertificates ==
    {c \in Watched : liveCertificateCondition(c) /\ watched[c].state = "due" /\ ~watched[c].marked}

AlertRecipients == organization.administrators

AlertOnce(s) ==
    /\ sweeps[s].at = "idle" /\ sweeps' = [sweeps EXCEPT ![s].at = "settings"]
    /\ UNCHANGED <<watched, organization, told, excused>>

ExpiryAlertSettings(s) ==
    /\ sweeps[s].at = "settings"
    /\ sweeps' = [sweeps EXCEPT ![s] = IF ~organization.alerts \/ ExpiringCertificates = {} THEN NoSweep
                     ELSE [@ EXCEPT !.at = "certificates", !.read = ExpiringCertificates]]
    /\ excused' = excused \union
         (IF organization.alerts
          THEN {c \in ExpiringCertificates : \E z \in Sweepers \ {s} : c \in sweeps[z].read} ELSE {})
    /\ UNCHANGED <<watched, organization, told>>

(* Nobody to tell leaves the certificates waiting.                            *)
alertOrganization(s) ==
    /\ sweeps[s].at = "certificates"
    /\ sweeps' = [sweeps EXCEPT ![s] = IF AlertRecipients = {} THEN NoSweep
                     ELSE [@ EXCEPT !.at = "sending", !.recipients = AlertRecipients]]
    /\ UNCHANGED <<watched, organization, told, excused>>

Add(n) == IF n = MaxTold THEN n ELSE n + 1
Accepted(s, a) ==
    told' = [told EXCEPT ![a] = [c \in Watched |-> IF c \in sweeps[s].read THEN Add(told[a][c]) ELSE told[a][c]]]

Send(s, a) ==
    /\ sweeps[s].at = "sending" /\ a \in sweeps[s].recipients \ sweeps[s].sent
    /\ Accepted(s, a) /\ sweeps' = [sweeps EXCEPT ![s].sent = @ \union {a}]
    /\ UNCHANGED <<watched, organization, excused>>

(* A sweep that ends without COMMIT excuses another message to those it told. *)
Unfinished(s) == excused \union sweeps[s].read

(* Refused, or accepted and the reply lost; the rest are not written to.      *)
SendFails(s, a) ==
    /\ sweeps[s].at = "sending" /\ a \in sweeps[s].recipients \ sweeps[s].sent
    /\ Accepted(s, a) \/ UNCHANGED told
    /\ sweeps' = [sweeps EXCEPT ![s] = NoSweep] /\ excused' = Unfinished(s)
    /\ UNCHANGED <<watched, organization>>

MarkExpiryNotified(s) ==
    /\ sweeps[s].at = "sending" /\ sweeps[s].sent = sweeps[s].recipients
    /\ watched' = [c \in Watched |->
         IF c \in sweeps[s].read THEN [watched[c] EXCEPT !.marked = TRUE, !.told = sweeps[s].recipients]
         ELSE watched[c]]
    /\ sweeps' = [sweeps EXCEPT ![s] = NoSweep]
    /\ UNCHANGED <<organization, told, excused>>

(* A statement or COMMIT fails, or the server stops.                          *)
SweepFails(s) ==
    /\ sweeps[s].at # "idle" /\ sweeps' = [sweeps EXCEPT ![s] = NoSweep]
    /\ excused' = Unfinished(s)
    /\ UNCHANGED <<watched, organization, told>>

ExpiryNext ==
    \/ \E s \in Sweepers :
         \/ AlertOnce(s) \/ ExpiryAlertSettings(s) \/ alertOrganization(s)
         \/ MarkExpiryNotified(s) \/ SweepFails(s)
         \/ \E a \in Administrators : Send(s, a) \/ SendFails(s, a)
    \/ \E c \in Watched : CertificateEnds(c) \/ \E due \in BOOLEAN : ExpiryWindow(c, due)
    \/ \E a \in Administrators : AdministratorChanges(a)
    \/ \E on \in BOOLEAN : updateNotifications(on)

ExpirySpec == ExpiryInit /\ [][ExpiryNext]_expiryVars

----------------------------------------------------------------------------
(* Properties.                                                               *)

(* A certificate is marked only once every administrator its sweep read has   *)
(* been sent a message that was accepted, and there was at least one: a mark  *)
(* is what keeps later sweeps from it (pki/expiry_worker.go:108).             *)
MarkedWasSent ==
    \A c \in Watched : watched[c].marked =>
        watched[c].told # {} /\ \A a \in watched[c].told : told[a][c] >= 1

(* "This notice is sent once per certificate" (pki/expiry_worker.go:192): an  *)
(* administrator hears of a certificate again only if a sweep that had read   *)
(* it did not finish, or two sweeps had read it at once.                      *)
RepeatsAreExcused ==
    \A a \in Administrators, c \in Watched : told[a][c] >= 2 => c \in excused

(* Nobody misses an expiry and nobody is told twice without a reason, for     *)
(* one sweep or two (expiry_worker.go).                                       *)
AlertsReachOnce ==
    /\ MarkedWasSent
    /\ RepeatsAreExcused
    /\ ExpiryTypeOK
=============================================================================

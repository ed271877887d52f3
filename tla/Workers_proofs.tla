---------------------------- MODULE Workers_proofs ----------------------------
(* Proofs about the two hourly passes that speak to others and then write,    *)
(* the mail about expiring certificates (ExpiryAlerts) and Microsoft's        *)
(* revocation requests (IntuneSync), and about the forms that configure the   *)
(* endpoints one of them serves (ScepConfig), for every number of replicas,   *)
(* certificates, administrators and endpoints.                                *)
EXTENDS ExpiryAlerts, IntuneSync, ScepConfig, FiniteSetTheorems, WellFoundedInduction, TLAPS

----------------------------------------------------------------------------
(* ExpiryAlerts.                                                             *)

USE ExpiryAssumption

(* A sweep has read certificates from its second read on, and its messages    *)
(* to whom it wrote were counted.                                             *)
SentWasTold ==
    \A s \in Sweepers :
        /\ sweeps[s].at \in {"idle", "settings"} => sweeps[s].read = {}
        /\ \A a \in sweeps[s].sent, c \in sweeps[s].read : told[a][c] >= 1

(* What two sweeps read, and what was marked since it was read, is excused.   *)
OverlapIsExcused ==
    \A s \in Sweepers : \A c \in sweeps[s].read :
        /\ watched[c].marked => c \in excused
        /\ \A z \in Sweepers \ {s} : c \in sweeps[z].read => c \in excused

(* A message is accounted for by the sweep that sent it, by the mark that     *)
(* sweep made, or by its failure.                                             *)
ToldIsAccounted ==
    \A a \in Administrators, c \in Watched : told[a][c] >= 1 =>
        \/ c \in excused \/ watched[c].marked
        \/ \E s \in Sweepers : c \in sweeps[s].read /\ a \in sweeps[s].sent

ExpiryInv == /\ ExpiryTypeOK /\ SentWasTold /\ OverlapIsExcused /\ ToldIsAccounted
             /\ MarkedWasSent /\ RepeatsAreExcused
CertificateRow == [state : {"later", "due", "over"}, marked : BOOLEAN, told : SUBSET Administrators]

(* The mark is made of what the sweep read, for whom it wrote to.           *)
LEMMA MarkEffect ==
  ASSUME ExpiryTypeOK, NEW s \in Sweepers, MarkExpiryNotified(s)
  PROVE  /\ watched' \in [Watched -> CertificateRow]
         /\ \A c \in sweeps[s].read : watched'[c].marked /\ watched'[c].told = sweeps[s].recipients
         /\ \A c \in Watched \ sweeps[s].read : watched'[c] = watched[c]
<1>1. /\ watched \in [Watched -> CertificateRow]
      /\ sweeps[s].read \subseteq Watched /\ sweeps[s].recipients \subseteq Administrators
  BY DEF ExpiryTypeOK, CertificateRow
<1> DEFINE d(c) == [watched[c] EXCEPT !.marked = TRUE, !.told = sweeps[s].recipients]
<1>2. ASSUME NEW c \in Watched
      PROVE  d(c) \in CertificateRow /\ d(c).marked /\ d(c).told = sweeps[s].recipients
  <2>1. watched[c] \in CertificateRow
    BY <1>1
  <2> QED
    BY <1>1, <2>1, Zenon DEF CertificateRow
<1>3. watched' = [c \in Watched |-> IF c \in sweeps[s].read THEN d(c) ELSE watched[c]]
  BY DEF MarkExpiryNotified
<1> HIDE DEF d
<1> QED
  BY <1>1, <1>2, <1>3

Counted(s, a) ==
    /\ told' \in [Administrators -> [Watched -> 0..MaxTold]]
    /\ \A c \in sweeps[s].read : told'[a][c] >= 1 /\ (told'[a][c] >= 2 => told[a][c] >= 1)
    /\ \A c \in Watched \ sweeps[s].read : told'[a][c] = told[a][c]
    /\ \A b \in Administrators, c \in Watched :
         told'[b][c] >= told[b][c] /\ (b # a => told'[b][c] = told[b][c])

(* A message that was accepted counts once for every certificate it names.  *)
LEMMA AcceptedEffect ==
  ASSUME ExpiryTypeOK, NEW s \in Sweepers, NEW a \in Administrators, Accepted(s, a)
  PROVE  Counted(s, a)
<1>1. /\ told \in [Administrators -> [Watched -> 0..MaxTold]]
      /\ sweeps[s].read \subseteq Watched
  BY DEF ExpiryTypeOK
<1> DEFINE d == [c \in Watched |-> IF c \in sweeps[s].read THEN Add(told[a][c]) ELSE told[a][c]]
<1>2. \A n \in 0..MaxTold : Add(n) \in 0..MaxTold /\ Add(n) >= 1 /\ Add(n) >= n /\ (Add(n) >= 2 => n >= 1)
  BY DEF Add
<1>3. \A c \in Watched : told[a][c] \in 0..MaxTold
  BY <1>1
<1>4. /\ d \in [Watched -> 0..MaxTold]
      /\ \A c \in sweeps[s].read : d[c] >= 1 /\ (d[c] >= 2 => told[a][c] >= 1)
      /\ \A c \in Watched : d[c] >= told[a][c]
      /\ \A c \in Watched \ sweeps[s].read : d[c] = told[a][c]
  BY <1>1, <1>2, <1>3
<1>5. told' = [told EXCEPT ![a] = d]
  BY DEF Accepted
<1> HIDE DEF d
<1>6. told'[a] = d /\ \A b \in Administrators : b # a => told'[b] = told[b]
  BY <1>1, <1>5
<1>7. \A b \in Administrators, c \in Watched : told[b][c] \in Nat
  BY <1>1
<1> QED
  BY <1>1, <1>4, <1>5, <1>6, <1>7 DEF Counted

(* Each step keeps the types.                                               *)
LEMMA ExpiryTypeStep ==
    ExpiryTypeOK /\ SentWasTold /\ [ExpiryNext]_expiryVars
        => ExpiryTypeOK'
<1> SUFFICES ASSUME ExpiryTypeOK /\ SentWasTold, [ExpiryNext]_expiryVars
             PROVE ExpiryTypeOK'
  OBVIOUS
<1>1. ASSUME NEW s \in Sweepers, AlertOnce(s) PROVE ExpiryTypeOK'
  BY <1>1 DEF AlertOnce, ExpiryTypeOK, NoSweep
<1>2. ASSUME NEW s \in Sweepers, ExpiryAlertSettings(s) PROVE ExpiryTypeOK'
  <2> DEFINE row == [sweeps[s] EXCEPT !.at = "certificates", !.read = ExpiringCertificates]
  <2>1. /\ sweeps' = [sweeps EXCEPT ![s] = NoSweep] \/ sweeps' = [sweeps EXCEPT ![s] = row]
        /\ sweeps[s].at = "settings" /\ UNCHANGED <<watched, organization, told>>
    BY <1>2 DEF ExpiryAlertSettings, ExpiryTypeOK
  <2>2. excused' \subseteq Watched
    BY <1>2 DEF ExpiryAlertSettings, ExpiringCertificates, ExpiryTypeOK
  <2>3. ExpiringCertificates \subseteq Watched
    BY DEF ExpiringCertificates
  <2>4. CASE sweeps' = [sweeps EXCEPT ![s] = NoSweep]
    BY <2>1, <2>2, <2>4 DEF ExpiryTypeOK, NoSweep
  <2>5. CASE sweeps' = [sweeps EXCEPT ![s] = row]
    <3>1. row.sent = sweeps[s].sent /\ row.recipients = sweeps[s].recipients /\ row.at = "certificates"
      BY <2>1 DEF ExpiryTypeOK
    <3>2. row \in [at : {"idle", "settings", "certificates", "sending"}, read : SUBSET Watched,
                   recipients : SUBSET Administrators, sent : SUBSET Administrators]
      BY ZenonT(30), <2>3 DEF ExpiryTypeOK
    <3> HIDE DEF row
    <3>3. \A z \in Sweepers : sweeps'[z] = IF z = s THEN row ELSE sweeps[z]
      BY <2>5 DEF ExpiryTypeOK
    <3>4. sweeps' \in [Sweepers -> [at : {"idle", "settings", "certificates", "sending"},
                                    read : SUBSET Watched, recipients : SUBSET Administrators,
                                    sent : SUBSET Administrators]]
      BY <2>5, <3>2 DEF ExpiryTypeOK
    <3>5. \A z \in Sweepers : /\ sweeps'[z].sent \subseteq sweeps'[z].recipients
                              /\ (sweeps'[z].at = "sending") <=> (sweeps'[z].recipients # {})
      BY <2>1, <3>1, <3>3 DEF ExpiryTypeOK
    <3> QED
      BY <2>1, <2>2, <3>4, <3>5 DEF ExpiryTypeOK
  <2> QED
    BY <2>1, <2>4, <2>5
<1>3. ASSUME NEW s \in Sweepers, alertOrganization(s) PROVE ExpiryTypeOK'
  BY ZenonT(30), <1>3 DEF alertOrganization, AlertRecipients, ExpiryTypeOK, NoSweep
<1>4. ASSUME NEW s \in Sweepers, MarkExpiryNotified(s) PROVE ExpiryTypeOK'
  <2>1. /\ watched' \in [Watched -> CertificateRow]
        /\ \A c \in sweeps[s].read : watched'[c].marked /\ watched'[c].told = sweeps[s].recipients
        /\ \A c \in Watched \ sweeps[s].read : watched'[c] = watched[c]
    BY <1>4, MarkEffect
  <2>2. /\ sweeps[s].at = "sending" /\ sweeps[s].sent = sweeps[s].recipients
        /\ sweeps' = [sweeps EXCEPT ![s] = NoSweep] /\ UNCHANGED <<organization, told, excused>>
    BY <1>4 DEF MarkExpiryNotified
  <2> QED
    BY <2>1, <2>2 DEF CertificateRow, ExpiryTypeOK, NoSweep
<1>5. ASSUME NEW s \in Sweepers, SweepFails(s) PROVE ExpiryTypeOK'
  BY <1>5 DEF SweepFails, Unfinished, ExpiryTypeOK, NoSweep
<1>6. ASSUME NEW s \in Sweepers, NEW a \in Administrators, Send(s, a) PROVE ExpiryTypeOK'
  <2>1. Counted(s, a)
    BY <1>6, AcceptedEffect DEF Send
  <2>2. /\ sweeps[s].at = "sending" /\ a \in sweeps[s].recipients \ sweeps[s].sent
        /\ sweeps' = [sweeps EXCEPT ![s].sent = sweeps[s].sent \union {a}]
        /\ UNCHANGED <<watched, organization, excused>>
    BY <1>6 DEF Send
  <2>3. sweeps' \in [Sweepers -> [at : {"idle", "settings", "certificates", "sending"},
                                  read : SUBSET Watched, recipients : SUBSET Administrators,
                                  sent : SUBSET Administrators]]
    <3>1. [sweeps[s] EXCEPT !.sent = sweeps[s].sent \union {a}] \in
            [at : {"idle", "settings", "certificates", "sending"}, read : SUBSET Watched,
             recipients : SUBSET Administrators, sent : SUBSET Administrators]
      BY DEF ExpiryTypeOK
    <3> QED
      BY <2>2, <3>1 DEF ExpiryTypeOK
  <2>4. \A z \in Sweepers : /\ sweeps'[z].at = sweeps[z].at
                            /\ sweeps'[z].recipients = sweeps[z].recipients
                            /\ sweeps'[z].sent \subseteq sweeps[z].sent \union (IF z = s THEN {a} ELSE {})
    BY <2>2 DEF ExpiryTypeOK
  <2>5. \A z \in Sweepers : /\ sweeps[z].sent \subseteq sweeps[z].recipients
                            /\ (sweeps[z].at = "sending") <=> (sweeps[z].recipients # {})
    BY DEF ExpiryTypeOK
  <2>6. \A z \in Sweepers : /\ sweeps'[z].sent \subseteq sweeps'[z].recipients
                            /\ (sweeps'[z].at = "sending") <=> (sweeps'[z].recipients # {})
    BY <2>2, <2>4, <2>5
  <2>7. told' \in [Administrators -> [Watched -> 0..MaxTold]]
    BY <2>1 DEF Counted
  <2>8. watched' = watched /\ organization' = organization /\ excused' = excused
    BY <2>2
  <2> QED
    BY <2>3, <2>6, <2>7, <2>8 DEF ExpiryTypeOK
<1>7. ASSUME NEW s \in Sweepers, NEW a \in Administrators, SendFails(s, a) PROVE ExpiryTypeOK'
  <2>1. /\ a \in sweeps[s].recipients \ sweeps[s].sent /\ UNCHANGED <<watched, organization>>
        /\ sweeps' = [sweeps EXCEPT ![s] = NoSweep] /\ excused' = excused \union sweeps[s].read
    BY <1>7 DEF SendFails, Unfinished
  <2>2. CASE Accepted(s, a)
    <3>1. Counted(s, a)
      BY <2>2, AcceptedEffect
    <3> QED
      BY <2>1, <3>1 DEF Counted, ExpiryTypeOK, NoSweep
  <2>3. CASE UNCHANGED told
    BY <2>1, <2>3 DEF ExpiryTypeOK, NoSweep
  <2> QED
    BY <1>7, <2>2, <2>3 DEF SendFails
<1>8. ASSUME NEW c \in Watched, CertificateEnds(c) PROVE ExpiryTypeOK'
  BY SMTT(30), <1>8 DEF CertificateEnds, ExpiryTypeOK, NoSweep
<1>9. ASSUME NEW c \in Watched, NEW due \in BOOLEAN, ExpiryWindow(c, due) PROVE ExpiryTypeOK'
  <2>1. /\ watched' = [watched EXCEPT ![c].state = IF due THEN "due" ELSE "later"]
        /\ UNCHANGED <<organization, told, excused, sweeps>>
    BY <1>9 DEF ExpiryWindow
  <2>2. watched' \in [Watched -> CertificateRow]
    BY <2>1 DEF ExpiryTypeOK, CertificateRow
  <2> QED
    BY <2>1, <2>2 DEF ExpiryTypeOK, CertificateRow
<1>10. ASSUME NEW a \in Administrators, AdministratorChanges(a) PROVE ExpiryTypeOK'
  BY <1>10 DEF AdministratorChanges, ExpiryTypeOK, NoSweep
<1>11. ASSUME NEW on \in BOOLEAN, updateNotifications(on) PROVE ExpiryTypeOK'
  BY <1>11 DEF updateNotifications, ExpiryTypeOK, NoSweep
<1>12. CASE UNCHANGED expiryVars
  BY <1>12 DEF expiryVars, ExpiryTypeOK, NoSweep
<1> QED
  BY <1>1, <1>2, <1>3, <1>4, <1>5, <1>6, <1>7, <1>8, <1>9, <1>10, <1>11, <1>12
     DEF ExpiryNext

(* A sweep counts the messages it sends.                                    *)
LEMMA SentStep ==
    ExpiryTypeOK /\ SentWasTold /\ [ExpiryNext]_expiryVars
        => SentWasTold'
<1> SUFFICES ASSUME ExpiryTypeOK /\ SentWasTold, [ExpiryNext]_expiryVars
             PROVE SentWasTold'
  OBVIOUS
<1>1. ASSUME NEW s \in Sweepers, AlertOnce(s) PROVE SentWasTold'
  BY <1>1 DEF AlertOnce, ExpiryTypeOK, NoSweep, SentWasTold
<1>2. ASSUME NEW s \in Sweepers, ExpiryAlertSettings(s) PROVE SentWasTold'
  BY <1>2 DEF ExpiryAlertSettings, ExpiringCertificates, ExpiryTypeOK, NoSweep, SentWasTold
<1>3. ASSUME NEW s \in Sweepers, alertOrganization(s) PROVE SentWasTold'
  BY <1>3 DEF alertOrganization, AlertRecipients, ExpiryTypeOK, NoSweep, SentWasTold
<1>4. ASSUME NEW s \in Sweepers, MarkExpiryNotified(s) PROVE SentWasTold'
  <2>1. /\ watched' \in [Watched -> CertificateRow]
        /\ \A c \in sweeps[s].read : watched'[c].marked /\ watched'[c].told = sweeps[s].recipients
        /\ \A c \in Watched \ sweeps[s].read : watched'[c] = watched[c]
    BY <1>4, MarkEffect
  <2>2. /\ sweeps[s].at = "sending" /\ sweeps[s].sent = sweeps[s].recipients
        /\ sweeps' = [sweeps EXCEPT ![s] = NoSweep] /\ UNCHANGED <<organization, told, excused>>
    BY <1>4 DEF MarkExpiryNotified
  <2> QED
    BY <2>1, <2>2 DEF CertificateRow, ExpiryTypeOK, NoSweep, SentWasTold
<1>5. ASSUME NEW s \in Sweepers, SweepFails(s) PROVE SentWasTold'
  BY <1>5 DEF SweepFails, Unfinished, ExpiryTypeOK, NoSweep, SentWasTold
<1>6. ASSUME NEW s \in Sweepers, NEW a \in Administrators, Send(s, a) PROVE SentWasTold'
  <2>1. Counted(s, a)
    BY <1>6, AcceptedEffect DEF Send
  <2>2. /\ sweeps[s].at = "sending" /\ a \in sweeps[s].recipients \ sweeps[s].sent
        /\ sweeps' = [sweeps EXCEPT ![s].sent = sweeps[s].sent \union {a}]
        /\ UNCHANGED <<watched, organization, excused>>
    BY <1>6 DEF Send
  <2> QED
    BY <2>1, <2>2 DEF Counted, ExpiryTypeOK, NoSweep, SentWasTold
<1>7. ASSUME NEW s \in Sweepers, NEW a \in Administrators, SendFails(s, a) PROVE SentWasTold'
  <2>1. /\ a \in sweeps[s].recipients \ sweeps[s].sent /\ UNCHANGED <<watched, organization>>
        /\ sweeps' = [sweeps EXCEPT ![s] = NoSweep] /\ excused' = excused \union sweeps[s].read
    BY <1>7 DEF SendFails, Unfinished
  <2>2. CASE Accepted(s, a)
    <3>1. Counted(s, a)
      BY <2>2, AcceptedEffect
    <3> QED
      BY <2>1, <3>1 DEF Counted, ExpiryTypeOK, NoSweep, SentWasTold
  <2>3. CASE UNCHANGED told
    BY <2>1, <2>3 DEF ExpiryTypeOK, NoSweep, SentWasTold
  <2> QED
    BY <1>7, <2>2, <2>3 DEF SendFails
<1>8. ASSUME NEW c \in Watched, CertificateEnds(c) PROVE SentWasTold'
  BY <1>8 DEF CertificateEnds, ExpiryTypeOK, NoSweep, SentWasTold
<1>9. ASSUME NEW c \in Watched, NEW due \in BOOLEAN, ExpiryWindow(c, due) PROVE SentWasTold'
  BY <1>9 DEF ExpiryWindow, ExpiryTypeOK, NoSweep, SentWasTold
<1>10. ASSUME NEW a \in Administrators, AdministratorChanges(a) PROVE SentWasTold'
  BY <1>10 DEF AdministratorChanges, ExpiryTypeOK, NoSweep, SentWasTold
<1>11. ASSUME NEW on \in BOOLEAN, updateNotifications(on) PROVE SentWasTold'
  BY <1>11 DEF updateNotifications, ExpiryTypeOK, NoSweep, SentWasTold
<1>12. CASE UNCHANGED expiryVars
  BY <1>12 DEF expiryVars, ExpiryTypeOK, NoSweep, SentWasTold
<1> QED
  BY <1>1, <1>2, <1>3, <1>4, <1>5, <1>6, <1>7, <1>8, <1>9, <1>10, <1>11, <1>12
     DEF ExpiryNext

(* A sweep that reads what another has read, or marks it, excuses it.       *)
LEMMA OverlapStep ==
    ExpiryTypeOK /\ OverlapIsExcused /\ [ExpiryNext]_expiryVars
        => OverlapIsExcused'
<1> SUFFICES ASSUME ExpiryTypeOK /\ OverlapIsExcused, [ExpiryNext]_expiryVars
             PROVE OverlapIsExcused'
  OBVIOUS
<1>1. ASSUME NEW s \in Sweepers, AlertOnce(s) PROVE OverlapIsExcused'
  BY <1>1 DEF AlertOnce, ExpiryTypeOK, NoSweep, OverlapIsExcused
<1>2. ASSUME NEW s \in Sweepers, ExpiryAlertSettings(s) PROVE OverlapIsExcused'
  BY <1>2 DEF ExpiryAlertSettings, ExpiringCertificates, ExpiryTypeOK, NoSweep, OverlapIsExcused
<1>3. ASSUME NEW s \in Sweepers, alertOrganization(s) PROVE OverlapIsExcused'
  BY <1>3 DEF alertOrganization, AlertRecipients, ExpiryTypeOK, NoSweep, OverlapIsExcused
<1>4. ASSUME NEW s \in Sweepers, MarkExpiryNotified(s) PROVE OverlapIsExcused'
  <2>1. /\ watched' \in [Watched -> CertificateRow]
        /\ \A c \in sweeps[s].read : watched'[c].marked /\ watched'[c].told = sweeps[s].recipients
        /\ \A c \in Watched \ sweeps[s].read : watched'[c] = watched[c]
    BY <1>4, MarkEffect
  <2>2. /\ sweeps[s].at = "sending" /\ sweeps[s].sent = sweeps[s].recipients
        /\ sweeps' = [sweeps EXCEPT ![s] = NoSweep] /\ UNCHANGED <<organization, told, excused>>
    BY <1>4 DEF MarkExpiryNotified
  <2> QED
    BY <2>1, <2>2 DEF CertificateRow, ExpiryTypeOK, NoSweep, OverlapIsExcused
<1>5. ASSUME NEW s \in Sweepers, SweepFails(s) PROVE OverlapIsExcused'
  BY <1>5 DEF SweepFails, Unfinished, ExpiryTypeOK, NoSweep, OverlapIsExcused
<1>6. ASSUME NEW s \in Sweepers, NEW a \in Administrators, Send(s, a) PROVE OverlapIsExcused'
  <2>1. Counted(s, a)
    BY <1>6, AcceptedEffect DEF Send
  <2>2. /\ sweeps[s].at = "sending" /\ a \in sweeps[s].recipients \ sweeps[s].sent
        /\ sweeps' = [sweeps EXCEPT ![s].sent = sweeps[s].sent \union {a}]
        /\ UNCHANGED <<watched, organization, excused>>
    BY <1>6 DEF Send
  <2> QED
    BY <2>1, <2>2 DEF Counted, ExpiryTypeOK, NoSweep, OverlapIsExcused
<1>7. ASSUME NEW s \in Sweepers, NEW a \in Administrators, SendFails(s, a) PROVE OverlapIsExcused'
  <2>1. /\ a \in sweeps[s].recipients \ sweeps[s].sent /\ UNCHANGED <<watched, organization>>
        /\ sweeps' = [sweeps EXCEPT ![s] = NoSweep] /\ excused' = excused \union sweeps[s].read
    BY <1>7 DEF SendFails, Unfinished
  <2>2. CASE Accepted(s, a)
    <3>1. Counted(s, a)
      BY <2>2, AcceptedEffect
    <3> QED
      BY <2>1, <3>1 DEF Counted, ExpiryTypeOK, NoSweep, OverlapIsExcused
  <2>3. CASE UNCHANGED told
    BY <2>1, <2>3 DEF ExpiryTypeOK, NoSweep, OverlapIsExcused
  <2> QED
    BY <1>7, <2>2, <2>3 DEF SendFails
<1>8. ASSUME NEW c \in Watched, CertificateEnds(c) PROVE OverlapIsExcused'
  BY <1>8 DEF CertificateEnds, ExpiryTypeOK, NoSweep, OverlapIsExcused
<1>9. ASSUME NEW c \in Watched, NEW due \in BOOLEAN, ExpiryWindow(c, due) PROVE OverlapIsExcused'
  BY <1>9 DEF ExpiryWindow, ExpiryTypeOK, NoSweep, OverlapIsExcused
<1>10. ASSUME NEW a \in Administrators, AdministratorChanges(a) PROVE OverlapIsExcused'
  BY <1>10 DEF AdministratorChanges, ExpiryTypeOK, NoSweep, OverlapIsExcused
<1>11. ASSUME NEW on \in BOOLEAN, updateNotifications(on) PROVE OverlapIsExcused'
  BY <1>11 DEF updateNotifications, ExpiryTypeOK, NoSweep, OverlapIsExcused
<1>12. CASE UNCHANGED expiryVars
  BY <1>12 DEF expiryVars, ExpiryTypeOK, NoSweep, OverlapIsExcused
<1> QED
  BY <1>1, <1>2, <1>3, <1>4, <1>5, <1>6, <1>7, <1>8, <1>9, <1>10, <1>11, <1>12
     DEF ExpiryNext

(* Messages stay accounted for when their sweep ends.                       *)
LEMMA AccountStep ==
    ExpiryTypeOK /\ ToldIsAccounted /\ [ExpiryNext]_expiryVars
        => ToldIsAccounted'
<1> SUFFICES ASSUME ExpiryTypeOK /\ ToldIsAccounted, [ExpiryNext]_expiryVars
             PROVE ToldIsAccounted'
  OBVIOUS
<1>1. ASSUME NEW s \in Sweepers, AlertOnce(s) PROVE ToldIsAccounted'
  BY <1>1 DEF AlertOnce, ExpiryTypeOK, NoSweep, ToldIsAccounted
<1>2. ASSUME NEW s \in Sweepers, ExpiryAlertSettings(s) PROVE ToldIsAccounted'
  BY <1>2 DEF ExpiryAlertSettings, ExpiringCertificates, ExpiryTypeOK, NoSweep, ToldIsAccounted
<1>3. ASSUME NEW s \in Sweepers, alertOrganization(s) PROVE ToldIsAccounted'
  BY <1>3 DEF alertOrganization, AlertRecipients, ExpiryTypeOK, NoSweep, ToldIsAccounted
<1>4. ASSUME NEW s \in Sweepers, MarkExpiryNotified(s) PROVE ToldIsAccounted'
  <2>1. /\ watched' \in [Watched -> CertificateRow]
        /\ \A c \in sweeps[s].read : watched'[c].marked /\ watched'[c].told = sweeps[s].recipients
        /\ \A c \in Watched \ sweeps[s].read : watched'[c] = watched[c]
    BY <1>4, MarkEffect
  <2>2. /\ sweeps[s].at = "sending" /\ sweeps[s].sent = sweeps[s].recipients
        /\ sweeps' = [sweeps EXCEPT ![s] = NoSweep] /\ UNCHANGED <<organization, told, excused>>
    BY <1>4 DEF MarkExpiryNotified
  <2> QED
    BY <2>1, <2>2 DEF CertificateRow, ExpiryTypeOK, NoSweep, ToldIsAccounted
<1>5. ASSUME NEW s \in Sweepers, SweepFails(s) PROVE ToldIsAccounted'
  BY <1>5 DEF SweepFails, Unfinished, ExpiryTypeOK, NoSweep, ToldIsAccounted
<1>6. ASSUME NEW s \in Sweepers, NEW a \in Administrators, Send(s, a) PROVE ToldIsAccounted'
  <2>1. Counted(s, a)
    BY <1>6, AcceptedEffect DEF Send
  <2>2. /\ sweeps[s].at = "sending" /\ a \in sweeps[s].recipients \ sweeps[s].sent
        /\ sweeps' = [sweeps EXCEPT ![s].sent = sweeps[s].sent \union {a}]
        /\ UNCHANGED <<watched, organization, excused>>
    BY <1>6 DEF Send
  <2> QED
    BY <2>1, <2>2 DEF Counted, ExpiryTypeOK, NoSweep, ToldIsAccounted
<1>7. ASSUME NEW s \in Sweepers, NEW a \in Administrators, SendFails(s, a) PROVE ToldIsAccounted'
  <2>1. /\ a \in sweeps[s].recipients \ sweeps[s].sent /\ UNCHANGED <<watched, organization>>
        /\ sweeps' = [sweeps EXCEPT ![s] = NoSweep] /\ excused' = excused \union sweeps[s].read
    BY <1>7 DEF SendFails, Unfinished
  <2>2. CASE Accepted(s, a)
    <3>1. Counted(s, a)
      BY <2>2, AcceptedEffect
    <3>2. ASSUME NEW b \in Administrators, NEW c \in Watched \ sweeps[s].read, told'[b][c] >= 1
          PROVE  told[b][c] >= 1
      BY <3>1, <3>2 DEF Counted
    <3> QED
      BY <2>1, <3>2 DEF ExpiryTypeOK, NoSweep, ToldIsAccounted
  <2>3. CASE UNCHANGED told
    BY <2>1, <2>3 DEF ExpiryTypeOK, NoSweep, ToldIsAccounted
  <2> QED
    BY <1>7, <2>2, <2>3 DEF SendFails
<1>8. ASSUME NEW c \in Watched, CertificateEnds(c) PROVE ToldIsAccounted'
  BY <1>8 DEF CertificateEnds, ExpiryTypeOK, NoSweep, ToldIsAccounted
<1>9. ASSUME NEW c \in Watched, NEW due \in BOOLEAN, ExpiryWindow(c, due) PROVE ToldIsAccounted'
  BY <1>9 DEF ExpiryWindow, ExpiryTypeOK, NoSweep, ToldIsAccounted
<1>10. ASSUME NEW a \in Administrators, AdministratorChanges(a) PROVE ToldIsAccounted'
  BY <1>10 DEF AdministratorChanges, ExpiryTypeOK, NoSweep, ToldIsAccounted
<1>11. ASSUME NEW on \in BOOLEAN, updateNotifications(on) PROVE ToldIsAccounted'
  BY <1>11 DEF updateNotifications, ExpiryTypeOK, NoSweep, ToldIsAccounted
<1>12. CASE UNCHANGED expiryVars
  BY <1>12 DEF expiryVars, ExpiryTypeOK, NoSweep, ToldIsAccounted
<1> QED
  BY <1>1, <1>2, <1>3, <1>4, <1>5, <1>6, <1>7, <1>8, <1>9, <1>10, <1>11, <1>12
     DEF ExpiryNext

(* A mark is made of certificates whose messages were all sent.             *)
LEMMA MarkedStep ==
    ExpiryTypeOK /\ SentWasTold /\ MarkedWasSent /\ [ExpiryNext]_expiryVars
        => MarkedWasSent'
<1> SUFFICES ASSUME ExpiryTypeOK /\ SentWasTold /\ MarkedWasSent, [ExpiryNext]_expiryVars
             PROVE MarkedWasSent'
  OBVIOUS
<1>1. ASSUME NEW s \in Sweepers, AlertOnce(s) PROVE MarkedWasSent'
  BY <1>1 DEF AlertOnce, ExpiryTypeOK, NoSweep, SentWasTold, MarkedWasSent
<1>2. ASSUME NEW s \in Sweepers, ExpiryAlertSettings(s) PROVE MarkedWasSent'
  BY <1>2
     DEF ExpiryAlertSettings, ExpiringCertificates, ExpiryTypeOK, NoSweep, SentWasTold,
         MarkedWasSent
<1>3. ASSUME NEW s \in Sweepers, alertOrganization(s) PROVE MarkedWasSent'
  BY <1>3 DEF alertOrganization, AlertRecipients, ExpiryTypeOK, NoSweep, SentWasTold, MarkedWasSent
<1>4. ASSUME NEW s \in Sweepers, MarkExpiryNotified(s) PROVE MarkedWasSent'
  <2>1. /\ watched' \in [Watched -> CertificateRow]
        /\ \A c \in sweeps[s].read : watched'[c].marked /\ watched'[c].told = sweeps[s].recipients
        /\ \A c \in Watched \ sweeps[s].read : watched'[c] = watched[c]
    BY <1>4, MarkEffect
  <2>2. /\ sweeps[s].at = "sending" /\ sweeps[s].sent = sweeps[s].recipients
        /\ sweeps' = [sweeps EXCEPT ![s] = NoSweep] /\ UNCHANGED <<organization, told, excused>>
    BY <1>4 DEF MarkExpiryNotified
  <2> QED
    BY SMTT(30), <2>1, <2>2 DEF CertificateRow, ExpiryTypeOK, NoSweep, SentWasTold, MarkedWasSent
<1>5. ASSUME NEW s \in Sweepers, SweepFails(s) PROVE MarkedWasSent'
  BY <1>5 DEF SweepFails, Unfinished, ExpiryTypeOK, NoSweep, SentWasTold, MarkedWasSent
<1>6. ASSUME NEW s \in Sweepers, NEW a \in Administrators, Send(s, a) PROVE MarkedWasSent'
  <2>1. Counted(s, a)
    BY <1>6, AcceptedEffect DEF Send
  <2>2. /\ sweeps[s].at = "sending" /\ a \in sweeps[s].recipients \ sweeps[s].sent
        /\ sweeps' = [sweeps EXCEPT ![s].sent = sweeps[s].sent \union {a}]
        /\ UNCHANGED <<watched, organization, excused>>
    BY <1>6 DEF Send
  <2> QED
    BY <2>1, <2>2 DEF Counted, ExpiryTypeOK, NoSweep, SentWasTold, MarkedWasSent
<1>7. ASSUME NEW s \in Sweepers, NEW a \in Administrators, SendFails(s, a) PROVE MarkedWasSent'
  <2>1. /\ a \in sweeps[s].recipients \ sweeps[s].sent /\ UNCHANGED <<watched, organization>>
        /\ sweeps' = [sweeps EXCEPT ![s] = NoSweep] /\ excused' = excused \union sweeps[s].read
    BY <1>7 DEF SendFails, Unfinished
  <2>2. CASE Accepted(s, a)
    <3>1. Counted(s, a)
      BY <2>2, AcceptedEffect
    <3> QED
      BY <2>1, <3>1 DEF Counted, ExpiryTypeOK, NoSweep, SentWasTold, MarkedWasSent
  <2>3. CASE UNCHANGED told
    BY <2>1, <2>3 DEF ExpiryTypeOK, NoSweep, SentWasTold, MarkedWasSent
  <2> QED
    BY <1>7, <2>2, <2>3 DEF SendFails
<1>8. ASSUME NEW c \in Watched, CertificateEnds(c) PROVE MarkedWasSent'
  BY <1>8 DEF CertificateEnds, ExpiryTypeOK, NoSweep, SentWasTold, MarkedWasSent
<1>9. ASSUME NEW c \in Watched, NEW due \in BOOLEAN, ExpiryWindow(c, due) PROVE MarkedWasSent'
  BY <1>9 DEF ExpiryWindow, ExpiryTypeOK, NoSweep, SentWasTold, MarkedWasSent
<1>10. ASSUME NEW a \in Administrators, AdministratorChanges(a) PROVE MarkedWasSent'
  BY <1>10 DEF AdministratorChanges, ExpiryTypeOK, NoSweep, SentWasTold, MarkedWasSent
<1>11. ASSUME NEW on \in BOOLEAN, updateNotifications(on) PROVE MarkedWasSent'
  BY <1>11 DEF updateNotifications, ExpiryTypeOK, NoSweep, SentWasTold, MarkedWasSent
<1>12. CASE UNCHANGED expiryVars
  BY <1>12 DEF expiryVars, ExpiryTypeOK, NoSweep, SentWasTold, MarkedWasSent
<1> QED
  BY <1>1, <1>2, <1>3, <1>4, <1>5, <1>6, <1>7, <1>8, <1>9, <1>10, <1>11, <1>12
     DEF ExpiryNext

(* Whoever is told again is told by a sweep whose certificate is excused.   *)
LEMMA RepeatStep ==
    ExpiryTypeOK /\ OverlapIsExcused /\ ToldIsAccounted /\ RepeatsAreExcused /\ [ExpiryNext]_expiryVars
        => RepeatsAreExcused'
<1> SUFFICES ASSUME ExpiryTypeOK /\ OverlapIsExcused /\ ToldIsAccounted /\ RepeatsAreExcused, [ExpiryNext]_expiryVars
             PROVE RepeatsAreExcused'
  OBVIOUS
<1>1. ASSUME NEW s \in Sweepers, AlertOnce(s) PROVE RepeatsAreExcused'
  BY <1>1 DEF AlertOnce, ExpiryTypeOK, NoSweep, OverlapIsExcused, ToldIsAccounted, RepeatsAreExcused
<1>2. ASSUME NEW s \in Sweepers, ExpiryAlertSettings(s) PROVE RepeatsAreExcused'
  BY <1>2
     DEF ExpiryAlertSettings, ExpiringCertificates, ExpiryTypeOK, NoSweep, OverlapIsExcused,
         ToldIsAccounted, RepeatsAreExcused
<1>3. ASSUME NEW s \in Sweepers, alertOrganization(s) PROVE RepeatsAreExcused'
  BY <1>3
     DEF alertOrganization, AlertRecipients, ExpiryTypeOK, NoSweep, OverlapIsExcused,
         ToldIsAccounted, RepeatsAreExcused
<1>4. ASSUME NEW s \in Sweepers, MarkExpiryNotified(s) PROVE RepeatsAreExcused'
  <2>1. /\ watched' \in [Watched -> CertificateRow]
        /\ \A c \in sweeps[s].read : watched'[c].marked /\ watched'[c].told = sweeps[s].recipients
        /\ \A c \in Watched \ sweeps[s].read : watched'[c] = watched[c]
    BY <1>4, MarkEffect
  <2>2. /\ sweeps[s].at = "sending" /\ sweeps[s].sent = sweeps[s].recipients
        /\ sweeps' = [sweeps EXCEPT ![s] = NoSweep] /\ UNCHANGED <<organization, told, excused>>
    BY <1>4 DEF MarkExpiryNotified
  <2> QED
    BY <2>1, <2>2
       DEF CertificateRow, ExpiryTypeOK, NoSweep, OverlapIsExcused, ToldIsAccounted,
           RepeatsAreExcused
<1>5. ASSUME NEW s \in Sweepers, SweepFails(s) PROVE RepeatsAreExcused'
  BY <1>5
     DEF SweepFails, Unfinished, ExpiryTypeOK, NoSweep, OverlapIsExcused, ToldIsAccounted,
         RepeatsAreExcused
<1>6. ASSUME NEW s \in Sweepers, NEW a \in Administrators, Send(s, a) PROVE RepeatsAreExcused'
  <2>1. Counted(s, a)
    BY <1>6, AcceptedEffect DEF Send
  <2>2. /\ sweeps[s].at = "sending" /\ a \in sweeps[s].recipients \ sweeps[s].sent
        /\ sweeps' = [sweeps EXCEPT ![s].sent = sweeps[s].sent \union {a}]
        /\ UNCHANGED <<watched, organization, excused>>
    BY <1>6 DEF Send
  <2> QED
    BY <2>1, <2>2
       DEF Counted, ExpiryTypeOK, NoSweep, OverlapIsExcused, ToldIsAccounted, RepeatsAreExcused
<1>7. ASSUME NEW s \in Sweepers, NEW a \in Administrators, SendFails(s, a)
      PROVE  RepeatsAreExcused'
  <2>1. /\ a \in sweeps[s].recipients \ sweeps[s].sent /\ UNCHANGED <<watched, organization>>
        /\ sweeps' = [sweeps EXCEPT ![s] = NoSweep] /\ excused' = excused \union sweeps[s].read
    BY <1>7 DEF SendFails, Unfinished
  <2>2. CASE Accepted(s, a)
    <3>1. Counted(s, a)
      BY <2>2, AcceptedEffect
    <3> QED
      BY SMTT(30), <2>1, <3>1
         DEF Counted, ExpiryTypeOK, NoSweep, OverlapIsExcused, ToldIsAccounted,
             RepeatsAreExcused
  <2>3. CASE UNCHANGED told
    BY <2>1, <2>3 DEF ExpiryTypeOK, NoSweep, OverlapIsExcused, ToldIsAccounted, RepeatsAreExcused
  <2> QED
    BY <1>7, <2>2, <2>3 DEF SendFails
<1>8. ASSUME NEW c \in Watched, CertificateEnds(c) PROVE RepeatsAreExcused'
  BY <1>8
     DEF CertificateEnds, ExpiryTypeOK, NoSweep, OverlapIsExcused, ToldIsAccounted,
         RepeatsAreExcused
<1>9. ASSUME NEW c \in Watched, NEW due \in BOOLEAN, ExpiryWindow(c, due) PROVE RepeatsAreExcused'
  BY <1>9
     DEF ExpiryWindow, ExpiryTypeOK, NoSweep, OverlapIsExcused, ToldIsAccounted,
         RepeatsAreExcused
<1>10. ASSUME NEW a \in Administrators, AdministratorChanges(a) PROVE RepeatsAreExcused'
  BY <1>10
     DEF AdministratorChanges, ExpiryTypeOK, NoSweep, OverlapIsExcused, ToldIsAccounted,
         RepeatsAreExcused
<1>11. ASSUME NEW on \in BOOLEAN, updateNotifications(on) PROVE RepeatsAreExcused'
  BY <1>11
     DEF updateNotifications, ExpiryTypeOK, NoSweep, OverlapIsExcused, ToldIsAccounted,
         RepeatsAreExcused
<1>12. CASE UNCHANGED expiryVars
  BY <1>12
     DEF expiryVars, ExpiryTypeOK, NoSweep, OverlapIsExcused, ToldIsAccounted, RepeatsAreExcused
<1> QED
  BY <1>1, <1>2, <1>3, <1>4, <1>5, <1>6, <1>7, <1>8, <1>9, <1>10, <1>11, <1>12
     DEF ExpiryNext


(* expiry_worker.go: every administrator a mark stands for was sent a message *)
(* that was accepted, and hears twice only of what a failed or overlapping    *)
(* sweep had read.                                                            *)
THEOREM AlertsOnce == ExpirySpec => []AlertsReachOnce
<1>1. ExpiryInit => ExpiryInv
  <2> SUFFICES ASSUME ExpiryInit PROVE ExpiryInv
    OBVIOUS
  <2> USE DEF ExpiryInit, NoSweep
  <2>1. ExpiryTypeOK
    <3>1. organization \in [alerts : BOOLEAN, administrators : SUBSET Administrators]
      BY Zenon
    <3>2. told \in [Administrators -> [Watched -> 0..MaxTold]]
      OBVIOUS
    <3> QED
      BY <3>1, <3>2 DEF ExpiryTypeOK
  <2>2. SentWasTold /\ OverlapIsExcused /\ ToldIsAccounted
    BY DEF SentWasTold, OverlapIsExcused, ToldIsAccounted
  <2>3. MarkedWasSent /\ RepeatsAreExcused
    BY DEF MarkedWasSent, RepeatsAreExcused
  <2> QED
    BY <2>1, <2>2, <2>3 DEF ExpiryInv
<1>2. ExpiryInv /\ [ExpiryNext]_expiryVars => ExpiryInv'
  BY ExpiryTypeStep, SentStep, OverlapStep, AccountStep, MarkedStep, RepeatStep DEF ExpiryInv
<1>3. ExpiryInv => AlertsReachOnce
  BY DEF ExpiryInv, AlertsReachOnce
<1> QED
  BY <1>1, <1>2, <1>3, PTL DEF ExpirySpec


----------------------------------------------------------------------------
(* IntuneSync.                                                               *)

USE SyncAssumption

(* A request stays with Microsoft until it is answered for good, and so does  *)
(* what the pass holds of it; one that came before the enrolment committed is *)
(* known for it.                                                              *)
BatchIsQueued ==
    /\ \A s \in Serials : \/ sync.results[s] # "none" \/ s \in sync.batch \/ s = sync.looking
                          => s \in queue
    /\ \A s \in queue : certs[s].late \/ certs[s].state \in {"issued", "revoked"}
    /\ sync.at = "idle" => sync = NoSync

(* What the pass will report revoked it has revoked, or will have by COMMIT;  *)
(* what it revoked is locked until then.                                      *)
ResultsAreTrue ==
    /\ \A s \in Serials : sync.results[s] = "revoked" =>
           certs[s].state = "revoked" \/ s \in sync.revoked
    /\ sync.at = "upload" => sync.revoked = {}

(* What the pass will report not found belongs to no endpoint of its group.   *)
NotFoundIsForeign ==
    /\ sync.ready \subseteq sync.group
    /\ \A s \in Serials : sync.results[s] = "not found" /\ ~certs[s].late =>
           certs[s].owner \notin sync.ready \/ endpoints[certs[s].owner].row = "deleted"

SyncInv == /\ SyncTypeOK /\ BatchIsQueued /\ ResultsAreTrue /\ NotFoundIsForeign
           /\ ReportedRevokedIsRevoked

CertStates == {"none", "told", "issued", "revoked"}
CertRow == [owner : ScepEndpoints \union {Foreign}, late : BOOLEAN, state : CertStates]
SyncEndpointRow == [row : {"live", "deleted"}, enabled : BOOLEAN, method : BOOLEAN]
Moved(s, v) ==
    /\ certs' \in [Serials -> CertRow]
    /\ certs'[s].state = v /\ certs'[s].owner = certs[s].owner /\ certs'[s].late = certs[s].late
    /\ \A t \in Serials \ {s} : certs'[t] = certs[t]

(* A statement that sets the state of one certificate row.                  *)
LEMMA StateSet ==
  ASSUME SyncTypeOK, NEW s \in Serials, NEW v \in CertStates, certs' = [certs EXCEPT ![s].state = v]
  PROVE  Moved(s, v)
<1>1. certs \in [Serials -> CertRow]
  BY DEF SyncTypeOK, CertRow, CertStates
<1> DEFINE d == [certs[s] EXCEPT !.state = v]
<1>2. certs[s] \in CertRow
  BY <1>1
<1>3. d \in CertRow /\ d.state = v /\ d.owner = certs[s].owner /\ d.late = certs[s].late
  BY <1>2, Zenon DEF CertRow
<1>4. certs' = [certs EXCEPT ![s] = d]
  OBVIOUS
<1> HIDE DEF d
<1> QED
  BY <1>1, <1>3, <1>4 DEF Moved

(* What NotifySuccess leaves of the rows.                                   *)
LEMMA NotifyEffect ==
  ASSUME SyncTypeOK, NEW s \in Serials, NotifySuccess(s)
  PROVE  \E v \in {"told", "issued"} : Moved(s, v)
<1>1. PICK v \in {"told", "issued"} : certs' = [certs EXCEPT ![s].state = v]
  BY Zenon DEF NotifySuccess
<1> QED
  BY <1>1, StateSet DEF CertStates

(* What CreateTransaction leaves of them.                                   *)
LEMMA CreateEffect ==
  ASSUME SyncTypeOK, NEW s \in Serials, CreateTransaction(s)
  PROVE  \E v \in {"none", "issued"} : Moved(s, v)
<1>1. PICK v \in {"none", "issued"} : certs' = [certs EXCEPT ![s].state = v]
  BY Zenon DEF CreateTransaction
<1> QED
  BY <1>1, StateSet DEF CertStates

(* A revocation from the console.                                           *)
LEMMA ConsoleEffect ==
  ASSUME SyncTypeOK, NEW s \in Serials, RevokeFromConsole(s)
  PROVE  Moved(s, "revoked")
  BY StateSet DEF CertStates, RevokeFromConsole

Asked(s) ==
    /\ certs' \in [Serials -> CertRow]
    /\ certs'[s].late <=> certs[s].state = "told"
    /\ certs'[s].owner = certs[s].owner /\ certs'[s].state = certs[s].state
    /\ \A t \in Serials \ {s} : certs'[t] = certs[t]

(* A request marks whether the enrolment had committed.                     *)
LEMMA AskEffect ==
  ASSUME SyncTypeOK, NEW s \in Serials, AskRevocation(s)
  PROVE  Asked(s)
<1>1. certs \in [Serials -> CertRow]
  BY DEF SyncTypeOK, CertRow, CertStates
<1> DEFINE d == [certs[s] EXCEPT !.late = certs[s].state = "told"]
<1>2. certs[s] \in CertRow
  BY <1>1
<1>3. /\ d \in CertRow /\ (d.late <=> certs[s].state = "told")
      /\ d.owner = certs[s].owner /\ d.state = certs[s].state
  BY <1>2, Zenon DEF CertRow
<1>4. certs' = [certs EXCEPT ![s] = d]
  BY Zenon DEF AskRevocation
<1> HIDE DEF d
<1> QED
  BY <1>1, <1>3, <1>4 DEF Asked

RevokesBatch ==
    /\ certs' \in [Serials -> CertRow]
    /\ \A s \in sync.revoked : certs'[s].state = "revoked"
    /\ \A s \in Serials : certs'[s].owner = certs[s].owner /\ certs'[s].late = certs[s].late
    /\ \A s \in Serials \ sync.revoked : certs'[s] = certs[s]

(* COMMIT revokes what the pass revoked, and nothing else.                  *)
LEMMA CommitEffect ==
  ASSUME SyncTypeOK, CommitSync
  PROVE  RevokesBatch
<1>1. certs \in [Serials -> CertRow] /\ sync.revoked \subseteq Serials
  BY DEF SyncTypeOK, CertRow, CertStates
<1> DEFINE d(s) == [certs[s] EXCEPT !.state = "revoked"]
<1>2. ASSUME NEW s \in Serials
      PROVE  /\ d(s) \in CertRow /\ d(s).state = "revoked"
             /\ d(s).owner = certs[s].owner /\ d(s).late = certs[s].late
  <2>1. certs[s] \in CertRow
    BY <1>1
  <2> QED
    BY <2>1, Zenon DEF CertRow, CertStates
<1>3. certs' = [s \in Serials |-> IF s \in sync.revoked THEN d(s) ELSE certs[s]]
  BY DEF CommitSync
<1> HIDE DEF d
<1> QED
  BY <1>1, <1>2, <1>3 DEF RevokesBatch

(* The console sets one column of one endpoint.                             *)
LEMMA EndpointSet ==
  ASSUME SyncTypeOK, NEW e \in ScepEndpoints, NEW on \in BOOLEAN,
         \/ endpoints' = [endpoints EXCEPT ![e].enabled = on]
         \/ endpoints' = [endpoints EXCEPT ![e].method = on]
         \/ endpoints' = [endpoints EXCEPT ![e].row = "deleted"]
  PROVE  endpoints' \in [ScepEndpoints -> SyncEndpointRow]
<1>1. endpoints \in [ScepEndpoints -> SyncEndpointRow]
  BY DEF SyncTypeOK, SyncEndpointRow
<1>2. endpoints[e] \in SyncEndpointRow
  BY <1>1
<1>3. /\ [endpoints[e] EXCEPT !.enabled = on] \in SyncEndpointRow
      /\ [endpoints[e] EXCEPT !.method = on] \in SyncEndpointRow
      /\ [endpoints[e] EXCEPT !.row = "deleted"] \in SyncEndpointRow
  BY <1>2, Zenon DEF SyncEndpointRow
<1>4. PICK d \in SyncEndpointRow : endpoints' = [endpoints EXCEPT ![e] = d]
  BY <1>3, Zenon
<1> QED
  BY <1>1, <1>4

(* Disconnecting takes the method of every endpoint.                        *)
LEMMA DisconnectEffect ==
  ASSUME SyncTypeOK, DisconnectIntuneTenant
  PROVE  /\ endpoints' \in [ScepEndpoints -> SyncEndpointRow]
         /\ \A e \in ScepEndpoints : endpoints'[e].row = endpoints[e].row
<1>1. endpoints \in [ScepEndpoints -> SyncEndpointRow]
  BY DEF SyncTypeOK, SyncEndpointRow
<1> DEFINE d(e) == [endpoints[e] EXCEPT !.method = FALSE]
<1>2. ASSUME NEW e \in ScepEndpoints
      PROVE  d(e) \in SyncEndpointRow /\ d(e).row = endpoints[e].row
  <2>1. endpoints[e] \in SyncEndpointRow
    BY <1>1
  <2> QED
    BY <2>1, Zenon DEF SyncEndpointRow
<1>3. endpoints' = [e \in ScepEndpoints |-> d(e)]
  BY DEF DisconnectIntuneTenant
<1> HIDE DEF d
<1> QED
  BY <1>2, <1>3

(* A verdict is recorded of the request it is about, and of no other.        *)
Recorded(s, v) ==
    /\ sync'.results[s] = v
    /\ \A t \in Serials \ {s} : sync'.results[t] = sync.results[t]
    /\ sync'.group = sync.group /\ sync'.ready = sync.ready /\ sync'.revoked = sync.revoked
    /\ sync'.at \in {"commit", "classify"}

(* Result records the verdict of one request.                                 *)
LEMMA ResultEffect ==
  ASSUME SyncTypeOK, NEW s \in Serials, NEW v \in Verdicts, sync' = Result(s, v)
  PROVE  Recorded(s, v)
  BY DEF SyncTypeOK, Result, Recorded

(* What the look-up of one request comes to.                                 *)
LookedUp(s) ==
    \/ sync' = [sync EXCEPT !.at = "revoke", !.looking = s]
    \/ certs[s].state = "revoked" /\ Recorded(s, "revoked")
    \/ ~(CertificateBySerial(s) /\ CertificateIssuedByEndpoints(s)) /\ Recorded(s, "not found")

(* One request of the batch is looked up.                                     *)
LEMMA LookupEffect ==
  ASSUME SyncTypeOK, NEW s \in Serials, syncIntuneCAGroup(s)
  PROVE  LookedUp(s)
<1> DEFINE found == CertificateBySerial(s) /\ CertificateIssuedByEndpoints(s)
<1>1. CASE found /\ Revocable(s)
  BY <1>1 DEF syncIntuneCAGroup, LookedUp
<1>2. CASE found /\ ~Revocable(s)
  <2>1. certs[s].state = "revoked"
    BY <1>2 DEF CertificateBySerial, Revocable
  <2>2. sync' = Result(s, "revoked")
    BY <1>2 DEF syncIntuneCAGroup, classifyRevocation
  <2> QED
    BY <2>1, <2>2, ResultEffect DEF Verdicts, LookedUp
<1>3. CASE ~found
  <2>1. sync' = Result(s, "not found")
    BY <1>3 DEF syncIntuneCAGroup, classifyRevocation
  <2> QED
    BY <1>3, <2>1, ResultEffect DEF Verdicts, LookedUp
<1> QED
  BY <1>1, <1>2, <1>3

(* Each step keeps the types.                                               *)
LEMMA SyncTypeStep ==
    SyncTypeOK /\ [SyncNext]_syncVars
        => SyncTypeOK'
<1> SUFFICES ASSUME SyncTypeOK, [SyncNext]_syncVars
             PROVE SyncTypeOK'
  OBVIOUS
<1>1. ASSUME syncIntuneOrganization PROVE SyncTypeOK'
  BY ZenonT(30), <1>1 DEF syncIntuneOrganization, IntuneEndpoints, SyncTypeOK, NoSync, Verdicts
<1>2. ASSUME DownloadRevocations PROVE SyncTypeOK'
  BY ZenonT(30), <1>2 DEF DownloadRevocations, intuneIntegration, SyncTypeOK, NoSync, Verdicts
<1>3. ASSUME RevokeInBatch PROVE SyncTypeOK'
  BY <1>3 DEF RevokeInBatch, Result, Revocable, classifyRevocation, SyncTypeOK, NoSync, Verdicts
<1>4. ASSUME CommitSync PROVE SyncTypeOK'
  <2>1. RevokesBatch
    BY <1>4, CommitEffect
  <2>2. /\ sync.at = "commit" /\ sync' = [sync EXCEPT !.at = "upload", !.revoked = {}]
        /\ UNCHANGED <<endpoints, connected, queue, reported>>
    BY <1>4 DEF CommitSync
  <2> QED
    BY <2>1, <2>2 DEF RevokesBatch, SyncTypeOK, CertRow, CertStates, SyncEndpointRow, Verdicts
<1>5. ASSUME FailSync PROVE SyncTypeOK'
  BY <1>5 DEF FailSync, AfterFailure, SyncTypeOK, NoSync, Verdicts
<1>6. ASSUME UploadRevocations PROVE SyncTypeOK'
  BY <1>6 DEF UploadRevocations, SyncTypeOK, NoSync, Verdicts
<1>7. ASSUME ConnectIntuneTenant PROVE SyncTypeOK'
  BY <1>7 DEF ConnectIntuneTenant, SyncTypeOK, NoSync, Verdicts
<1>8. ASSUME DisconnectIntuneTenant PROVE SyncTypeOK'
  <2>1. /\ endpoints' \in [ScepEndpoints -> SyncEndpointRow]
        /\ \A e \in ScepEndpoints : endpoints'[e].row = endpoints[e].row
    BY <1>8, DisconnectEffect
  <2>2. connected' = FALSE /\ UNCHANGED <<certs, queue, reported, sync>>
    BY <1>8 DEF DisconnectIntuneTenant
  <2> QED
    BY <2>1, <2>2 DEF SyncTypeOK, CertRow, CertStates, SyncEndpointRow, Verdicts
<1>9. ASSUME NEW s \in Serials, NotifySuccess(s) PROVE SyncTypeOK'
  <2>1. \E v \in {"told", "issued"} : Moved(s, v)
    BY <1>9, NotifyEffect
  <2>2. certs[s].state = "none" /\ UNCHANGED <<endpoints, connected, queue, reported, sync>>
    BY <1>9 DEF NotifySuccess
  <2> QED
    BY <2>1, <2>2 DEF Moved, SyncTypeOK, CertRow, CertStates, SyncEndpointRow, Verdicts
<1>10. ASSUME NEW s \in Serials, CreateTransaction(s) PROVE SyncTypeOK'
  <2>1. \E v \in {"none", "issued"} : Moved(s, v)
    BY <1>10, CreateEffect
  <2>2. certs[s].state = "told" /\ UNCHANGED <<endpoints, connected, queue, reported, sync>>
    BY <1>10 DEF CreateTransaction
  <2> QED
    BY <2>1, <2>2 DEF Moved, SyncTypeOK, CertRow, CertStates, SyncEndpointRow, Verdicts
<1>11. ASSUME NEW s \in Serials, AskRevocation(s) PROVE SyncTypeOK'
  <2>1. Asked(s)
    BY <1>11, AskEffect
  <2>2. /\ certs[s].state # "none" /\ reported[s] = "none" /\ s \notin queue
        /\ queue' = queue \union {s} /\ UNCHANGED <<endpoints, connected, reported, sync>>
    BY <1>11 DEF AskRevocation
  <2> QED
    BY <2>1, <2>2 DEF Asked, SyncTypeOK, CertRow, CertStates, SyncEndpointRow, Verdicts
<1>12. ASSUME NEW s \in Serials, syncIntuneCAGroup(s) PROVE SyncTypeOK'
  BY <1>12
     DEF syncIntuneCAGroup, Result, classifyRevocation, CertificateBySerial,
         CertificateIssuedByEndpoints, Revocable, SyncTypeOK, NoSync, Verdicts
<1>13. ASSUME NEW s \in Serials, RevokeFromConsole(s) PROVE SyncTypeOK'
  <2>1. Moved(s, "revoked")
    BY <1>13, ConsoleEffect
  <2>2. certs[s].state = "issued" /\ UNCHANGED <<endpoints, connected, queue, reported, sync>>
    BY <1>13 DEF RevokeFromConsole, Revocable
  <2> QED
    BY <2>1, <2>2 DEF Moved, SyncTypeOK, CertRow, CertStates, SyncEndpointRow, Verdicts
<1>14. ASSUME NEW e \in ScepEndpoints, DeleteScepEndpoint(e) PROVE SyncTypeOK'
  <2>1. endpoints' \in [ScepEndpoints -> SyncEndpointRow]
    BY <1>14, EndpointSet DEF DeleteScepEndpoint
  <2>2. UNCHANGED <<connected, certs, queue, reported, sync>>
    BY <1>14 DEF DeleteScepEndpoint
  <2> QED
    BY <2>1, <2>2 DEF SyncTypeOK, CertRow, CertStates, SyncEndpointRow, Verdicts
<1>15. ASSUME NEW e \in ScepEndpoints, NEW on \in BOOLEAN, PauseEndpoint(e, on) PROVE SyncTypeOK'
  <2>1. endpoints' \in [ScepEndpoints -> SyncEndpointRow]
    BY <1>15, EndpointSet DEF PauseEndpoint
  <2>2. UNCHANGED <<connected, certs, queue, reported, sync>>
    BY <1>15 DEF PauseEndpoint
  <2> QED
    BY <2>1, <2>2 DEF SyncTypeOK, CertRow, CertStates, SyncEndpointRow, Verdicts
<1>16. ASSUME NEW e \in ScepEndpoints, NEW on \in BOOLEAN, SetIntuneMethod(e, on)
      PROVE  SyncTypeOK'
  <2>1. endpoints' \in [ScepEndpoints -> SyncEndpointRow]
    BY <1>16, EndpointSet DEF SetIntuneMethod
  <2>2. UNCHANGED <<connected, certs, queue, reported, sync>>
    BY <1>16 DEF SetIntuneMethod
  <2> QED
    BY <2>1, <2>2 DEF SyncTypeOK, CertRow, CertStates, SyncEndpointRow, Verdicts
<1>17. CASE UNCHANGED syncVars
  BY <1>17 DEF syncVars, SyncTypeOK, NoSync, Verdicts
<1> QED
  BY <1>1, <1>2, <1>3, <1>4, <1>5, <1>6, <1>7, <1>8, <1>9, <1>10, <1>11, <1>12, <1>13, <1>14,
     <1>15, <1>16, <1>17
     DEF SyncNext

(* Requests leave the queue with the pass that answered them.               *)
LEMMA QueueStep ==
    SyncTypeOK /\ BatchIsQueued /\ [SyncNext]_syncVars
        => BatchIsQueued'
<1> SUFFICES ASSUME SyncTypeOK /\ BatchIsQueued, [SyncNext]_syncVars
             PROVE BatchIsQueued'
  OBVIOUS
<1>1. ASSUME syncIntuneOrganization PROVE BatchIsQueued'
  BY <1>1 DEF syncIntuneOrganization, IntuneEndpoints, SyncTypeOK, NoSync, Verdicts, BatchIsQueued
<1>2. ASSUME DownloadRevocations PROVE BatchIsQueued'
  BY ZenonT(30), <1>2 DEF DownloadRevocations, intuneIntegration, SyncTypeOK, NoSync, Verdicts, BatchIsQueued
<1>3. ASSUME RevokeInBatch PROVE BatchIsQueued'
  BY <1>3
     DEF RevokeInBatch, Result, Revocable, classifyRevocation, SyncTypeOK, NoSync, Verdicts,
         BatchIsQueued
<1>4. ASSUME CommitSync PROVE BatchIsQueued'
  <2>1. RevokesBatch
    BY <1>4, CommitEffect
  <2>2. /\ sync.at = "commit" /\ sync' = [sync EXCEPT !.at = "upload", !.revoked = {}]
        /\ UNCHANGED <<endpoints, connected, queue, reported>>
    BY <1>4 DEF CommitSync
  <2> QED
    BY <2>1, <2>2 DEF RevokesBatch, SyncTypeOK, BatchIsQueued
<1>5. ASSUME FailSync PROVE BatchIsQueued'
  BY <1>5 DEF FailSync, AfterFailure, SyncTypeOK, NoSync, Verdicts, BatchIsQueued
<1>6. ASSUME UploadRevocations PROVE BatchIsQueued'
  BY <1>6 DEF UploadRevocations, SyncTypeOK, NoSync, Verdicts, BatchIsQueued
<1>7. ASSUME ConnectIntuneTenant PROVE BatchIsQueued'
  BY <1>7 DEF ConnectIntuneTenant, SyncTypeOK, NoSync, Verdicts, BatchIsQueued
<1>8. ASSUME DisconnectIntuneTenant PROVE BatchIsQueued'
  <2>1. /\ endpoints' \in [ScepEndpoints -> SyncEndpointRow]
        /\ \A e \in ScepEndpoints : endpoints'[e].row = endpoints[e].row
    BY <1>8, DisconnectEffect
  <2>2. connected' = FALSE /\ UNCHANGED <<certs, queue, reported, sync>>
    BY <1>8 DEF DisconnectIntuneTenant
  <2> QED
    BY <2>1, <2>2 DEF SyncTypeOK, BatchIsQueued
<1>9. ASSUME NEW s \in Serials, NotifySuccess(s) PROVE BatchIsQueued'
  <2>1. \E v \in {"told", "issued"} : Moved(s, v)
    BY <1>9, NotifyEffect
  <2>2. certs[s].state = "none" /\ UNCHANGED <<endpoints, connected, queue, reported, sync>>
    BY <1>9 DEF NotifySuccess
  <2> QED
    BY <2>1, <2>2 DEF Moved, SyncTypeOK, BatchIsQueued
<1>10. ASSUME NEW s \in Serials, CreateTransaction(s) PROVE BatchIsQueued'
  <2>1. \E v \in {"none", "issued"} : Moved(s, v)
    BY <1>10, CreateEffect
  <2>2. certs[s].state = "told" /\ UNCHANGED <<endpoints, connected, queue, reported, sync>>
    BY <1>10 DEF CreateTransaction
  <2> QED
    BY <2>1, <2>2 DEF Moved, SyncTypeOK, BatchIsQueued
<1>11. ASSUME NEW s \in Serials, AskRevocation(s) PROVE BatchIsQueued'
  <2>1. Asked(s)
    BY <1>11, AskEffect
  <2>2. /\ certs[s].state # "none" /\ reported[s] = "none" /\ s \notin queue
        /\ queue' = queue \union {s} /\ UNCHANGED <<endpoints, connected, reported, sync>>
    BY <1>11 DEF AskRevocation
  <2> QED
    BY ZenonT(30), <2>1, <2>2 DEF Asked, SyncTypeOK, BatchIsQueued
<1>12. ASSUME NEW s \in Serials, syncIntuneCAGroup(s) PROVE BatchIsQueued'
  BY <1>12
     DEF syncIntuneCAGroup, Result, classifyRevocation, CertificateBySerial,
         CertificateIssuedByEndpoints, Revocable, SyncTypeOK, NoSync, Verdicts, BatchIsQueued
<1>13. ASSUME NEW s \in Serials, RevokeFromConsole(s) PROVE BatchIsQueued'
  <2>1. Moved(s, "revoked")
    BY <1>13, ConsoleEffect
  <2>2. certs[s].state = "issued" /\ UNCHANGED <<endpoints, connected, queue, reported, sync>>
    BY <1>13 DEF RevokeFromConsole, Revocable
  <2> QED
    BY <2>1, <2>2 DEF Moved, SyncTypeOK, BatchIsQueued
<1>14. ASSUME NEW e \in ScepEndpoints, DeleteScepEndpoint(e) PROVE BatchIsQueued'
  BY <1>14 DEF DeleteScepEndpoint, SyncTypeOK, NoSync, Verdicts, BatchIsQueued
<1>15. ASSUME NEW e \in ScepEndpoints, NEW on \in BOOLEAN, PauseEndpoint(e, on)
      PROVE  BatchIsQueued'
  BY <1>15 DEF PauseEndpoint, SyncTypeOK, NoSync, Verdicts, BatchIsQueued
<1>16. ASSUME NEW e \in ScepEndpoints, NEW on \in BOOLEAN, SetIntuneMethod(e, on)
      PROVE  BatchIsQueued'
  BY <1>16 DEF SetIntuneMethod, SyncTypeOK, NoSync, Verdicts, BatchIsQueued
<1>17. CASE UNCHANGED syncVars
  BY <1>17 DEF syncVars, SyncTypeOK, NoSync, Verdicts, BatchIsQueued
<1> QED
  BY <1>1, <1>2, <1>3, <1>4, <1>5, <1>6, <1>7, <1>8, <1>9, <1>10, <1>11, <1>12, <1>13, <1>14,
     <1>15, <1>16, <1>17
     DEF SyncNext

(* A row the pass found revoked stays so, and one it revoked is revoked     *)
(* when it commits.                                                         *)
LEMMA ResultStep ==
    SyncTypeOK /\ ResultsAreTrue /\ [SyncNext]_syncVars
        => ResultsAreTrue'
<1> SUFFICES ASSUME SyncTypeOK /\ ResultsAreTrue, [SyncNext]_syncVars
             PROVE ResultsAreTrue'
  OBVIOUS
<1>1. ASSUME syncIntuneOrganization PROVE ResultsAreTrue'
  BY ZenonT(30), <1>1 DEF syncIntuneOrganization, IntuneEndpoints, SyncTypeOK, NoSync, Verdicts, ResultsAreTrue
<1>2. ASSUME DownloadRevocations PROVE ResultsAreTrue'
  BY <1>2 DEF DownloadRevocations, intuneIntegration, SyncTypeOK, NoSync, Verdicts, ResultsAreTrue
<1>3. ASSUME RevokeInBatch PROVE ResultsAreTrue'
  BY <1>3
     DEF RevokeInBatch, Result, Revocable, classifyRevocation, SyncTypeOK, NoSync, Verdicts,
         ResultsAreTrue
<1>4. ASSUME CommitSync PROVE ResultsAreTrue'
  <2>1. RevokesBatch
    BY <1>4, CommitEffect
  <2>2. /\ sync.at = "commit" /\ sync' = [sync EXCEPT !.at = "upload", !.revoked = {}]
        /\ UNCHANGED <<endpoints, connected, queue, reported>>
    BY <1>4 DEF CommitSync
  <2> QED
    BY <2>1, <2>2 DEF RevokesBatch, ResultsAreTrue
<1>5. ASSUME FailSync PROVE ResultsAreTrue'
  BY <1>5 DEF FailSync, AfterFailure, SyncTypeOK, NoSync, Verdicts, ResultsAreTrue
<1>6. ASSUME UploadRevocations PROVE ResultsAreTrue'
  BY <1>6 DEF UploadRevocations, SyncTypeOK, NoSync, Verdicts, ResultsAreTrue
<1>7. ASSUME ConnectIntuneTenant PROVE ResultsAreTrue'
  BY <1>7 DEF ConnectIntuneTenant, SyncTypeOK, NoSync, Verdicts, ResultsAreTrue
<1>8. ASSUME DisconnectIntuneTenant PROVE ResultsAreTrue'
  <2>1. /\ endpoints' \in [ScepEndpoints -> SyncEndpointRow]
        /\ \A e \in ScepEndpoints : endpoints'[e].row = endpoints[e].row
    BY <1>8, DisconnectEffect
  <2>2. connected' = FALSE /\ UNCHANGED <<certs, queue, reported, sync>>
    BY <1>8 DEF DisconnectIntuneTenant
  <2> QED
    BY <2>1, <2>2 DEF ResultsAreTrue
<1>9. ASSUME NEW s \in Serials, NotifySuccess(s) PROVE ResultsAreTrue'
  <2>1. \E v \in {"told", "issued"} : Moved(s, v)
    BY <1>9, NotifyEffect
  <2>2. certs[s].state = "none" /\ UNCHANGED <<endpoints, connected, queue, reported, sync>>
    BY <1>9 DEF NotifySuccess
  <2> QED
    BY <2>1, <2>2 DEF Moved, ResultsAreTrue
<1>10. ASSUME NEW s \in Serials, CreateTransaction(s) PROVE ResultsAreTrue'
  <2>1. \E v \in {"none", "issued"} : Moved(s, v)
    BY <1>10, CreateEffect
  <2>2. certs[s].state = "told" /\ UNCHANGED <<endpoints, connected, queue, reported, sync>>
    BY <1>10 DEF CreateTransaction
  <2> QED
    BY <2>1, <2>2 DEF Moved, ResultsAreTrue
<1>11. ASSUME NEW s \in Serials, AskRevocation(s) PROVE ResultsAreTrue'
  <2>1. Asked(s)
    BY <1>11, AskEffect
  <2>2. /\ certs[s].state # "none" /\ reported[s] = "none" /\ s \notin queue
        /\ queue' = queue \union {s} /\ UNCHANGED <<endpoints, connected, reported, sync>>
    BY <1>11 DEF AskRevocation
  <2> QED
    BY <2>1, <2>2 DEF Asked, ResultsAreTrue
<1>12. ASSUME NEW s \in Serials, syncIntuneCAGroup(s) PROVE ResultsAreTrue'
  <2>1. LookedUp(s)
    BY <1>12, LookupEffect
  <2>2. sync.at = "classify" /\ certs' = certs
    BY <1>12 DEF syncIntuneCAGroup
  <2> QED
    BY ZenonT(30), <2>1, <2>2 DEF LookedUp, Recorded, ResultsAreTrue, SyncTypeOK
<1>13. ASSUME NEW s \in Serials, RevokeFromConsole(s) PROVE ResultsAreTrue'
  <2>1. Moved(s, "revoked")
    BY <1>13, ConsoleEffect
  <2>2. certs[s].state = "issued" /\ UNCHANGED <<endpoints, connected, queue, reported, sync>>
    BY <1>13 DEF RevokeFromConsole, Revocable
  <2> QED
    BY <2>1, <2>2 DEF Moved, ResultsAreTrue
<1>14. ASSUME NEW e \in ScepEndpoints, DeleteScepEndpoint(e) PROVE ResultsAreTrue'
  BY <1>14 DEF DeleteScepEndpoint, SyncTypeOK, NoSync, Verdicts, ResultsAreTrue
<1>15. ASSUME NEW e \in ScepEndpoints, NEW on \in BOOLEAN, PauseEndpoint(e, on)
      PROVE  ResultsAreTrue'
  BY <1>15 DEF PauseEndpoint, SyncTypeOK, NoSync, Verdicts, ResultsAreTrue
<1>16. ASSUME NEW e \in ScepEndpoints, NEW on \in BOOLEAN, SetIntuneMethod(e, on)
      PROVE  ResultsAreTrue'
  BY <1>16 DEF SetIntuneMethod, SyncTypeOK, NoSync, Verdicts, ResultsAreTrue
<1>17. CASE UNCHANGED syncVars
  BY <1>17 DEF syncVars, SyncTypeOK, NoSync, Verdicts, ResultsAreTrue
<1> QED
  BY <1>1, <1>2, <1>3, <1>4, <1>5, <1>6, <1>7, <1>8, <1>9, <1>10, <1>11, <1>12, <1>13, <1>14,
     <1>15, <1>16, <1>17
     DEF SyncNext

(* Neither the owner of a certificate nor the time of its request changes   *)
(* under the pass.                                                          *)
LEMMA NotFoundStep ==
    SyncTypeOK /\ BatchIsQueued /\ NotFoundIsForeign /\ [SyncNext]_syncVars
        => NotFoundIsForeign'
<1> SUFFICES ASSUME SyncTypeOK /\ BatchIsQueued /\ NotFoundIsForeign, [SyncNext]_syncVars
             PROVE NotFoundIsForeign'
  OBVIOUS
<1>1. ASSUME syncIntuneOrganization PROVE NotFoundIsForeign'
  <2>1. PICK polled \in SUBSET ScepEndpoints :
          /\ IntuneEndpoints(polled)
          /\ sync' = [sync EXCEPT !.at = "listed", !.group = polled,
                                 !.ready = {e \in ScepEndpoints : IssuesThroughIntune(e)}]
    BY <1>1 DEF syncIntuneOrganization
  <2>2. sync.at = "idle" /\ UNCHANGED <<certs, endpoints>>
    BY <1>1 DEF syncIntuneOrganization
  <2>3. sync'.ready = sync'.group /\ sync'.results = sync.results
    BY <2>1 DEF IntuneEndpoints, SyncTypeOK
  <2>4. sync.results = [s \in Serials |-> "none"]
    BY <2>2 DEF BatchIsQueued, NoSync
  <2> QED
    BY <2>2, <2>3, <2>4 DEF NotFoundIsForeign
<1>2. ASSUME DownloadRevocations PROVE NotFoundIsForeign'
  BY <1>2
     DEF DownloadRevocations, intuneIntegration, SyncTypeOK, NoSync, Verdicts, BatchIsQueued,
         NotFoundIsForeign
<1>3. ASSUME RevokeInBatch PROVE NotFoundIsForeign'
  BY <1>3
     DEF RevokeInBatch, Result, Revocable, classifyRevocation, SyncTypeOK, NoSync, Verdicts,
         BatchIsQueued, NotFoundIsForeign
<1>4. ASSUME CommitSync PROVE NotFoundIsForeign'
  <2>1. RevokesBatch
    BY <1>4, CommitEffect
  <2>2. /\ sync.at = "commit" /\ sync' = [sync EXCEPT !.at = "upload", !.revoked = {}]
        /\ UNCHANGED <<endpoints, connected, queue, reported>>
    BY <1>4 DEF CommitSync
  <2> QED
    BY ZenonT(30), <2>1, <2>2 DEF RevokesBatch, NotFoundIsForeign, SyncTypeOK
<1>5. ASSUME FailSync PROVE NotFoundIsForeign'
  BY <1>5 DEF FailSync, AfterFailure, SyncTypeOK, NoSync, Verdicts, BatchIsQueued, NotFoundIsForeign
<1>6. ASSUME UploadRevocations PROVE NotFoundIsForeign'
  BY <1>6 DEF UploadRevocations, SyncTypeOK, NoSync, Verdicts, BatchIsQueued, NotFoundIsForeign
<1>7. ASSUME ConnectIntuneTenant PROVE NotFoundIsForeign'
  BY <1>7 DEF ConnectIntuneTenant, SyncTypeOK, NoSync, Verdicts, BatchIsQueued, NotFoundIsForeign
<1>8. ASSUME DisconnectIntuneTenant PROVE NotFoundIsForeign'
  <2>1. /\ endpoints' \in [ScepEndpoints -> SyncEndpointRow]
        /\ \A e \in ScepEndpoints : endpoints'[e].row = endpoints[e].row
    BY <1>8, DisconnectEffect
  <2>2. connected' = FALSE /\ UNCHANGED <<certs, queue, reported, sync>>
    BY <1>8 DEF DisconnectIntuneTenant
  <2> QED
    BY <2>1, <2>2 DEF NotFoundIsForeign, SyncTypeOK
<1>9. ASSUME NEW s \in Serials, NotifySuccess(s) PROVE NotFoundIsForeign'
  <2>1. \E v \in {"told", "issued"} : Moved(s, v)
    BY <1>9, NotifyEffect
  <2>2. certs[s].state = "none" /\ UNCHANGED <<endpoints, connected, queue, reported, sync>>
    BY <1>9 DEF NotifySuccess
  <2> QED
    BY <2>1, <2>2 DEF Moved, NotFoundIsForeign
<1>10. ASSUME NEW s \in Serials, CreateTransaction(s) PROVE NotFoundIsForeign'
  <2>1. \E v \in {"none", "issued"} : Moved(s, v)
    BY <1>10, CreateEffect
  <2>2. certs[s].state = "told" /\ UNCHANGED <<endpoints, connected, queue, reported, sync>>
    BY <1>10 DEF CreateTransaction
  <2> QED
    BY <2>1, <2>2 DEF Moved, NotFoundIsForeign
<1>11. ASSUME NEW s \in Serials, AskRevocation(s) PROVE NotFoundIsForeign'
  <2>1. Asked(s)
    BY <1>11, AskEffect
  <2>2. /\ certs[s].state # "none" /\ reported[s] = "none" /\ s \notin queue
        /\ queue' = queue \union {s} /\ UNCHANGED <<endpoints, connected, reported, sync>>
    BY <1>11 DEF AskRevocation
  <2> QED
    BY <2>1, <2>2 DEF Asked, NotFoundIsForeign, BatchIsQueued
<1>12. ASSUME NEW s \in Serials, syncIntuneCAGroup(s) PROVE NotFoundIsForeign'
  <2>1. LookedUp(s)
    BY <1>12, LookupEffect
  <2>2. s \in queue /\ UNCHANGED <<certs, endpoints>>
    BY <1>12 DEF syncIntuneCAGroup, BatchIsQueued
  <2>3. CASE sync' = [sync EXCEPT !.at = "revoke", !.looking = s]
    BY <2>2, <2>3 DEF NotFoundIsForeign, SyncTypeOK
  <2>4. CASE Recorded(s, "revoked")
    BY <2>2, <2>4 DEF Recorded, NotFoundIsForeign
  <2>5. CASE /\ ~(CertificateBySerial(s) /\ CertificateIssuedByEndpoints(s))
             /\ Recorded(s, "not found")
    <3>1. certs[s].late \/ CertificateBySerial(s)
      BY <2>2 DEF BatchIsQueued, CertificateBySerial
    <3>2. CertificateIssuedByEndpoints(s) \/ certs[s].owner \notin sync.group
          \/ endpoints[certs[s].owner].row = "deleted"
      BY DEF CertificateIssuedByEndpoints, SyncTypeOK
    <3> QED
      BY <2>2, <2>5, <3>1, <3>2 DEF Recorded, NotFoundIsForeign
  <2> QED
    BY <2>1, <2>3, <2>4, <2>5 DEF LookedUp
<1>13. ASSUME NEW s \in Serials, RevokeFromConsole(s) PROVE NotFoundIsForeign'
  <2>1. Moved(s, "revoked")
    BY <1>13, ConsoleEffect
  <2>2. certs[s].state = "issued" /\ UNCHANGED <<endpoints, connected, queue, reported, sync>>
    BY <1>13 DEF RevokeFromConsole, Revocable
  <2> QED
    BY <2>1, <2>2 DEF Moved, NotFoundIsForeign
<1>14. ASSUME NEW e \in ScepEndpoints, DeleteScepEndpoint(e) PROVE NotFoundIsForeign'
  BY <1>14 DEF DeleteScepEndpoint, SyncTypeOK, NoSync, Verdicts, BatchIsQueued, NotFoundIsForeign
<1>15. ASSUME NEW e \in ScepEndpoints, NEW on \in BOOLEAN, PauseEndpoint(e, on)
      PROVE  NotFoundIsForeign'
  BY <1>15 DEF PauseEndpoint, SyncTypeOK, NoSync, Verdicts, BatchIsQueued, NotFoundIsForeign
<1>16. ASSUME NEW e \in ScepEndpoints, NEW on \in BOOLEAN, SetIntuneMethod(e, on)
      PROVE  NotFoundIsForeign'
  BY <1>16 DEF SetIntuneMethod, SyncTypeOK, NoSync, Verdicts, BatchIsQueued, NotFoundIsForeign
<1>17. CASE UNCHANGED syncVars
  BY <1>17 DEF syncVars, SyncTypeOK, NoSync, Verdicts, BatchIsQueued, NotFoundIsForeign
<1> QED
  BY <1>1, <1>2, <1>3, <1>4, <1>5, <1>6, <1>7, <1>8, <1>9, <1>10, <1>11, <1>12, <1>13, <1>14,
     <1>15, <1>16, <1>17
     DEF SyncNext

(* A final answer is uploaded after its COMMIT.                             *)
LEMMA ReportStep ==
    SyncTypeOK /\ ResultsAreTrue /\ ReportedRevokedIsRevoked /\ [SyncNext]_syncVars
        => ReportedRevokedIsRevoked'
<1> SUFFICES ASSUME SyncTypeOK /\ ResultsAreTrue /\ ReportedRevokedIsRevoked, [SyncNext]_syncVars
             PROVE ReportedRevokedIsRevoked'
  OBVIOUS
<1>1. ASSUME syncIntuneOrganization PROVE ReportedRevokedIsRevoked'
  BY <1>1
     DEF syncIntuneOrganization, IntuneEndpoints, SyncTypeOK, NoSync, Verdicts, ResultsAreTrue,
         ReportedRevokedIsRevoked
<1>2. ASSUME DownloadRevocations PROVE ReportedRevokedIsRevoked'
  BY <1>2
     DEF DownloadRevocations, intuneIntegration, SyncTypeOK, NoSync, Verdicts, ResultsAreTrue,
         ReportedRevokedIsRevoked
<1>3. ASSUME RevokeInBatch PROVE ReportedRevokedIsRevoked'
  BY <1>3
     DEF RevokeInBatch, Result, Revocable, classifyRevocation, SyncTypeOK, NoSync, Verdicts,
         ResultsAreTrue, ReportedRevokedIsRevoked
<1>4. ASSUME CommitSync PROVE ReportedRevokedIsRevoked'
  <2>1. RevokesBatch
    BY <1>4, CommitEffect
  <2>2. /\ sync.at = "commit" /\ sync' = [sync EXCEPT !.at = "upload", !.revoked = {}]
        /\ UNCHANGED <<endpoints, connected, queue, reported>>
    BY <1>4 DEF CommitSync
  <2> QED
    BY <2>1, <2>2 DEF RevokesBatch, ReportedRevokedIsRevoked
<1>5. ASSUME FailSync PROVE ReportedRevokedIsRevoked'
  BY <1>5
     DEF FailSync, AfterFailure, SyncTypeOK, NoSync, Verdicts, ResultsAreTrue,
         ReportedRevokedIsRevoked
<1>6. ASSUME UploadRevocations PROVE ReportedRevokedIsRevoked'
  BY <1>6
     DEF UploadRevocations, SyncTypeOK, NoSync, Verdicts, ResultsAreTrue,
         ReportedRevokedIsRevoked
<1>7. ASSUME ConnectIntuneTenant PROVE ReportedRevokedIsRevoked'
  BY <1>7
     DEF ConnectIntuneTenant, SyncTypeOK, NoSync, Verdicts, ResultsAreTrue,
         ReportedRevokedIsRevoked
<1>8. ASSUME DisconnectIntuneTenant PROVE ReportedRevokedIsRevoked'
  <2>1. /\ endpoints' \in [ScepEndpoints -> SyncEndpointRow]
        /\ \A e \in ScepEndpoints : endpoints'[e].row = endpoints[e].row
    BY <1>8, DisconnectEffect
  <2>2. connected' = FALSE /\ UNCHANGED <<certs, queue, reported, sync>>
    BY <1>8 DEF DisconnectIntuneTenant
  <2> QED
    BY <2>1, <2>2 DEF ReportedRevokedIsRevoked
<1>9. ASSUME NEW s \in Serials, NotifySuccess(s) PROVE ReportedRevokedIsRevoked'
  <2>1. \E v \in {"told", "issued"} : Moved(s, v)
    BY <1>9, NotifyEffect
  <2>2. certs[s].state = "none" /\ UNCHANGED <<endpoints, connected, queue, reported, sync>>
    BY <1>9 DEF NotifySuccess
  <2> QED
    BY <2>1, <2>2 DEF Moved, ReportedRevokedIsRevoked
<1>10. ASSUME NEW s \in Serials, CreateTransaction(s) PROVE ReportedRevokedIsRevoked'
  <2>1. \E v \in {"none", "issued"} : Moved(s, v)
    BY <1>10, CreateEffect
  <2>2. certs[s].state = "told" /\ UNCHANGED <<endpoints, connected, queue, reported, sync>>
    BY <1>10 DEF CreateTransaction
  <2> QED
    BY <2>1, <2>2 DEF Moved, ReportedRevokedIsRevoked
<1>11. ASSUME NEW s \in Serials, AskRevocation(s) PROVE ReportedRevokedIsRevoked'
  <2>1. Asked(s)
    BY <1>11, AskEffect
  <2>2. /\ certs[s].state # "none" /\ reported[s] = "none" /\ s \notin queue
        /\ queue' = queue \union {s} /\ UNCHANGED <<endpoints, connected, reported, sync>>
    BY <1>11 DEF AskRevocation
  <2> QED
    BY <2>1, <2>2 DEF Asked, ReportedRevokedIsRevoked
<1>12. ASSUME NEW s \in Serials, syncIntuneCAGroup(s) PROVE ReportedRevokedIsRevoked'
  BY <1>12
     DEF syncIntuneCAGroup, Result, classifyRevocation, CertificateBySerial,
         CertificateIssuedByEndpoints, Revocable, SyncTypeOK, NoSync, Verdicts, ResultsAreTrue,
         ReportedRevokedIsRevoked
<1>13. ASSUME NEW s \in Serials, RevokeFromConsole(s) PROVE ReportedRevokedIsRevoked'
  <2>1. Moved(s, "revoked")
    BY <1>13, ConsoleEffect
  <2>2. certs[s].state = "issued" /\ UNCHANGED <<endpoints, connected, queue, reported, sync>>
    BY <1>13 DEF RevokeFromConsole, Revocable
  <2> QED
    BY <2>1, <2>2 DEF Moved, ReportedRevokedIsRevoked
<1>14. ASSUME NEW e \in ScepEndpoints, DeleteScepEndpoint(e) PROVE ReportedRevokedIsRevoked'
  BY <1>14
     DEF DeleteScepEndpoint, SyncTypeOK, NoSync, Verdicts, ResultsAreTrue,
         ReportedRevokedIsRevoked
<1>15. ASSUME NEW e \in ScepEndpoints, NEW on \in BOOLEAN, PauseEndpoint(e, on)
      PROVE  ReportedRevokedIsRevoked'
  BY <1>15 DEF PauseEndpoint, SyncTypeOK, NoSync, Verdicts, ResultsAreTrue, ReportedRevokedIsRevoked
<1>16. ASSUME NEW e \in ScepEndpoints, NEW on \in BOOLEAN, SetIntuneMethod(e, on)
      PROVE  ReportedRevokedIsRevoked'
  BY <1>16
     DEF SetIntuneMethod, SyncTypeOK, NoSync, Verdicts, ResultsAreTrue, ReportedRevokedIsRevoked
<1>17. CASE UNCHANGED syncVars
  BY <1>17 DEF syncVars, SyncTypeOK, NoSync, Verdicts, ResultsAreTrue, ReportedRevokedIsRevoked
<1> QED
  BY <1>1, <1>2, <1>3, <1>4, <1>5, <1>6, <1>7, <1>8, <1>9, <1>10, <1>11, <1>12, <1>13, <1>14,
     <1>15, <1>16, <1>17
     DEF SyncNext


(* intune_worker.go: what Microsoft takes as final of a certificate is so,    *)
(* whether a pass failed, was repeated or met the console; only a certificate *)
(* of an endpoint that was off as the pass began, of none, or of an enrolment *)
(* not committed yet is given up although it may be valid.                    *)
THEOREM TruthIsReported == SyncSpec => []AnswersAreTrue
<1>1. SyncInit => SyncInv
  <2> SUFFICES ASSUME SyncInit PROVE SyncInv
    OBVIOUS
  <2> USE DEF SyncInit, NoSync, Verdicts
  <2>1. SyncTypeOK
    BY DEF SyncTypeOK
  <2>2. BatchIsQueued /\ ResultsAreTrue /\ NotFoundIsForeign
    BY DEF BatchIsQueued, ResultsAreTrue, NotFoundIsForeign
  <2>3. ReportedRevokedIsRevoked
    BY DEF ReportedRevokedIsRevoked
  <2> QED
    BY <2>1, <2>2, <2>3 DEF SyncInv
<1>2. SyncInv /\ [SyncNext]_syncVars => SyncInv'
  BY SyncTypeStep, QueueStep, ResultStep, NotFoundStep, ReportStep DEF SyncInv
<1>3. SyncInv => AnswersAreTrue
  BY DEF SyncInv, NotFoundIsForeign, LeftOut, AnswersForSiblings, AnswersAreTrue
<1> QED
  BY <1>1, <1>2, <1>3, PTL DEF SyncSpec

----------------------------------------------------------------------------
(* ScepConfig.                                                               *)

ListingRow == [row : {"none", "live", "deleted"}, title : Titles \union {NoTitle}, enabled : BOOLEAN,
               on : SUBSET Switches, ready : SUBSET {"static", "jamf"}]
AdminRow == [at : {"idle", "issue", "protect", "delete", "enable", "policy", "switch", "challenge"},
             id : Listings \union {0}, title : Titles \union {NoTitle}, switch : Switches,
             on : BOOLEAN, missed : SUBSET {"jamf", "one_time", "directory"}]

(* A switch that was read to be possible is so still, or the request is noted *)
(* to have missed the change.                                                 *)
SwitchFits(d) ==
    LET row == listings[d.id]
    IN /\ \A x \in d.missed : <<d.switch, x>> \in Crossings
       /\ d.on /\ d.switch = "intune" => directory \/ "directory" \in d.missed
       /\ row.row = "live" =>
            /\ d.on /\ d.switch \in {"static", "jamf"} => d.switch \in row.ready
            /\ d.on /\ d.switch = "jamf" => "one_time" \in row.on \/ "one_time" \in d.missed
            /\ ~d.on /\ d.switch = "one_time" => "jamf" \notin row.on \/ "jamf" \in d.missed

(* An endpoint that is being created has no row yet, any other has had one.   *)
AdminFits(d) ==
    /\ d.at # "idle" => d.id \in Listings
    /\ d.at \in {"issue", "protect"} => listings[d.id].row = "none"
    /\ d.at \in {"delete", "enable", "policy", "switch", "challenge"} => listings[d.id].row # "none"
    /\ d.at = "switch" => SwitchFits(d)

(* And it is of one request.                                                  *)
CreatesAlone ==
    \A a, b \in Admins : a # b /\ admins[a].at \in {"issue", "protect"} => admins[a].id # admins[b].id

ConfigInv ==
    /\ ConfigTypeOK /\ NamesDiffer /\ JamfHasOneTime /\ OnIsUsable /\ ChallengeHasEndpoint
    /\ \A a \in Admins : AdminFits(admins[a])
    /\ CreatesAlone

(* A set of naturals that is not empty has a least member.                    *)
LEMMA LeastIsIn ==
  ASSUME NEW S, S \subseteq Nat, S # {}
  PROVE  Least(S) \in S
<1>1. \E m \in S : \A o \in S : ~(<<o, m>> \in OpToRel(<, Nat))
  BY NatLessThanWellFounded, WFMin
<1>2. \E m \in S : \A o \in S : ~(o < m)
  BY <1>1 DEF OpToRel
<1>3. \E m \in S : \A o \in S : m <= o
  BY <1>2
<1> QED
  BY <1>3 DEF Least

(* Every row of the tables has its type.                                      *)
LEMMA RowsAre ==
  ASSUME ConfigInv
  PROVE  /\ listings \in [Listings -> ListingRow] /\ admins \in [Admins -> AdminRow]
         /\ \A l \in Listings : listings[l] \in ListingRow
         /\ \A a \in Admins : admins[a] \in AdminRow /\ AdminFits(admins[a])
  BY DEF ConfigInv, ConfigTypeOK, ListingRow, AdminRow

(* A request that is over is a row of its own.                                *)
LEMMA NoAdminFits ==
  /\ NoAdmin \in AdminRow /\ NoAdmin.at = "idle" /\ NoAdmin.id = 0 /\ NoAdmin.title = NoTitle
  /\ NoAdmin.switch = "static" /\ NoAdmin.on = FALSE /\ NoAdmin.missed = {}
<1>1. NoAdmin \in AdminRow
  BY Zenon DEF NoAdmin, AdminRow, Switches
<1> QED
  BY <1>1 DEF NoAdmin

(* An endpoint that was never created has nothing switched on.                *)
LEMMA NoListingFits ==
  /\ NoListing \in ListingRow /\ NoListing.row = "none" /\ NoListing.on = {} /\ NoListing.ready = {}
<1>1. NoListing \in ListingRow
  BY Zenon DEF NoListing, ListingRow
<1> QED
  BY <1>1 DEF NoListing

(* What writes to others' endpoints may do: a row stays one, secrets stay,    *)
(* and of a method that is switched the readers are noted.                    *)
RowMoves(l, what) ==
    /\ listings[l].row = "none" <=> listings'[l].row = "none"
    /\ listings'[l].row = "live" =>
         /\ listings[l].row = "live" /\ listings[l].ready \subseteq listings'[l].ready
         /\ "one_time" \in listings[l].on => "one_time" \in listings'[l].on \/ "one_time" \in what
         /\ "jamf" \in listings'[l].on => "jamf" \in listings[l].on \/ "jamf" \in what

(* A request goes on as it is, with what it missed.                           *)
LEMMA AdminStays ==
  ASSUME ConfigInv, NEW what, NEW d \in AdminRow, AdminFits(d), NEW e \in AdminRow,
         e.at = d.at, e.id = d.id, e.switch = d.switch, e.on = d.on,
         d.at = "switch" => e.missed = d.missed \union {x \in what : <<d.switch, x>> \in Crossings},
         d.at # "idle" => RowMoves(d.id, what),
         directory => directory' \/ "directory" \in what
  PROVE  AdminFits(e)'
<1>1. ASSUME d.at = "switch" PROVE SwitchFits(e)'
  <2>1. SwitchFits(d) /\ RowMoves(d.id, what)
    BY <1>1 DEF AdminFits
  <2>2. /\ <<"jamf", "one_time">> \in Crossings /\ <<"one_time", "jamf">> \in Crossings
        /\ <<"intune", "directory">> \in Crossings
    BY DEF Crossings
  <2>3. /\ \A x \in e.missed : <<e.switch, x>> \in Crossings
        /\ d.missed \subseteq e.missed
        /\ \A x \in what : <<d.switch, x>> \in Crossings => x \in e.missed
    BY <1>1, <2>1 DEF SwitchFits
  <2> QED
    BY <2>1, <2>2, <2>3 DEF SwitchFits, RowMoves
<1> QED
  BY <1>1 DEF AdminFits, RowMoves

(* A request takes a step of its own; at most rows of challenges and RA       *)
(* certificates are written.                                                  *)
LEMMA AdminMoves ==
  ASSUME ConfigInv, NEW a \in Admins, NEW w \in AdminRow, AdminFits(w),
         admins' = [admins EXCEPT ![a] = w],
         UNCHANGED <<concern, listings, directory, crossed>>,
         raCertificates' \subseteq Listings, raCertificates \subseteq raCertificates',
         minted' \in [Minted -> Listings \union {0}],
         \A c \in Minted : minted'[c] # minted[c] /\ minted'[c] # 0 => LiveListing(minted'[c]),
         \A b \in Admins \ {a} :
           /\ w.at \in {"issue", "protect"} => w.id # admins[b].id
           /\ admins[b].at \in {"issue", "protect"} => admins[b].id # w.id
  PROVE  ConfigInv'
<1>1. /\ admins' \in [Admins -> AdminRow] /\ admins'[a] = w
      /\ \A b \in Admins \ {a} : admins'[b] = admins[b]
  BY RowsAre
<1>2. ConfigTypeOK'
  BY <1>1 DEF ConfigInv, ConfigTypeOK, AdminRow
<1>3. NamesDiffer' /\ JamfHasOneTime' /\ OnIsUsable'
  BY DEF ConfigInv, NamesDiffer, JamfHasOneTime, OnIsUsable, LiveListing, Configured
<1>4. ChallengeHasEndpoint'
  BY DEF ConfigInv, ChallengeHasEndpoint, LiveListing
<1>5. ASSUME NEW b \in Admins, NEW v, v = admins'[b] PROVE AdminFits(v)'
  <2>1. AdminFits(v)
    BY <1>1, <1>5, RowsAre
  <2> QED
    BY <2>1 DEF AdminFits, SwitchFits
<1>6. CreatesAlone'
  <2>1. ASSUME NEW b \in Admins, NEW c \in Admins, b # c, admins'[b].at \in {"issue", "protect"}
        PROVE  admins'[b].id # admins'[c].id
    <3>1. CASE b = a
      <4>1. admins'[b] = w /\ c \in Admins \ {a} /\ admins'[c] = admins[c]
        BY <1>1, <2>1, <3>1
      <4> QED
        BY <2>1, <4>1
    <3>2. CASE c = a
      <4>1. admins'[c] = w /\ b \in Admins \ {a} /\ admins'[b] = admins[b]
        BY <1>1, <2>1, <3>2
      <4> QED
        BY <2>1, <4>1
    <3> QED
      BY <1>1, <2>1, <3>1, <3>2 DEF ConfigInv, CreatesAlone
  <2> QED
    BY <2>1 DEF CreatesAlone
<1> QED
  BY <1>2, <1>3, <1>4, <1>5, <1>6 DEF ConfigInv

(* A request that ends, or that has only read, fits.                          *)
LEMMA AdminEnds ==
  ASSUME ConfigInv, NEW a \in Admins, admins' = [admins EXCEPT ![a] = NoAdmin],
         UNCHANGED <<concern, listings, directory, crossed>>,
         raCertificates' \subseteq Listings, raCertificates \subseteq raCertificates',
         minted' \in [Minted -> Listings \union {0}],
         \A c \in Minted : minted'[c] # minted[c] /\ minted'[c] # 0 => LiveListing(minted'[c])
  PROVE  ConfigInv'
<1>1. AdminFits(NoAdmin)
  BY NoAdminFits DEF AdminFits
<1>2. \A b \in Admins : admins[b].at \in {"issue", "protect"} => admins[b].id # 0
  BY RowsAre, ConfigAssumption DEF AdminFits
<1> QED
  BY <1>1, <1>2, NoAdminFits, AdminMoves

(* A request that read a live endpoint goes on to write what fits it.         *)
LEMMA AdminReads ==
  ASSUME ConfigInv, NEW a \in Admins, NEW l \in Listings, LiveListing(l),
         NEW w \in AdminRow, w.id = l, w.at \in {"delete", "enable", "policy", "switch", "challenge"},
         w.at = "switch" => SwitchFits(w), Reads(a, w)
  PROVE  ConfigInv'
<1>1. AdminFits(w)
  BY DEF AdminFits, LiveListing
<1>2. \A b \in Admins : admins[b].at \in {"issue", "protect"} => admins[b].id # l
  BY RowsAre DEF AdminFits, LiveListing
<1>3. w.at \notin {"issue", "protect"}
  OBVIOUS
<1>4. /\ raCertificates \subseteq Listings /\ minted \in [Minted -> Listings \union {0}]
      /\ admins' = [admins EXCEPT ![a] = w]
      /\ UNCHANGED <<concern, listings, directory, minted, raCertificates, crossed>>
  BY DEF ConfigInv, ConfigTypeOK, Reads
<1> QED
  BY <1>1, <1>2, <1>3, <1>4, AdminMoves

(* The new endpoint's row is nobody else's.                                   *)
LEMMA Creates ==
  ASSUME ConfigInv, NEW a \in Admins, NEW t \in Titles \union {NoTitle}, createEndpoint(a, t)
  PROVE  ConfigInv'
<1>1. Least(Unused) \in Unused
  BY LeastIsIn, ConfigAssumption DEF createEndpoint, Unused
<1>2. PICK l : l = Least(Unused)
  OBVIOUS
<1>3. l \in Listings /\ listings[l].row = "none" /\ \A b \in Admins : admins[b].id # l
  BY <1>1, <1>2 DEF Unused
<1>4. PICK w : w = [NoAdmin EXCEPT !.at = "issue", !.id = l, !.title = t]
  OBVIOUS
<1>5. w \in AdminRow
  BY <1>3, <1>4, NoAdminFits, Zenon DEF AdminRow
<1>6. w.at = "issue" /\ w.id = l
  BY <1>4, NoAdminFits DEF AdminRow
<1>7. AdminFits(w)
  BY <1>3, <1>6 DEF AdminFits
<1>8. /\ raCertificates \subseteq Listings /\ minted \in [Minted -> Listings \union {0}]
      /\ admins' = [admins EXCEPT ![a] = w]
      /\ UNCHANGED <<concern, listings, directory, minted, raCertificates, crossed>>
  BY <1>2, <1>4 DEF ConfigInv, ConfigTypeOK, createEndpoint
<1> QED
  BY <1>3, <1>5, <1>6, <1>7, <1>8, AdminMoves

(* The certificate of a new endpoint is issued before its row is written.     *)
LEMMA Issues ==
  ASSUME ConfigInv, NEW a \in Admins, IssueRA(a)
  PROVE  ConfigInv'
<1>1. PICK w : w = [admins[a] EXCEPT !.at = "protect"]
  OBVIOUS
<1>2. admins[a] \in AdminRow /\ AdminFits(admins[a]) /\ admins[a].at = "issue"
  BY RowsAre DEF IssueRA
<1>3. w \in AdminRow
  BY <1>1, <1>2, Zenon DEF AdminRow
<1>4. w.at = "protect" /\ w.id = admins[a].id
  BY <1>1, <1>2 DEF AdminRow
<1>5. AdminFits(w)
  BY <1>2, <1>4 DEF AdminFits
<1>6. /\ raCertificates \subseteq Listings /\ minted \in [Minted -> Listings \union {0}]
      /\ admins' = [admins EXCEPT ![a] = w]
      /\ UNCHANGED <<concern, listings, directory, minted, raCertificates, crossed>>
  BY <1>1, RowsAre DEF ConfigInv, ConfigTypeOK, IssueRA
<1>7. \A b \in Admins \ {a} : w.id # admins[b].id
  BY <1>2, <1>4 DEF ConfigInv, CreatesAlone
<1> QED
  BY ZenonT(30), <1>3, <1>4, <1>5, <1>6, <1>7, AdminMoves

(* The name is still free when the row is inserted.                           *)
LEMMA Inserts ==
  ASSUME ConfigInv, NEW a \in Admins, InsertEndpoint(a)
  PROVE  ConfigInv'
<1> DEFINE l == admins[a].id
<1>1. /\ admins[a] \in AdminRow /\ admins[a].at = "protect" /\ l \in Listings /\ listings[l].row = "none"
      /\ admins[a].title \in Titles \union {NoTitle}
  BY RowsAre DEF InsertEndpoint, AdminFits, AdminRow
<1>2. admins' = [admins EXCEPT ![a] = NoAdmin] /\ UNCHANGED <<concern, directory, minted, crossed>>
  BY DEF InsertEndpoint
<1>3. raCertificates \subseteq Listings /\ minted \in [Minted -> Listings \union {0}]
  BY DEF ConfigInv, ConfigTypeOK
<1>4. CASE Taken(admins[a].title)
  BY <1>2, <1>3, <1>4, AdminEnds DEF InsertEndpoint
<1>5. CASE ~Taken(admins[a].title)
  <2>1. PICK w : w = SeedAuthMethods(l, admins[a].title)
    OBVIOUS
  <2>2. w \in ListingRow
    BY <1>1, <2>1, NoListingFits, Zenon DEF SeedAuthMethods, ListingRow
  <2>3. w.row = "live" /\ w.title = admins[a].title /\ w.on = {}
    BY <2>1, NoListingFits DEF SeedAuthMethods, ListingRow
  <2>4. /\ listings' = [listings EXCEPT ![l] = w]
        /\ raCertificates' = raCertificates \union {l}
    BY <1>5, <2>1 DEF InsertEndpoint, RecordRA
  <2>5. /\ listings' \in [Listings -> ListingRow] /\ listings'[l] = w
        /\ \A k \in Listings \ {l} : listings'[k] = listings[k]
    BY <1>1, <2>2, <2>4, RowsAre
  <2>6. /\ admins' \in [Admins -> AdminRow] /\ admins'[a] = NoAdmin
        /\ \A b \in Admins \ {a} : admins'[b] = admins[b]
    BY <1>2, RowsAre, NoAdminFits
  <2>7. ConfigTypeOK'
    <3>1. listings' \in [Listings -> ListingRow] /\ admins' \in [Admins -> AdminRow]
      BY <2>5, <2>6
    <3>2. \A k \in Listings : listings'[k].row # "none" => k \in raCertificates'
      BY <2>4, <2>5 DEF ConfigInv, ConfigTypeOK
    <3> QED
      BY <1>1, <1>2, <1>3, <2>4, <3>1, <3>2 DEF ConfigInv, ConfigTypeOK, ListingRow, AdminRow
  <2>8. NamesDiffer'
    BY <1>5, <2>3, <2>5 DEF ConfigInv, NamesDiffer, LiveListing, Taken
  <2>9. JamfHasOneTime'
    BY <1>2, <2>3, <2>5 DEF ConfigInv, JamfHasOneTime
  <2>10. OnIsUsable'
    BY <1>2, <2>3, <2>5 DEF ConfigInv, OnIsUsable, Configured
  <2>11. ChallengeHasEndpoint'
    <3>1. \A c \in Minted : minted[c] # 0 => LiveListing(minted[c]) /\ minted[c] \in Listings
      BY <1>3 DEF ConfigInv, ChallengeHasEndpoint
    <3> QED
      BY <1>2, <2>3, <2>5, <3>1 DEF ChallengeHasEndpoint, LiveListing
  <2>12. ASSUME NEW b \in Admins, NEW v, v = admins'[b] PROVE AdminFits(v)'
    <3>1. CASE v.at = "idle"
      BY <3>1 DEF AdminFits
    <3>2. CASE v.at # "idle"
      <4>1. b # a /\ v = admins[b] /\ v \in AdminRow /\ AdminFits(v)
        BY <2>6, <2>12, <3>2, NoAdminFits, RowsAre
      <4>2. v.id \in Listings /\ v.id # l
        BY <1>1, <3>2, <4>1 DEF AdminFits, ConfigInv, CreatesAlone
      <4>3. listings'[v.id] = listings[v.id]
        BY <2>5, <4>2
      <4> QED
        BY <1>2, <4>1, <4>3 DEF AdminFits, SwitchFits
    <3> QED
      BY <3>1, <3>2
  <2>13. CreatesAlone'
    <3>1. \A b \in Admins : admins[b].at \in {"issue", "protect"} => admins[b].id # 0
      BY RowsAre, ConfigAssumption DEF AdminFits
    <3> QED
      BY <2>6, <3>1, NoAdminFits DEF ConfigInv, CreatesAlone
  <2> QED
    BY <2>7, <2>8, <2>9, <2>10, <2>11, <2>12, <2>13 DEF ConfigInv
<1> QED
  BY <1>4, <1>5

(* What others read is noted where a switch is written.                       *)
LEMMA WritesFit ==
  ASSUME ConfigInv, NEW a, NEW after, NEW what, what \subseteq Switches \union {"directory"},
         Writes(a, after, what), \A l \in Listings : RowMoves(l, what),
         directory => directory' \/ "directory" \in what
  PROVE  /\ admins' \in [Admins -> AdminRow]
         /\ \A b \in Admins : AdminFits(admins[b])'
         /\ CreatesAlone'
<1> DEFINE Noted(b) == {x \in what : <<admins[b].switch, x>> \in Crossings}
<1>1. ASSUME NEW b \in Admins
      PROVE  \/ admins'[b] = NoAdmin
             \/ /\ admins[b].at = "switch"
                /\ admins'[b] = [admins[b] EXCEPT !.missed = @ \union Noted(b)]
             \/ admins[b].at # "switch" /\ admins'[b] = admins[b]
  BY <1>1 DEF Writes
<1>2. ASSUME NEW b \in Admins, NEW e, e = admins'[b]
      PROVE  \/ e = NoAdmin
             \/ /\ e \in AdminRow /\ e.at = admins[b].at /\ e.id = admins[b].id
                /\ e.switch = admins[b].switch /\ e.on = admins[b].on
                /\ admins[b].at = "switch" => e.missed = admins[b].missed \union Noted(b)
  <2>1. admins[b] \in AdminRow
    BY RowsAre
  <2>2. CASE admins[b].at = "switch" /\ e = [admins[b] EXCEPT !.missed = @ \union Noted(b)]
    <3>1. admins[b].missed \union Noted(b) \in SUBSET {"jamf", "one_time", "directory"}
      BY <2>1 DEF AdminRow, Crossings
    <3>2. PICK n : n = admins[b].missed \union Noted(b)
      OBVIOUS
    <3>3. e = [admins[b] EXCEPT !.missed = n]
      BY <2>2, <3>2
    <3>4. e \in AdminRow
      BY <2>1, <3>1, <3>2, <3>3, Zenon DEF AdminRow
    <3> QED
      BY <2>1, <3>2, <3>3, <3>4 DEF AdminRow
  <2> QED
    BY <1>1, <1>2, <2>1, <2>2
<1>3. admins' \in [Admins -> AdminRow]
  <2>1. \A b \in Admins : admins'[b] \in AdminRow
    BY <1>2, NoAdminFits
  <2>2. admins' = [b \in Admins |-> admins'[b]]
    BY DEF Writes
  <2> QED
    BY <2>1, <2>2
<1>4. ASSUME NEW b \in Admins, NEW e, e = admins'[b] PROVE AdminFits(e)'
  <2>1. CASE e = NoAdmin
    BY <2>1, NoAdminFits DEF AdminFits
  <2>2. CASE e # NoAdmin
    <3>1. admins[b] \in AdminRow /\ AdminFits(admins[b])
      BY RowsAre
    <3>2. admins[b].at # "idle" => RowMoves(admins[b].id, what)
      BY <3>1 DEF AdminFits
    <3>3. PICK d : d = admins[b]
      OBVIOUS
    <3> QED
      BY <1>2, <1>4, <2>2, <3>1, <3>2, <3>3, AdminStays
  <2> QED
    BY <2>1, <2>2
<1>5. CreatesAlone'
  <2>1. \A b \in Admins : admins[b].at \in {"issue", "protect"} => admins[b].id # 0
    BY RowsAre, ConfigAssumption DEF AdminFits
  <2>2. \A b \in Admins :
          \/ admins'[b].at = "idle" /\ admins'[b].id = 0
          \/ admins'[b].at = admins[b].at /\ admins'[b].id = admins[b].id
    <3> SUFFICES ASSUME NEW b \in Admins, NEW e, e = admins'[b]
                 PROVE  (e.at = "idle" /\ e.id = 0) \/ (e.at = admins[b].at /\ e.id = admins[b].id)
      OBVIOUS
    <3> QED
      BY <1>2, NoAdminFits
  <2> QED
    BY <2>1, <2>2 DEF ConfigInv, CreatesAlone
<1> QED
  BY <1>3, <1>4, <1>5 DEF AdminFits, SwitchFits

(* A form that is saved changes one endpoint's row, if it is still there.     *)
LEMMA Saves ==
  ASSUME ConfigInv, NEW a \in Admins, NEW l \in Listings, NEW v \in ListingRow, NEW what,
         what \subseteq Switches, Writes(a, [listings EXCEPT ![l] = v], what), LiveListing(l),
         v.row \in {"live", "deleted"},
         v.row = "live" =>
           /\ listings[l].ready \subseteq v.ready
           /\ "one_time" \in listings[l].on => "one_time" \in v.on \/ "one_time" \in what
           /\ "jamf" \in v.on => "jamf" \in listings[l].on \/ "jamf" \in what
           /\ \A k \in Listings \ {l} : LiveListing(k) => listings[k].title # v.title,
         "jamf" \in v.on => "one_time" \in v.on
           \/ {<<"jamf", "one_time">>, <<"one_time", "jamf">>} \intersect crossed' # {},
         \A m \in v.on :
           \/ m = "one_time" \/ (m \in v.ready /\ m # "intune")
           \/ m = "intune" /\ (directory \/ <<"intune", "directory">> \in crossed'),
         crossed \subseteq crossed', crossed' \subseteq Crossings,
         minted' \in [Minted -> Listings \union {0}],
         \A c \in Minted : minted'[c] # 0 => minted'[c] = minted[c] /\ (v.row = "live" \/ minted[c] # l),
         UNCHANGED <<concern, directory, raCertificates>>
  PROVE  ConfigInv'
<1>1. /\ listings' \in [Listings -> ListingRow] /\ listings'[l] = v
      /\ \A k \in Listings \ {l} : listings'[k] = listings[k]
  BY RowsAre DEF Writes
<1>2. \A k \in Listings : RowMoves(k, what)
  BY <1>1 DEF RowMoves, LiveListing
<1>3. /\ admins' \in [Admins -> AdminRow] /\ CreatesAlone'
      /\ \A b \in Admins : AdminFits(admins[b])'
  BY <1>2, WritesFit
<1>4. ConfigTypeOK'
  <2>1. \A k \in Listings : listings'[k].row # "none" => k \in raCertificates'
    BY <1>2 DEF ConfigInv, ConfigTypeOK, RowMoves
  <2> QED
    BY <1>1, <1>3, <2>1 DEF ConfigInv, ConfigTypeOK, ListingRow, AdminRow
<1>5. NamesDiffer'
  BY <1>1 DEF ConfigInv, NamesDiffer, LiveListing
<1>6. JamfHasOneTime'
  BY <1>1 DEF ConfigInv, JamfHasOneTime
<1>7. OnIsUsable'
  <2>1. \A k \in Listings \ {l} : \A m \in listings[k].on :
          Configured(k, m)' \/ (m = "intune" /\ <<"intune", "directory">> \in crossed')
    BY <1>1 DEF ConfigInv, OnIsUsable, Configured
  <2>2. \A m \in v.on : Configured(l, m)' \/ (m = "intune" /\ <<"intune", "directory">> \in crossed')
    BY <1>1 DEF Configured
  <2> QED
    BY <1>1, <2>1, <2>2 DEF OnIsUsable
<1>8. ChallengeHasEndpoint'
  BY <1>1 DEF ConfigInv, ConfigTypeOK, ChallengeHasEndpoint, LiveListing
<1> QED
  BY <1>3, <1>4, <1>5, <1>6, <1>7, <1>8 DEF ConfigInv

(* Where the row is gone nothing is written.                                  *)
LEMMA SavesNothing ==
  ASSUME ConfigInv, NEW a \in Admins, NEW what, what \subseteq Switches, Writes(a, listings, what),
         crossed \subseteq crossed', crossed' \subseteq Crossings,
         UNCHANGED <<concern, directory, raCertificates>>, minted' \in [Minted -> Listings \union {0}],
         \A c \in Minted : minted'[c] # 0 => minted'[c] = minted[c]
  PROVE  ConfigInv'
<1>1. listings' = listings
  BY DEF Writes
<1>2. \A k \in Listings : RowMoves(k, what)
  BY <1>1 DEF RowMoves
<1>3. /\ admins' \in [Admins -> AdminRow] /\ CreatesAlone'
      /\ \A b \in Admins : AdminFits(admins[b])'
  BY <1>2, WritesFit
<1>4. ConfigTypeOK'
  BY <1>1, <1>3 DEF ConfigInv, ConfigTypeOK, AdminRow
<1>5. NamesDiffer' /\ JamfHasOneTime' /\ OnIsUsable' /\ ChallengeHasEndpoint'
  BY <1>1 DEF ConfigInv, NamesDiffer, JamfHasOneTime, OnIsUsable, ChallengeHasEndpoint, LiveListing,
              Configured
<1> QED
  BY <1>3, <1>4, <1>5 DEF ConfigInv

(* The row that a request is about.                                           *)
LEMMA SavedRow ==
  ASSUME ConfigInv, NEW a \in Admins, admins[a].at # "idle"
  PROVE  /\ admins[a].id \in Listings /\ listings[admins[a].id] \in ListingRow
         /\ crossed \subseteq Crossings /\ minted \in [Minted -> Listings \union {0}]
  BY RowsAre DEF AdminFits, ConfigInv, ConfigTypeOK

(* A deletion takes methods and challenges with it.                           *)
LEMMA Deletes ==
  ASSUME ConfigInv, NEW a \in Admins, DeleteEndpoint(a)
  PROVE  ConfigInv'
<1> DEFINE l == admins[a].id
<1>1. /\ l \in Listings /\ crossed \subseteq Crossings /\ minted \in [Minted -> Listings \union {0}]
      /\ UNCHANGED <<concern, directory, raCertificates, crossed>>
  BY SavedRow DEF DeleteEndpoint
<1>2. /\ minted' \in [Minted -> Listings \union {0}]
      /\ \A c \in Minted : minted'[c] # 0 => minted'[c] = minted[c] /\ minted[c] # l
  BY <1>1 DEF DeleteEndpoint
<1>3. CASE LiveListing(l)
  <2>1. PICK v : v = [NoListing EXCEPT !.row = "deleted"]
    OBVIOUS
  <2>2. v \in ListingRow
    BY <2>1, NoListingFits, Zenon DEF ListingRow
  <2>3. v.row = "deleted" /\ v.on = {}
    BY <2>1, NoListingFits DEF ListingRow
  <2>4. Writes(a, [listings EXCEPT ![l] = v], {})
    BY <1>3, <2>1 DEF DeleteEndpoint
  <2> QED
    BY <1>1, <1>2, <1>3, <2>2, <2>3, <2>4, Saves
<1>4. CASE ~LiveListing(l)
  <2>1. [listings EXCEPT ![l] = listings[l]] = listings
    BY <1>1, RowsAre
  <2>2. Writes(a, listings, {})
    BY <1>4, <2>1 DEF DeleteEndpoint
  <2> QED
    BY <1>1, <1>2, <2>2, SavesNothing
<1> QED
  BY <1>3, <1>4

(* An endpoint is enabled or disabled if it is still there.                   *)
LEMMA Enables ==
  ASSUME ConfigInv, NEW a \in Admins, SetEnabled(a)
  PROVE  ConfigInv'
<1> DEFINE l == admins[a].id
<1>1. /\ l \in Listings /\ listings[l] \in ListingRow
      /\ crossed \subseteq Crossings /\ minted \in [Minted -> Listings \union {0}]
      /\ UNCHANGED <<concern, directory, raCertificates, crossed, minted>>
  BY SavedRow DEF SetEnabled
<1>2. CASE LiveListing(l)
  <2>1. PICK v : v = [listings[l] EXCEPT !.enabled = admins[a].on]
    OBVIOUS
  <2>2. admins[a].on \in BOOLEAN
    BY RowsAre, Zenon DEF AdminRow
  <2>3. v \in ListingRow
    BY <1>1, <2>1, <2>2, Zenon DEF ListingRow
  <2>4. /\ v.row = listings[l].row /\ v.on = listings[l].on /\ v.ready = listings[l].ready
        /\ v.title = listings[l].title
    BY <1>1, <2>1 DEF ListingRow
  <2>5. Writes(a, [listings EXCEPT ![l] = v], {})
    BY <1>2, <2>1 DEF SetEnabled
  <2>6. LiveListing(l) /\ \A k \in Listings \ {l} : LiveListing(k) => listings[k].title # v.title
    BY <1>1, <1>2, <2>4 DEF ConfigInv, NamesDiffer
  <2> QED
    BY <1>1, <2>3, <2>4, <2>5, <2>6, Saves DEF ConfigInv, JamfHasOneTime, OnIsUsable, Configured, LiveListing
<1>3. CASE ~LiveListing(l)
  BY <1>1, <1>3, SavesNothing DEF SetEnabled
<1> QED
  BY <1>2, <1>3

(* A name is changed under the unique index.                                  *)
LEMMA Renames ==
  ASSUME ConfigInv, NEW a \in Admins, UpdatePolicy(a)
  PROVE  ConfigInv'
<1> DEFINE l == admins[a].id
           t == admins[a].title
<1>1. /\ l \in Listings /\ listings[l] \in ListingRow /\ t \in Titles \union {NoTitle}
      /\ crossed \subseteq Crossings /\ minted \in [Minted -> Listings \union {0}]
      /\ UNCHANGED <<concern, directory, raCertificates, crossed, minted>>
  BY SavedRow, RowsAre DEF UpdatePolicy, AdminRow
<1>2. CASE LiveListing(l) /\ Renamed(l, t)
  <2>1. PICK v : v = [listings[l] EXCEPT !.title = t]
    OBVIOUS
  <2>2. v \in ListingRow
    BY <1>1, <2>1, Zenon DEF ListingRow
  <2>3. /\ v.row = listings[l].row /\ v.on = listings[l].on /\ v.ready = listings[l].ready /\ v.title = t
    BY <1>1, <2>1 DEF ListingRow
  <2>4. Writes(a, [listings EXCEPT ![l] = v], {})
    BY <1>2, <2>1 DEF UpdatePolicy
  <2>5. LiveListing(l) /\ \A k \in Listings \ {l} : LiveListing(k) => listings[k].title # v.title
    BY <1>2, <2>3 DEF Renamed
  <2> QED
    BY <1>1, <2>2, <2>3, <2>4, <2>5, Saves DEF ConfigInv, JamfHasOneTime, OnIsUsable, Configured, LiveListing
<1>3. CASE ~(LiveListing(l) /\ Renamed(l, t))
  BY <1>1, <1>3, SavesNothing DEF UpdatePolicy
<1> QED
  BY <1>2, <1>3

(* A method is switched on what the request read, or the change it missed is  *)
(* recorded.                                                                  *)
LEMMA MethodSwitched ==
  ASSUME ConfigInv, NEW a \in Admins, SetMethodEnabled(a)
  PROVE  ConfigInv'
<1> DEFINE l == admins[a].id
           m == admins[a].switch
           d == admins[a]
<1>1. /\ l \in Listings /\ listings[l] \in ListingRow /\ m \in Switches /\ d \in AdminRow /\ SwitchFits(d)
      /\ crossed \subseteq Crossings /\ minted \in [Minted -> Listings \union {0}]
      /\ UNCHANGED <<concern, directory, raCertificates, minted>>
  BY SavedRow, RowsAre DEF SetMethodEnabled, AdminRow, AdminFits
<1>2. /\ crossed' = crossed \union {<<m, x>> : x \in d.missed}
      /\ crossed' \subseteq Crossings
  BY <1>1 DEF SetMethodEnabled, SwitchFits
<1>3. CASE LiveListing(l)
  <2>1. PICK S : S = IF d.on THEN listings[l].on \union {m} ELSE listings[l].on \ {m}
    OBVIOUS
  <2>2. PICK v : v = [listings[l] EXCEPT !.on = S]
    OBVIOUS
  <2>3. S \in SUBSET Switches
    BY <1>1, <2>1 DEF ListingRow
  <2>4. v \in ListingRow
    BY <1>1, <2>2, <2>3, Zenon DEF ListingRow
  <2>5. v.row = listings[l].row /\ v.on = S /\ v.ready = listings[l].ready /\ v.title = listings[l].title
    BY <1>1, <2>2 DEF ListingRow
  <2>6. Writes(a, [listings EXCEPT ![l] = v], {m})
    BY <1>1, <1>3, <2>1, <2>2, RowsAre DEF SetMethodEnabled
  <2>7. \A k \in Listings \ {l} : LiveListing(k) => listings[k].title # v.title
    BY <1>1, <1>3, <2>5 DEF ConfigInv, NamesDiffer
  <2>8. listings[l].row = "live" /\ v.row = "live"
    BY <1>3, <2>5 DEF LiveListing
  <2>9. /\ "one_time" \in listings[l].on => "one_time" \in v.on \/ "one_time" \in {m}
        /\ "jamf" \in v.on => "jamf" \in listings[l].on \/ "jamf" \in {m}
    BY <2>1, <2>5
  <2>10. ASSUME "jamf" \in v.on, "one_time" \notin v.on
         PROVE  {<<"jamf", "one_time">>, <<"one_time", "jamf">>} \intersect crossed' # {}
    <3>1. CASE m = "jamf" /\ d.on
      <4>1. "one_time" \in d.missed
        BY <1>1, <2>1, <2>5, <2>8, <2>10, <3>1 DEF SwitchFits
      <4> QED
        BY ZenonT(30), <1>2, <3>1, <4>1
    <3>2. CASE m = "one_time" /\ ~d.on
      <4>1. "jamf" \in d.missed
        BY <1>1, <2>1, <2>5, <2>8, <2>10, <3>2 DEF SwitchFits
      <4> QED
        BY <1>2, <3>2, <4>1
    <3>3. CASE ~(m = "jamf" /\ d.on) /\ ~(m = "one_time" /\ ~d.on)
      <4>1. "jamf" \in listings[l].on /\ "one_time" \notin listings[l].on
        BY <2>1, <2>5, <2>10, <3>3
      <4>2. {<<"jamf", "one_time">>, <<"one_time", "jamf">>} \intersect crossed # {}
        BY <1>1, <4>1 DEF ConfigInv, JamfHasOneTime
      <4> QED
        BY <1>2, <4>2
    <3> QED
      BY <3>1, <3>2, <3>3
  <2>11. ASSUME NEW n \in v.on
         PROVE  \/ n = "one_time" \/ (n \in v.ready /\ n # "intune")
                \/ n = "intune" /\ (directory \/ <<"intune", "directory">> \in crossed')
    <3>1. CASE n = m /\ d.on
      <4>1. m = "intune" => directory \/ "directory" \in d.missed
        BY <1>1, <3>1 DEF SwitchFits
      <4>2. m \in {"static", "jamf"} => m \in v.ready
        BY <1>1, <2>5, <2>8, <3>1 DEF SwitchFits
      <4> QED
        BY <1>1, <1>2, <3>1, <4>1, <4>2 DEF Switches
    <3>2. CASE ~(n = m /\ d.on)
      <4>1. n \in listings[l].on /\ n \in Switches
        BY <1>1, <2>1, <2>3, <2>5, <3>2
      <4> QED
        BY <1>1, <1>2, <2>5, <4>1 DEF ConfigInv, OnIsUsable, Configured, Switches
    <3> QED
      BY <3>1, <3>2
  <2>12. {m} \subseteq Switches /\ crossed \subseteq crossed'
    BY <1>1, <1>2
  <2> QED
    BY <1>1, <1>2, <1>3, <2>4, <2>5, <2>6, <2>7, <2>8, <2>9, <2>10, <2>11, <2>12, Saves
<1>4. CASE ~LiveListing(l)
  <2>1. Writes(a, listings, {m}) /\ {m} \subseteq Switches /\ crossed \subseteq crossed'
    BY <1>1, <1>2, <1>4 DEF SetMethodEnabled
  <2> QED
    BY <1>1, <1>2, <2>1, SavesNothing
<1> QED
  BY <1>3, <1>4

(* A secret that is set only makes methods usable.                            *)
LEMMA SecretSet ==
  ASSUME ConfigInv, NEW l \in Listings, LiveListing(l), NEW m \in {"static", "jamf"},
         listings' = [listings EXCEPT ![l].ready = @ \union {m}],
         UNCHANGED <<concern, directory, minted, raCertificates, crossed, admins>>
  PROVE  ConfigInv'
<1>1. PICK R : R = listings[l].ready \union {m}
  OBVIOUS
<1>2. PICK v : v = [listings[l] EXCEPT !.ready = R]
  OBVIOUS
<1>3. listings[l] \in ListingRow /\ R \in SUBSET {"static", "jamf"}
  BY <1>1, RowsAre DEF ListingRow
<1>4. v \in ListingRow
  BY <1>2, <1>3, Zenon DEF ListingRow
<1>5. v.row = listings[l].row /\ v.on = listings[l].on /\ v.ready = R /\ v.title = listings[l].title
  BY <1>2, <1>3 DEF ListingRow
<1>6. listings' = [listings EXCEPT ![l] = v]
  BY <1>1, <1>2, RowsAre
<1>7. /\ listings' \in [Listings -> ListingRow] /\ listings'[l] = v
      /\ \A k \in Listings \ {l} : listings'[k] = listings[k]
  BY <1>4, <1>6, RowsAre
<1>8. /\ \A k \in Listings : /\ listings'[k].row = listings[k].row /\ listings'[k].on = listings[k].on
                              /\ listings'[k].title = listings[k].title
                              /\ listings[k].ready \subseteq listings'[k].ready
  BY <1>1, <1>5, <1>7
<1>9. ConfigTypeOK'
  <2>1. \A k \in Listings : listings'[k].row # "none" => k \in raCertificates'
    BY <1>8 DEF ConfigInv, ConfigTypeOK
  <2> QED
    BY <1>7, <2>1 DEF ConfigInv, ConfigTypeOK, ListingRow
<1>10. NamesDiffer' /\ JamfHasOneTime' /\ OnIsUsable' /\ ChallengeHasEndpoint'
  <2>1. NamesDiffer' /\ JamfHasOneTime'
    BY <1>8 DEF ConfigInv, NamesDiffer, JamfHasOneTime, LiveListing
  <2>2. OnIsUsable'
    BY <1>8 DEF ConfigInv, OnIsUsable, Configured
  <2>3. ChallengeHasEndpoint'
    BY <1>8 DEF ConfigInv, ConfigTypeOK, ChallengeHasEndpoint, LiveListing
  <2> QED
    BY <2>1, <2>2, <2>3
<1>11. \A b \in Admins : AdminFits(admins[b])'
  <2> SUFFICES ASSUME NEW b \in Admins, NEW d, d = admins[b] PROVE AdminFits(d)'
    OBVIOUS
  <2>1. AdminFits(d) /\ d \in AdminRow
    BY RowsAre
  <2>2. d.at # "idle" => RowMoves(d.id, {})
    BY <1>8, <2>1 DEF RowMoves, AdminFits
  <2> QED
    BY <2>1, <2>2, AdminStays
<1>12. CreatesAlone'
  BY DEF ConfigInv, CreatesAlone
<1> QED
  BY <1>9, <1>10, <1>11, <1>12 DEF ConfigInv

(* So does a connected directory.                                             *)
LEMMA Connects ==
  ASSUME ConfigInv, connectDirectory
  PROVE  ConfigInv'
<1>1. directory' = TRUE /\ UNCHANGED <<concern, listings, minted, raCertificates, crossed, admins>>
  BY DEF connectDirectory
<1>2. ConfigTypeOK' /\ NamesDiffer' /\ JamfHasOneTime' /\ ChallengeHasEndpoint' /\ CreatesAlone'
  BY <1>1 DEF ConfigInv, ConfigTypeOK, NamesDiffer, JamfHasOneTime, ChallengeHasEndpoint, LiveListing,
              CreatesAlone
<1>3. OnIsUsable'
  BY <1>1 DEF ConfigInv, OnIsUsable, Configured
<1>4. \A b \in Admins : AdminFits(admins[b])'
  BY <1>1, RowsAre DEF AdminFits, SwitchFits
<1> QED
  BY <1>2, <1>3, <1>4 DEF ConfigInv

(* A directory that is disconnected takes its methods with it, and is noted   *)
(* by the requests that were about to switch one on.                          *)
LEMMA Disconnects ==
  ASSUME ConfigInv, disconnectIntune
  PROVE  ConfigInv'
<1>1. /\ directory' = FALSE /\ Writes(0, SwitchedOff, {"directory"}) /\ listings' = SwitchedOff
      /\ UNCHANGED <<concern, minted, raCertificates, crossed>>
  BY DEF disconnectIntune, Writes
<1>2. ASSUME NEW l \in Listings
      PROVE  /\ listings'[l] \in ListingRow
             /\ listings'[l].row = listings[l].row /\ listings'[l].title = listings[l].title
             /\ listings'[l].ready = listings[l].ready /\ listings'[l].on = listings[l].on \ {"intune"}
  <2>1. PICK S : S = listings[l].on \ {"intune"}
    OBVIOUS
  <2>2. PICK v : v = [listings[l] EXCEPT !.on = S]
    OBVIOUS
  <2>3. listings[l] \in ListingRow /\ S \in SUBSET Switches
    BY <2>1, RowsAre DEF ListingRow
  <2>4. v \in ListingRow
    BY <2>2, <2>3, Zenon DEF ListingRow
  <2>5. v.row = listings[l].row /\ v.on = S /\ v.ready = listings[l].ready /\ v.title = listings[l].title
    BY <2>2, <2>3 DEF ListingRow
  <2>6. listings'[l] = v
    BY <1>1, <2>1, <2>2 DEF SwitchedOff
  <2> QED
    BY <2>1, <2>4, <2>5, <2>6
<1>3. listings' \in [Listings -> ListingRow]
  BY <1>1, <1>2 DEF SwitchedOff
<1>4. \A l \in Listings : RowMoves(l, {"directory"})
  BY <1>2 DEF RowMoves
<1>5. /\ admins' \in [Admins -> AdminRow] /\ CreatesAlone'
      /\ \A b \in Admins : AdminFits(admins[b])'
  BY <1>1, <1>4, WritesFit
<1>6. ConfigTypeOK'
  <2>1. \A k \in Listings : listings'[k].row # "none" => k \in raCertificates'
    BY <1>1, <1>2 DEF ConfigInv, ConfigTypeOK
  <2> QED
    BY <1>1, <1>3, <1>5, <2>1 DEF ConfigInv, ConfigTypeOK, ListingRow, AdminRow
<1>7. NamesDiffer' /\ JamfHasOneTime'
  BY <1>1, <1>2 DEF ConfigInv, NamesDiffer, JamfHasOneTime, LiveListing
<1>8. OnIsUsable'
  BY <1>1, <1>2 DEF ConfigInv, OnIsUsable, Configured
<1>9. ChallengeHasEndpoint'
  BY <1>1, <1>2 DEF ConfigInv, ConfigTypeOK, ChallengeHasEndpoint, LiveListing
<1> QED
  BY <1>5, <1>6, <1>7, <1>8, <1>9 DEF ConfigInv

(* A form is opened on an endpoint that is there.                             *)
LEMMA Opens ==
  ASSUME ConfigInv, NEW a \in Admins, NEW l \in Listings, NEW t \in Titles \union {NoTitle},
         NEW on \in BOOLEAN,
         \/ confirmDelete(a, l) \/ setEnabled(a, l, on) \/ updatePolicy(a, l, t)
         \/ createChallenge(a, l) \/ jamfChallenge(a, l)
  PROVE  ConfigInv'
<1>1. PICK w : /\ LiveListing(l) /\ Reads(a, w)
               /\ \/ w = [NoAdmin EXCEPT !.at = "delete", !.id = l]
                  \/ w = [NoAdmin EXCEPT !.at = "enable", !.id = l, !.on = on]
                  \/ w = [NoAdmin EXCEPT !.at = "policy", !.id = l, !.title = t]
                  \/ w = [NoAdmin EXCEPT !.at = "challenge", !.id = l]
                  \/ w = [NoAdmin EXCEPT !.at = "challenge", !.id = l, !.on = TRUE]
  BY DEF confirmDelete, setEnabled, updatePolicy, createChallenge, jamfChallenge, endpointFromPath
<1>2. w \in AdminRow
  <2>1. ASSUME w = [NoAdmin EXCEPT !.at = "delete", !.id = l] PROVE w \in AdminRow
    BY <2>1, NoAdminFits DEF AdminRow
  <2>2. ASSUME w = [NoAdmin EXCEPT !.at = "enable", !.id = l, !.on = on] PROVE w \in AdminRow
    BY <2>2, NoAdminFits, Zenon DEF AdminRow
  <2>3. ASSUME w = [NoAdmin EXCEPT !.at = "policy", !.id = l, !.title = t] PROVE w \in AdminRow
    BY <2>3, NoAdminFits DEF AdminRow
  <2>4. ASSUME w = [NoAdmin EXCEPT !.at = "challenge", !.id = l] PROVE w \in AdminRow
    BY <2>4, NoAdminFits DEF AdminRow
  <2>5. ASSUME w = [NoAdmin EXCEPT !.at = "challenge", !.id = l, !.on = TRUE] PROVE w \in AdminRow
    BY <2>5, NoAdminFits, Zenon DEF AdminRow
  <2> QED
    BY <1>1, <2>1, <2>2, <2>3, <2>4, <2>5
<1>3. w.at \in {"delete", "enable", "policy", "challenge"} /\ w.id = l
  BY <1>1, NoAdminFits DEF AdminRow
<1> QED
  BY <1>1, <1>2, <1>3, AdminReads

(* A switch is opened where it may be set.                                    *)
LEMMA OpensSwitch ==
  ASSUME ConfigInv, NEW a \in Admins, NEW l \in Listings, NEW m \in Switches, NEW on \in BOOLEAN,
         setMethodEnabled(a, l, m, on)
  PROVE  ConfigInv'
<1>1. PICK w : w = [NoAdmin EXCEPT !.at = "switch", !.id = l, !.switch = m, !.on = on]
  OBVIOUS
<1>2. w \in AdminRow
  BY <1>1, NoAdminFits, Zenon DEF AdminRow
<1>3. w.at = "switch" /\ w.id = l /\ w.switch = m /\ w.on = on /\ w.missed = {}
  BY <1>1, NoAdminFits DEF AdminRow
<1>4. LiveListing(l) /\ Reads(a, w)
  BY <1>1 DEF setMethodEnabled, endpointFromPath
<1>5. on => Configured(l, m)
  BY DEF setMethodEnabled
<1>6. Interlock(l, m, on)
  BY DEF setMethodEnabled
<1>7. SwitchFits(w)
  BY <1>3, <1>5, <1>6 DEF SwitchFits, Interlock, Configured
<1> QED
  BY <1>2, <1>3, <1>4, <1>7, AdminReads

(* A challenge is minted for an endpoint that is there when it is written.    *)
LEMMA MintsChallenge ==
  ASSUME ConfigInv, NEW a \in Admins, CreateChallenge(a)
  PROVE  ConfigInv'
<1> DEFINE free == {c \in Minted : minted[c] = 0}
           id == admins[a].id
<1>1. PICK c : c = Least(free)
  OBVIOUS
<1>2. c \in Minted
  BY <1>1, LeastIsIn, ConfigAssumption DEF CreateChallenge
<1>3. id \in Listings /\ minted \in [Minted -> Listings \union {0}] /\ raCertificates \subseteq Listings
  BY SavedRow DEF CreateChallenge, ConfigInv, ConfigTypeOK
<1>4. (minted' = [minted EXCEPT ![c] = id] /\ LiveListing(id)) \/ minted' = minted
  BY <1>1 DEF CreateChallenge, EndpointRow
<1>5. /\ minted' \in [Minted -> Listings \union {0}]
      /\ \A x \in Minted : minted'[x] # minted[x] => LiveListing(minted'[x])
  BY <1>2, <1>3, <1>4
<1>6. /\ admins' = [admins EXCEPT ![a] = NoAdmin]
      /\ UNCHANGED <<concern, listings, directory, raCertificates, crossed>>
  BY DEF CreateChallenge
<1> QED
  BY <1>3, <1>5, <1>6, AdminEnds

(* A request that fails leaves at most an RA certificate.                     *)
LEMMA Fails ==
  ASSUME ConfigInv, NEW a \in Admins, ProtectFails(a) \/ LoseCall(a)
  PROVE  ConfigInv'
<1>1. admins[a].at # "idle"
  BY DEF ProtectFails, LoseCall
<1>2. admins[a].id \in Listings /\ minted \in [Minted -> Listings \union {0}] /\ raCertificates \subseteq Listings
  BY <1>1, SavedRow DEF ConfigInv, ConfigTypeOK
<1>3. /\ admins' = [admins EXCEPT ![a] = NoAdmin]
      /\ UNCHANGED <<concern, listings, directory, minted, crossed>>
      /\ raCertificates' \in {raCertificates, raCertificates \union {admins[a].id}}
  BY DEF ProtectFails, LoseCall, RecordRA
<1> QED
  BY <1>2, <1>3, AdminEnds

(* The first endpoint, where there is one, is whole.                          *)
LEMMA ConfigStarts == ConfigInit => ConfigInv
<1> SUFFICES ASSUME ConfigInit PROVE ConfigInv
  OBVIOUS
<1> DEFINE one == CHOOSE t \in Titles : TRUE
           seeded == [NoListing EXCEPT !.row = "live", !.title = one]
           withJamf == [seeded EXCEPT !.enabled = TRUE, !.on = {"one_time", "jamf"}, !.ready = {"jamf"}]
<1>1. one \in Titles
  BY ConfigAssumption
<1> HIDE DEF one
<1>2. seeded \in ListingRow
  BY <1>1, NoListingFits, Zenon DEF ListingRow
<1>3. /\ seeded.row = "live" /\ seeded.on = {} /\ seeded.ready = {}
  BY NoListingFits DEF ListingRow
<1> HIDE DEF seeded
<1>4. withJamf \in ListingRow
  <2>1. {"one_time", "jamf"} \in SUBSET Switches /\ {"jamf"} \in SUBSET {"static", "jamf"}
    BY DEF Switches
  <2> QED
    BY <1>2, <2>1, Zenon DEF ListingRow
<1>5. withJamf.row = "live" /\ withJamf.on = {"one_time", "jamf"} /\ withJamf.ready = {"jamf"}
  <2>1. PICK S, R : S = {"one_time", "jamf"} /\ R = {"jamf"}
    OBVIOUS
  <2>2. withJamf = [seeded EXCEPT !.enabled = TRUE, !.on = S, !.ready = R]
    BY <2>1
  <2> HIDE DEF withJamf
  <2>3. withJamf.row = seeded.row /\ withJamf.on = S /\ withJamf.ready = R
    BY <1>2, <2>2 DEF ListingRow
  <2> QED
    BY <1>3, <2>1, <2>3
<1> HIDE DEF withJamf
<1>6. listings = [l \in Listings |->
         CASE l # 1 \/ concern = "names" -> NoListing
           [] l = 1 /\ concern = "methods" -> seeded
           [] l = 1 /\ concern = "challenges" -> withJamf]
  BY Zenon DEF ConfigInit, one, seeded, withJamf
<1>7. /\ concern \in Concerns /\ concern \in {"names", "methods", "challenges"} /\ directory \in BOOLEAN
      /\ minted = [c \in Minted |-> 0] /\ admins = [a \in Admins |-> NoAdmin] /\ crossed = {}
      /\ raCertificates = {l \in Listings : listings[l].row = "live"}
  BY ConfigAssumption DEF ConfigInit
<1>8. \A l \in Listings : listings[l] \in {NoListing, seeded, withJamf} /\ (l # 1 => listings[l] = NoListing)
  BY <1>6, <1>7
<1>9. listings \in [Listings -> ListingRow]
  BY <1>2, <1>4, <1>6, <1>8, NoListingFits
<1>10. ConfigTypeOK
  <2>1. \A l \in Listings : listings[l].row # "none" => l \in raCertificates
    BY <1>3, <1>5, <1>7, <1>8, NoListingFits
  <2>2. admins \in [Admins -> AdminRow]
    BY <1>7, NoAdminFits
  <2> QED
    BY <1>7, <1>9, <2>1, <2>2 DEF ConfigTypeOK, ListingRow, AdminRow
<1>11. NamesDiffer
  BY <1>8, NoListingFits DEF NamesDiffer, LiveListing
<1>12. JamfHasOneTime
  BY <1>3, <1>5, <1>8, NoListingFits DEF JamfHasOneTime
<1>13. OnIsUsable
  BY <1>3, <1>5, <1>8, NoListingFits DEF OnIsUsable, Configured
<1>14. ChallengeHasEndpoint /\ CreatesAlone /\ \A a \in Admins : AdminFits(admins[a])
  BY <1>7, NoAdminFits DEF ChallengeHasEndpoint, CreatesAlone, AdminFits
<1> QED
  BY <1>10, <1>11, <1>12, <1>13, <1>14 DEF ConfigInv

(* Every step keeps the invariant.                                            *)
LEMMA ConfigSteps == ConfigInv /\ [ConfigNext]_configVars => ConfigInv'
<1> SUFFICES ASSUME ConfigInv, [ConfigNext]_configVars PROVE ConfigInv'
  OBVIOUS
<1>1. CASE UNCHANGED configVars
  BY <1>1 DEF configVars, ConfigInv, ConfigTypeOK, NamesDiffer, JamfHasOneTime, OnIsUsable, Configured,
              ChallengeHasEndpoint, LiveListing, AdminFits, SwitchFits, CreatesAlone
<1>2. ASSUME NEW a \in Admins,
             \/ IssueRA(a) \/ ProtectFails(a) \/ InsertEndpoint(a) \/ DeleteEndpoint(a) \/ SetEnabled(a)
             \/ UpdatePolicy(a) \/ SetMethodEnabled(a) \/ CreateChallenge(a) \/ LoseCall(a)
      PROVE  ConfigInv'
  BY <1>2, Issues, Fails, Inserts, Deletes, Enables, Renames, MethodSwitched, MintsChallenge
<1>3. ASSUME NEW a \in Admins, NEW t \in Titles \union {NoTitle},
             createEndpoint(a, t) \/ \E l \in Listings : updatePolicy(a, l, t)
      PROVE  ConfigInv'
  BY <1>3, Creates, Opens
<1>4. ASSUME NEW a \in Admins, NEW l \in Listings,
             \/ confirmDelete(a, l) \/ createChallenge(a, l) \/ jamfChallenge(a, l)
             \/ \E on \in BOOLEAN : setEnabled(a, l, on) \/ \E m \in Switches : setMethodEnabled(a, l, m, on)
      PROVE  ConfigInv'
  BY <1>4, Opens, OpensSwitch
<1>5. ASSUME NEW l \in Listings, rotateStaticSecret(l) \/ configureJamf(l) PROVE ConfigInv'
  BY <1>5, SecretSet DEF rotateStaticSecret, configureJamf
<1> QED
  BY <1>1, <1>2, <1>3, <1>4, <1>5, Connects, Disconnects DEF ConfigNext

(* Whatever forms are open at once: names differ, a challenge has its         *)
(* endpoint, and a method that is on can be used, unless it was switched over *)
(* a change that its form had not read.                                       *)
THEOREM FormsHold == ConfigSpec => []ConfigurationHolds
<1>1. ConfigInv => ConfigurationHolds
  BY DEF ConfigInv, ConfigurationHolds
<1> QED
  BY <1>1, ConfigStarts, ConfigSteps, PTL DEF ConfigSpec

=============================================================================

------------------------------ MODULE IntuneSync ------------------------------
(* The hourly pass that asks Microsoft which certificates of one issuing CA   *)
(* to revoke, revokes them in one transaction and reports what became of each *)
(* request.  Microsoft keeps a request until its answer: revoked and not      *)
(* found are final, a retryable failure comes again.                          *)
EXTENDS FiniteSets

CONSTANTS
    ScepEndpoints,  \* endpoints that issue from the CA
    Serials,
    Foreign         \* the owner of what no endpoint issued

ASSUME SyncAssumption == Foreign \notin ScepEndpoints \union Serials

VARIABLES
    endpoints,      \* the rows, with the Intune method of each
    connected,      \* is there a scep_intune_connection row?
    certs,          \* certificate and scep_transaction, by serial (late:
                    \* Microsoft asked before the enrolment committed)
    queue,          \* what Microsoft waits for an answer to
    reported,       \* Microsoft's record of the final answers
    sync            \* the pass under way (ready: history, who issued through
                    \* Intune as it began)

syncVars == <<endpoints, connected, certs, queue, reported, sync>>

NoSync == [at |-> "idle", group |-> {}, ready |-> {}, batch |-> {}, looking |-> Foreign, revoked |-> {},
           results |-> [s \in Serials |-> "none"]]
Verdicts == {"none", "revoked", "not found", "retryable"}

(* Types of the endpoints, the certificates and the pass.                  *)
SyncTypeOK ==
    /\ endpoints \in [ScepEndpoints -> [row : {"live", "deleted"}, enabled : BOOLEAN, method : BOOLEAN]]
    /\ connected \in BOOLEAN
    /\ certs \in [Serials -> [owner : ScepEndpoints \union {Foreign}, late : BOOLEAN,
                              state : {"none", "told", "issued", "revoked"}]]
    /\ queue \subseteq Serials
    /\ reported \in [Serials -> {"none", "revoked", "not found"}]
    /\ sync \in [at : {"idle", "listed", "classify", "revoke", "commit", "upload"},
                 group : SUBSET ScepEndpoints, ready : SUBSET ScepEndpoints, batch : SUBSET Serials,
                 looking : Serials \union {Foreign}, revoked : SUBSET Serials,
                 results : [Serials -> Verdicts]]
    /\ sync.at = "revoke" <=> sync.looking # Foreign

SyncInit ==
    /\ endpoints = [e \in ScepEndpoints |-> [row |-> "live", enabled |-> TRUE, method |-> TRUE]]
    /\ connected = TRUE
    /\ \E owner \in [Serials -> ScepEndpoints \union {Foreign}] :
         certs = [s \in Serials |-> [owner |-> owner[s], state |-> "none", late |-> FALSE]]
    /\ queue = {} /\ reported = [s \in Serials |-> "none"] /\ sync = NoSync

----------------------------------------------------------------------------
(* Issuance: Intune is told before COMMIT (NotifySuccess), and may ask for    *)
(* the revocation from then on.  What no endpoint issued it may name too: its *)
(* queue is filtered by the issuer's name alone.                              *)

IssuesThroughIntune(e) ==
    connected /\ endpoints[e].row = "live" /\ endpoints[e].enabled /\ endpoints[e].method

NotifySuccess(s) ==
    /\ certs[s].state = "none"
    /\ certs[s].owner # Foreign =>
         IssuesThroughIntune(certs[s].owner)
    /\ certs' = [certs EXCEPT ![s].state = IF certs[s].owner = Foreign THEN "issued" ELSE "told"]
    /\ UNCHANGED <<endpoints, connected, queue, reported, sync>>

(* The transaction row has a foreign key to its endpoint.                     *)
CreateTransaction(s) ==
    /\ certs[s].state = "told"
    /\ certs' = [certs EXCEPT ![s].state =
                     IF endpoints[certs[s].owner].row = "live" THEN "issued" ELSE "none"]
    /\ UNCHANGED <<endpoints, connected, queue, reported, sync>>

AskRevocation(s) ==
    /\ certs[s].state # "none" /\ reported[s] = "none" /\ s \notin queue
    /\ queue' = queue \union {s}
    /\ certs' = [certs EXCEPT ![s].late = certs[s].state = "told"]
    /\ UNCHANGED <<endpoints, connected, reported, sync>>

----------------------------------------------------------------------------
(* What the pass reads.                                                      *)

IntuneEndpoints(polled) == polled = {e \in ScepEndpoints : IssuesThroughIntune(e)}

intuneIntegration == connected
CertificateBySerial(s) == certs[s].state \in {"issued", "revoked"}
(* The transaction rows went with a deleted endpoint.                         *)
CertificateIssuedByEndpoints(s) == certs[s].owner \in sync.group /\ endpoints[certs[s].owner].row = "live"
Revocable(s) == certs[s].state = "issued"

classifyRevocation(found, already) ==
    CASE ~found -> "not found" [] found /\ already -> "revoked" [] OTHER -> "retryable"

Result(s, verdict) == [sync EXCEPT !.results[s] = verdict, !.batch = @ \ {s}, !.looking = Foreign,
                                   !.at = IF sync.batch = {s} THEN "commit" ELSE "classify"]

----------------------------------------------------------------------------
(* The pass.                                                                 *)

syncIntuneOrganization ==
    /\ sync.at = "idle"
    /\ \E polled \in SUBSET ScepEndpoints :
         /\ IntuneEndpoints(polled) /\ polled # {}
         /\ sync' = [sync EXCEPT !.at = "listed", !.group = polled,
                               !.ready = {e \in ScepEndpoints : IssuesThroughIntune(e)}]
    /\ UNCHANGED <<endpoints, connected, certs, queue, reported>>

DownloadRevocations ==
    /\ sync.at = "listed" /\ intuneIntegration
    /\ \E batch \in SUBSET queue \ {{}} : sync' = [sync EXCEPT !.at = "classify", !.batch = batch]
    /\ UNCHANGED <<endpoints, connected, certs, queue, reported>>

(* Each request is looked up, then the certificate is revoked by a statement  *)
(* of its own; an administrator may have come between.                        *)
syncIntuneCAGroup(s) ==
    LET found == CertificateBySerial(s) /\ CertificateIssuedByEndpoints(s) IN
    /\ sync.at = "classify" /\ s \in sync.batch
    /\ sync' = IF found /\ Revocable(s) THEN [sync EXCEPT !.at = "revoke", !.looking = s]
               ELSE Result(s, classifyRevocation(found, ~Revocable(s)))
    /\ UNCHANGED <<endpoints, connected, certs, queue, reported>>

RevokeInBatch ==
    LET s == sync.looking IN
    /\ sync.at = "revoke"
    /\ sync' = IF Revocable(s) THEN [Result(s, "revoked") EXCEPT !.revoked = @ \union {s}]
               ELSE Result(s, classifyRevocation(TRUE, FALSE))
    /\ UNCHANGED <<endpoints, connected, certs, queue, reported>>

CommitSync ==
    /\ sync.at = "commit"
    /\ certs' = [s \in Serials |-> IF s \in sync.revoked THEN [certs[s] EXCEPT !.state = "revoked"]
                                   ELSE certs[s]]
    /\ sync' = [sync EXCEPT !.at = "upload", !.revoked = {}]
    /\ UNCHANGED <<endpoints, connected, queue, reported>>

(* Fault: the results are known, and are uploaded first.                      *)
FaultAfterFailure == IF sync.at = "commit" THEN [sync EXCEPT !.at = "upload", !.revoked = {}] ELSE NoSync
AfterFailure == NoSync

(* A statement, a call to Microsoft or COMMIT fails, or the server stops.     *)
FailSync ==
    /\ sync.at # "idle" /\ sync' = AfterFailure
    /\ UNCHANGED <<endpoints, connected, certs, queue, reported>>

(* Microsoft takes the results, whether or not its reply arrives.             *)
UploadRevocations ==
    LET final == {s \in Serials : sync.results[s] \in {"revoked", "not found"}} IN
    /\ sync.at = "upload" /\ sync' = NoSync
    /\ queue' = queue \ final
    /\ reported' = [s \in Serials |-> IF s \in final THEN sync.results[s] ELSE reported[s]]
    /\ UNCHANGED <<endpoints, connected, certs>>

----------------------------------------------------------------------------
(* The console beside it.  A row the pass has revoked is locked until COMMIT. *)

RevokeFromConsole(s) ==
    /\ Revocable(s) /\ s \notin sync.revoked
    /\ certs' = [certs EXCEPT ![s].state = "revoked"]
    /\ UNCHANGED <<endpoints, connected, queue, reported, sync>>

(* Bound: one endpoint at a time is paused or gone.                           *)
OthersRun(e) == \A d \in ScepEndpoints \ {e} : endpoints[d].row = "live" /\ endpoints[d].enabled

PauseEndpoint(e, on) ==
    /\ endpoints[e].row = "live" /\ endpoints[e].enabled # on /\ OthersRun(e)
    /\ endpoints' = [endpoints EXCEPT ![e].enabled = on]
    /\ UNCHANGED <<connected, certs, queue, reported, sync>>

SetIntuneMethod(e, on) ==
    /\ endpoints[e].row = "live" /\ endpoints[e].method # on /\ (on => connected)
    /\ endpoints' = [endpoints EXCEPT ![e].method = on]
    /\ UNCHANGED <<connected, certs, queue, reported, sync>>

DeleteScepEndpoint(e) ==
    /\ endpoints[e].row = "live" /\ OthersRun(e)
    /\ endpoints' = [endpoints EXCEPT ![e].row = "deleted"]
    /\ UNCHANGED <<connected, certs, queue, reported, sync>>

ConnectIntuneTenant ==
    /\ ~connected /\ connected' = TRUE /\ UNCHANGED <<endpoints, certs, queue, reported, sync>>

DisconnectIntuneTenant ==
    /\ connected /\ connected' = FALSE
    /\ endpoints' = [e \in ScepEndpoints |-> [endpoints[e] EXCEPT !.method = FALSE]]
    /\ UNCHANGED <<certs, queue, reported, sync>>

SyncNext ==
    \/ syncIntuneOrganization \/ DownloadRevocations \/ RevokeInBatch \/ CommitSync \/ FailSync
    \/ UploadRevocations \/ ConnectIntuneTenant \/ DisconnectIntuneTenant
    \/ \E s \in Serials : \/ NotifySuccess(s) \/ CreateTransaction(s) \/ AskRevocation(s)
                          \/ syncIntuneCAGroup(s) \/ RevokeFromConsole(s)
    \/ \E e \in ScepEndpoints : \/ DeleteScepEndpoint(e)
                                \/ \E on \in BOOLEAN : PauseEndpoint(e, on) \/ SetIntuneMethod(e, on)

SyncSpec == SyncInit /\ [][SyncNext]_syncVars

----------------------------------------------------------------------------

(* What Microsoft was told is revoked is revoked, though the pass failed at   *)
(* any point, was repeated, or met a revocation from the console.             *)
ReportedRevokedIsRevoked ==
    \A s \in Serials : reported[s] = "revoked" => certs[s].state = "revoked"

(* docs/scep.md:111-116 has a serial matched against every endpoint of the CA *)
(* before it is "not found".  IntuneEndpoints lists those that are on, so one *)
(* that was off as the pass began is not asked, whatever line 20 says of it.  *)
LeftOut(e) == e \notin sync.ready

(* Endpoints of one CA answer for each other: a certificate is reported not   *)
(* found, for good, only if no endpoint issued it, its endpoint was deleted   *)
(* or was switched off (or its Intune method was) as the pass began, or the   *)
(* request came before the enrolment committed (syncIntuneOrganization).      *)
AnswersForSiblings ==
    sync.at = "upload" =>
        \A s \in Serials :
            sync.results[s] = "not found" =>
                \/ certs[s].owner = Foreign \/ certs[s].late
                \/ LeftOut(certs[s].owner) \/ endpoints[certs[s].owner].row = "deleted"

(* What Microsoft is told of a certificate, and takes as final, is so but for *)
(* the exceptions AnswersForSiblings names (intune_worker.go).                *)
AnswersAreTrue ==
    /\ ReportedRevokedIsRevoked
    /\ AnswersForSiblings
    /\ SyncTypeOK
=============================================================================

------------------------------- MODULE CaImport -------------------------------
(* The import of a CA whose key exists already: one ca_import_job row, the    *)
(* provider's import job behind it, and the requests that poll it, submit the *)
(* wrapped key and cancel it, beside the console requests of Authorities.     *)
(* No statement on the job's row looks at its state: each request decides     *)
(* from what it read first.                                                   *)
EXTENDS Authorities

CONSTANTS
    Importers,      \* requests on the job under way
    Submitted       \* bound: the keys that may come of wrapped ones

ASSUME ImportAssumption == Submitted \subseteq Keys

VARIABLES
    job,            \* the ca_import_job row and the CA it was uploaded for
    wrapping,       \* the provider's import job
    importers,      \* requests on the job between two of their steps
    crossed         \* keys of a job that was read to be cancelled before a CA
                    \* had them, or that a late poll opened again after

importVars == <<authoritiesVars, job, wrapping, importers, crossed>>

Open == {"preparing", "ready_to_wrap", "importing"}
NoImporter == [op |-> "none", was |-> "none", key |-> None]

(* Types; and a job that is importing knows which key version it imports.  *)
ImportTypeOK ==
    /\ job \in [state : Open \union {"none", "completed", "failed", "expired", "cancelled"},
                type : {CATypeRoot, CATypeIssuing, None}, key : Keys \union {None},
                ca : CAs \union {None}]
    /\ job.state = "importing" => job.key # None
    /\ wrapping \in {"none", "pending", "active", "expired"}
    /\ importers \in [Importers ->
         [op : {"none", "observe", "finalize", "reject", "submit", "imported", "cancel", "cancelling"},
          was : Open \union {"none", "expired", "failed"}, key : Keys \union {None}]]
    /\ crossed \subseteq Keys

ImportInit ==
    /\ AuthoritiesInit
    /\ job = [state |-> "none", type |-> None, key |-> None, ca |-> None]
    /\ wrapping = "none"
    /\ importers = [i \in Importers |-> NoImporter] /\ crossed = {}

----------------------------------------------------------------------------

Free(i) == importers[i].op = "none"
Taken(k) == \E a \in CAs : CA(a) /\ cas[a].key = k
BeginImport(i, op) ==
    importers' = [importers EXCEPT ![i] = [op |-> op, was |-> job.state, key |-> job.key]]
Go(i, op) == importers' = [importers EXCEPT ![i].op = op]
EndImport(i) == importers' = [importers EXCEPT ![i] = NoImporter]
UpdateCAImportJobState(state) == job' = [job EXCEPT !.state = state]
SetCAImportJobWrapping == job' = [job EXCEPT !.state = "ready_to_wrap"]
CompleteCAImportJob(a, k) == job' = [job EXCEPT !.state = "completed", !.ca = a]
SetCAImportJobKeyVersion(k) == [job EXCEPT !.key = k, !.state = "importing"]
CancelCAImportJob == job' = [job EXCEPT !.state = "cancelled"]

(* SPKI of the certificate against the key the provider holds.                *)
(* Fault: the provider's word that the key was imported is enough.            *)
FaultPublicKeysEqual(k) == TRUE
publicKeysEqual(k) == keys[k].fits

StartCAImport(type) ==
    /\ job.state = "none" /\ (type = CATypeRoot => RootCA = {})
    /\ \E started \in {"pending", "active"} :
         /\ wrapping' = started
         /\ job' = [job EXCEPT !.type = type,
                      !.state = IF started = "active" THEN "ready_to_wrap" ELSE "preparing"]
    /\ UNCHANGED <<authoritiesVars, importers, crossed>>

(* The provider's side: its import job opens and lapses, a version it was     *)
(* given is unwrapped or refused.                                             *)
ImportJob ==
    /\ \/ wrapping = "pending" /\ wrapping' = "active"
       \/ wrapping \in {"pending", "active"} /\ wrapping' = "expired"
    /\ UNCHANGED <<authoritiesVars, job, importers, crossed>>

ImportedKeyState(k) ==
    /\ keys[k].state = "pending"
    /\ \E s \in {"enabled", "failed"} : keys' = [keys EXCEPT ![k].state = s]
    /\ UNCHANGED <<menu, cas, endpoint, requests, stranded, job, wrapping, importers, crossed>>

----------------------------------------------------------------------------
(* Polling: read the job, observe the provider, write.                        *)

SyncCAImport(i) ==
    /\ Free(i) /\ job.state \in Open /\ BeginImport(i, "observe")
    /\ UNCHANGED <<authoritiesVars, job, wrapping, crossed>>

(* The write of an observation, or the step to finalizeImport.                *)
Observe(i) ==
    LET it == importers[i] IN
    /\ it.op = "observe"
    /\ crossed' = crossed \union (IF it.was = "preparing" /\ wrapping = "active" /\ Taken(job.key)
                                  THEN {job.key} ELSE {})
    /\ CASE it.was = "preparing" /\ wrapping = "active" -> SetCAImportJobWrapping /\ EndImport(i)
         [] it.was \in {"preparing", "ready_to_wrap"} /\ wrapping = "expired" ->
              UpdateCAImportJobState("expired") /\ EndImport(i)
         [] it.was = "importing" /\ keys[it.key].state = "enabled" ->
              Go(i, IF publicKeysEqual(it.key) THEN "finalize" ELSE "reject") /\ UNCHANGED job
         [] it.was = "importing" /\ keys[it.key].state = "failed" ->
              UpdateCAImportJobState("failed") /\ EndImport(i)
         [] OTHER -> EndImport(i) /\ UNCHANGED job
    /\ UNCHANGED <<authoritiesVars, wrapping>>

InsertImported(a, k) ==
    cas' = [cas EXCEPT ![a] = [status |-> "active", type |-> job.type, parent |-> None, key |-> k,
                               said |-> "created"]]

(* A unique index that refuses the row takes the whole transaction with it.   *)
(* A key the job names no longer is left behind no more.                      *)
finalizeImport(i) ==
    LET k == importers[i].key IN
    /\ importers[i].op = "finalize" /\ EndImport(i)
    /\ IF CreateCA(job.type, k)
       THEN /\ \E a \in CAs : NewCA(a) /\ InsertImported(a, k) /\ CompleteCAImportJob(a, k)
            /\ stranded' = stranded \ {k}
       ELSE UNCHANGED <<cas, job, stranded>>
    /\ UNCHANGED <<menu, keys, endpoint, requests, wrapping, crossed>>

failImport(i) ==
    /\ importers[i].op = "reject" /\ EndImport(i)
    /\ \/ DestroyKeyVersion(importers[i].key) /\ UpdateCAImportJobState("failed")
       \/ UNCHANGED <<keys, job>>
    /\ UNCHANGED <<menu, cas, endpoint, requests, stranded, wrapping, crossed>>

----------------------------------------------------------------------------
(* The wrapped key: read the job, hand the key to the provider, then store    *)
(* the version and poll once, in one transaction.                             *)

SubmitWrappedKey(i) ==
    /\ Free(i) /\ job.state = "ready_to_wrap" /\ BeginImport(i, "submit")
    /\ UNCHANGED <<authoritiesVars, job, wrapping, crossed>>

ImportWrappedKey(i) ==
    /\ importers[i].op = "submit"
    /\ IF wrapping = "expired"
       THEN UpdateCAImportJobState("expired") /\ EndImport(i) /\ UNCHANGED keys
       ELSE \E k \in Submitted, fits \in BOOLEAN :
              /\ NewKey(k)
              /\ keys' = [keys EXCEPT ![k] = [state |-> "pending", imported |-> TRUE, fits |-> fits]]
              /\ importers' = [importers EXCEPT ![i].op = "imported", ![i].key = k]
              /\ UNCHANGED job
    /\ UNCHANGED <<menu, cas, endpoint, requests, stranded, wrapping, crossed>>

(* The version the job named before: without a CA, nothing names it now.      *)
Replaced == IF Taken(job.key) THEN {} ELSE {job.key} \ {None}

(* The poll within sees its own write; the other outcomes are a later poll's. *)
submitCommit(i) ==
    LET k == importers[i].key IN
    /\ importers[i].op = "imported" /\ EndImport(i)
    /\ IF keys[k].state = "enabled" /\ publicKeysEqual(k)
       THEN IF CreateCA(job.type, k)
            THEN \E a \in CAs :
                   /\ NewCA(a) /\ InsertImported(a, k) /\ stranded' = stranded \union Replaced
                   /\ job' = [SetCAImportJobKeyVersion(k) EXCEPT !.state = "completed", !.ca = a]
            ELSE stranded' = stranded \union {k} /\ UNCHANGED <<cas, job>>
       ELSE /\ job' = SetCAImportJobKeyVersion(k) /\ stranded' = stranded \union Replaced
            /\ UNCHANGED cas
    /\ UNCHANGED <<menu, keys, endpoint, requests, wrapping, crossed>>

----------------------------------------------------------------------------
(* Cancelling: read the job, destroy its key version, write.                  *)

CancelCAImport(i) ==
    /\ Free(i) /\ job.state \in Open
    /\ BeginImport(i, IF job.key = None THEN "cancelling" ELSE "cancel")
    /\ crossed' = crossed \union (IF Taken(job.key) THEN {} ELSE {job.key} \ {None})
    /\ UNCHANGED <<authoritiesVars, job, wrapping>>

cancelDestroy(i) ==
    /\ importers[i].op = "cancel"
    /\ \/ DestroyKeyVersion(importers[i].key) /\ Go(i, "cancelling")
       \/ EndImport(i) /\ UNCHANGED keys
    /\ UNCHANGED <<menu, cas, endpoint, requests, stranded, job, wrapping, crossed>>

cancelCommit(i) ==
    /\ importers[i].op = "cancelling" /\ EndImport(i) /\ CancelCAImportJob
    /\ UNCHANGED <<authoritiesVars, wrapping, crossed>>

(* A statement or COMMIT fails; a key whose version could not be stored is    *)
(* cleaned up, if that works.                                                 *)
LoseImport(i) ==
    /\ ~Free(i) /\ EndImport(i)
    /\ IF importers[i].op = "imported" THEN destroyOnError(importers[i].key)
       ELSE UNCHANGED <<keys, stranded>>
    /\ UNCHANGED <<menu, cas, endpoint, requests, job, wrapping, crossed>>

Importing(i) ==
    \/ SyncCAImport(i) \/ Observe(i) \/ finalizeImport(i) \/ failImport(i)
    \/ SubmitWrappedKey(i) \/ ImportWrappedKey(i) \/ submitCommit(i)
    \/ CancelCAImport(i) \/ cancelDestroy(i) \/ cancelCommit(i) \/ LoseImport(i)

ImportNext ==
    \/ AuthoritiesNext /\ UNCHANGED <<job, wrapping, importers, crossed>>
    \/ /\ "import" \in menu
       /\ \/ \E type \in {CATypeRoot, CATypeIssuing} : StartCAImport(type)
          \/ ImportJob \/ (\E k \in Keys : ImportedKeyState(k))
          \/ \E i \in Importers : Importing(i)

ImportSpec == ImportInit /\ [][ImportNext]_importVars

----------------------------------------------------------------------------
(* Properties.                                                               *)

(* A CA on the page has the key its certificates are signed with: cleaning up *)
(* after a request that failed, deleting a CA or judging an import never      *)
(* takes the key of another CA, or of one that stays, and a status change or  *)
(* a rotation that read a CA before it was deleted does not bring it back.    *)
(* Excepted are a key whose transaction was lost after the provider destroyed *)
(* it (DeleteCA, service.go), and a key that crossed a cancellation: the job  *)
(* was read to be cancelled before the CA was made, or was opened again by a  *)
(* poll that had read it before.  A job that has completed is not cancelled   *)
(* otherwise (CancelCAImport, import_service.go).                             *)
KeyServesCA ==
    \A a \in CAs :
        CA(a) /\ cas[a].key \notin stranded \union crossed
        => \/ KeyInfo(cas[a].key)
           \/ \E r \in Requests : requests[r].op = "mark" /\ requests[r].ca = a

(* Failed requests leak no keys: one that was made or imported belongs to a   *)
(* CA, to a request under way or to the job, which names it even when it is   *)
(* over; unless its cleanup or its transaction was lost, or another wrapped   *)
(* key was submitted over it.                                                 *)
KeysAccounted ==
    \A k \in Keys :
        keys[k].state = "enabled" /\ k \notin stranded
        => \/ Taken(k) \/ job.key = k
           \/ \E r \in Requests : requests[r].key = k
           \/ \E i \in Importers : importers[i].op = "imported" /\ importers[i].key = k

(* Keys and CAs belong together: whatever fails, no CA is left without its    *)
(* key or with that of another, and no key without a CA (service.go,          *)
(* CreateCA, DeleteCA; import_service.go).                                    *)
KeysFollowCAs ==
    /\ KeyServesCA
    /\ KeysAccounted
    /\ OneCAPerKey
    /\ AuthoritiesTypeOK

(* An imported CA signs with the key its certificate was made for, whichever  *)
(* of several submitted keys the job's row names by then (finalizeImport).    *)
ImportedKeyFits ==
    \A a \in CAs : CA(a) => keys[cas[a].key].fits

(* A job that says completed names a CA, and the CA a job names was imported: *)
(* a cancellation, a late poll or a second submission may overwrite the       *)
(* state, never leave it without the CA.                                      *)
JobNamesItsCA ==
    /\ job.state = "completed" => job.ca # None
    /\ job.ca # None => cas[job.ca].status # "absent" /\ keys[cas[job.ca].key].imported

(* However polls, submissions and cancellations of one job overlap, every CA  *)
(* that comes of it was made for the key it has, and the job names one of     *)
(* them once it says completed (import_service.go).                           *)
ImportIsWhole ==
    /\ ImportedKeyFits
    /\ JobNamesItsCA
    /\ ImportTypeOK
=============================================================================

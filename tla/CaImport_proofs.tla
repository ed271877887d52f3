---------------------------- MODULE CaImport_proofs ----------------------------
(* Proofs about Authorities and CaImport together, for every number of        *)
(* console requests, imports, certificate authorities and key versions: keys  *)
(* and CAs belong together whatever fails, an imported CA has the key its     *)
(* certificate was made for, and a decision about a CA holds when it commits. *)
EXTENDS CaImport, FiniteSetTheorems, TLAPS

(* A row that is there has a key version the provider made.                   *)
RowsHaveKeys ==
    \A a \in CAs :
        /\ cas[a].status = "absent" => cas[a] = NoCA
        /\ cas[a].status # "absent" => cas[a].key \in Keys /\ keys[cas[a].key].state # "none"

(* The provider is given no key but those that are imported.                  *)
PendingIsImported == \A k \in Keys : keys[k].state = "pending" => keys[k].imported

(* A request that makes a CA has a key version of its own, until it ends.     *)
Making(r) == requests[r].op \in {"sign", "insert"}

HoldsKey(r) ==
    /\ requests[r].key \in Keys /\ keys[requests[r].key].state = "enabled"
    /\ ~keys[requests[r].key].imported /\ keys[requests[r].key].fits
    /\ requests[r].type \in {CATypeRoot, CATypeIssuing}
    /\ Rotating(r) => requests[r].ca \in CAs
    /\ \A a \in CAs : cas[a].key # requests[r].key
    /\ \A q \in Requests \ {r} : requests[q].key # requests[r].key

MakersHoldKeys ==
    \A r \in Requests : IF Making(r) THEN HoldsKey(r) ELSE requests[r].key = None

(* A request about a CA is about one that there is; the key of one about to   *)
(* be marked deleted is gone.                                                 *)
NamesCA(r) ==
    /\ requests[r].op \in {"status", "destroy", "mark"} =>
         requests[r].ca \in CAs /\ cas[requests[r].ca].status # "absent"
    /\ requests[r].op = "status" => requests[r].status \in Statuses
    /\ requests[r].op = "mark" => keys[cas[requests[r].ca].key].state = "destroyed"

RequestsNameCAs == \A r \in Requests : NamesCA(r)

(* A request that takes a CA out of service found it unbound, in the era it   *)
(* began in.                                                                  *)
Retires(r) ==
    \/ requests[r].op \in {"destroy", "mark"}
    \/ requests[r].op = "status" /\ requests[r].status # "active"
    \/ Making(r) /\ Rotating(r)

Unbound(r) ==
    /\ requests[r].era <= endpoint.era
    /\ Retires(r) /\ requests[r].era = endpoint.era => checkEndpointBindings(requests[r].ca)

DecidedUnbound ==
    /\ endpoint.ca # None => endpoint.kind \in {"scep", "acme", "est"}
    /\ \A r \in Requests : Unbound(r)

(* Roots that are not deleted are one.                                        *)
RootsAreOne == \A a, b \in RootCA : a = b

(* The key an import is about was imported, and fits when that was found.     *)
Imported(k) == k \in Keys /\ keys[k].state # "none" /\ keys[k].imported

ImporterHoldsKey(i) ==
    /\ importers[i].key # None => Imported(importers[i].key)
    /\ importers[i].op \in {"finalize", "reject", "imported", "cancel"} => importers[i].key # None
    /\ importers[i].was = "importing" => importers[i].key # None
    /\ importers[i].op = "finalize" => keys[importers[i].key].fits

ImportersHoldKeys ==
    /\ job.key # None => Imported(job.key)
    /\ \A i \in Importers : ImporterHoldsKey(i)

(* A version that was just imported is of its request alone.                  *)
OwnKey(i) ==
    importers[i].op = "imported" =>
      /\ \A a \in CAs : cas[a].key # importers[i].key
      /\ job.key # importers[i].key
      /\ \A j \in Importers \ {i} : importers[j].key # importers[i].key

OwnKeys == \A i \in Importers : OwnKey(i)

(* A key that was judged to fit is there, unless it crossed a cancellation or *)
(* belongs to a CA by now; one that was rejected does not fit.                *)
Judged(i) ==
    /\ importers[i].op = "reject" => ~keys[importers[i].key].fits
    /\ importers[i].op = "finalize" =>
         \/ keys[importers[i].key].state = "enabled"
         \/ importers[i].key \in crossed
         \/ \E a \in CAs : cas[a].key = importers[i].key

AllJudged == \A i \in Importers : Judged(i)

(* What a cancellation destroys has crossed it, and a job that is open names  *)
(* no CA's key but one that crossed.                                          *)
Crossings ==
    /\ job.state \in Open \union {"none"} /\ Taken(job.key) => job.key \in crossed
    /\ \A i \in Importers : importers[i].op = "cancel" => importers[i].key \in crossed

(* A key that is there or on its way is owned.                                *)
JobHas(k) ==
    job.key = k \/ \E i \in Importers : importers[i].op = "imported" /\ importers[i].key = k

KeysOwned ==
    \A k \in Keys :
        keys[k].state \in {"pending", "enabled"} /\ k \notin stranded
        => Taken(k) \/ JobHas(k) \/ \E r \in Requests : requests[r].key = k

IndInv ==
    /\ AuthoritiesTypeOK /\ ImportTypeOK /\ RowsHaveKeys /\ PendingIsImported /\ MakersHoldKeys
    /\ RequestsNameCAs /\ DecidedUnbound /\ RootsAreOne /\ StatusIsRecorded /\ ImportersHoldKeys
    /\ OwnKeys /\ AllJudged /\ Crossings
    /\ KeyServesCA /\ KeysOwned /\ OneCAPerKey /\ ImportedKeyFits /\ JobNamesItsCA

USE AuthoritiesAssumption, ImportAssumption

----------------------------------------------------------------------------
(* What the steps leave of the provider's keys.                              *)

KeyRow == [state : {"none", "pending", "enabled", "failed", "destroyed"}, imported : BOOLEAN,
           fits : BOOLEAN]
OnlyKey(k) == keys' \in [Keys -> KeyRow] /\ \A j \in Keys \ {k} : keys'[j] = keys[j]
SameKey(k) == /\ keys'[k].imported <=> keys[k].imported
              /\ keys'[k].fits <=> keys[k].fits

Made(k) == /\ OnlyKey(k) /\ keys[k].state = "none"
           /\ keys'[k].state = "enabled" /\ ~keys'[k].imported /\ keys'[k].fits
Destroyed(k) == OnlyKey(k) /\ SameKey(k) /\ keys'[k].state = "destroyed"
Unwrapped(k) == /\ OnlyKey(k) /\ SameKey(k)
                /\ keys[k].state = "pending" /\ keys'[k].state \in {"enabled", "failed"}
Given(k) == /\ OnlyKey(k) /\ keys[k].state = "none"
            /\ keys'[k].state = "pending" /\ keys'[k].imported

(* One row of the provider's is written.                                     *)
LEMMA KeySet ==
  ASSUME AuthoritiesTypeOK, NEW k \in Keys, NEW d \in KeyRow, keys' = [keys EXCEPT ![k] = d]
  PROVE  OnlyKey(k) /\ keys'[k] = d
<1>1. keys \in [Keys -> KeyRow]
  BY DEF AuthoritiesTypeOK, KeyRow
<1> QED
  BY <1>1 DEF OnlyKey

(* CreateSigningKey: enabled, the console's own.                             *)
LEMMA MadeEffect ==
  ASSUME AuthoritiesTypeOK, NEW k \in Keys, CreateSigningKey(k)
  PROVE  Made(k)
<1> DEFINE d == [state |-> "enabled", imported |-> FALSE, fits |-> TRUE]
<1>1. d \in KeyRow
  BY DEF KeyRow
<1>2. keys' = [keys EXCEPT ![k] = d]
  BY DEF CreateSigningKey
<1>3. d.state = "enabled" /\ ~d.imported /\ d.fits
  OBVIOUS
<1>4. keys[k].state = "none"
  BY DEF CreateSigningKey, NewKey, Earliest
<1> HIDE DEF d
<1> QED
  BY <1>1, <1>2, <1>3, <1>4, KeySet DEF Made

(* A change of state keeps the origin and the fit of a key.                  *)
LEMMA KeyStateSet ==
  ASSUME AuthoritiesTypeOK, NEW k \in Keys,
         NEW v \in {"none", "pending", "enabled", "failed", "destroyed"},
         keys' = [keys EXCEPT ![k].state = v]
  PROVE  OnlyKey(k) /\ SameKey(k) /\ keys'[k].state = v
<1> DEFINE d == [keys[k] EXCEPT !.state = v]
<1>1. keys[k] \in KeyRow
  BY DEF AuthoritiesTypeOK, KeyRow
<1>2. d \in KeyRow /\ d.state = v /\ (d.imported <=> keys[k].imported) /\ (d.fits <=> keys[k].fits)
  BY <1>1, Zenon DEF KeyRow
<1>3. keys' = [keys EXCEPT ![k] = d]
  OBVIOUS
<1> HIDE DEF d
<1> QED
  BY <1>2, <1>3, KeySet DEF SameKey

(* DestroyKeyVersion destroys one key and touches no other.                   *)
LEMMA DestroyEffect ==
  ASSUME AuthoritiesTypeOK, NEW k \in Keys, DestroyKeyVersion(k)
  PROVE  Destroyed(k)
  BY KeyStateSet DEF DestroyKeyVersion, Destroyed

(* The provider unwraps an imported key, or fails to.                         *)
LEMMA UnwrapEffect ==
  ASSUME AuthoritiesTypeOK, NEW k \in Keys, ImportedKeyState(k)
  PROVE  Unwrapped(k)
<1>1. PICK v \in {"enabled", "failed"} : keys' = [keys EXCEPT ![k].state = v]
  BY DEF ImportedKeyState
<1> QED
  BY <1>1, KeyStateSet DEF ImportedKeyState, Unwrapped

(* A key that is to be imported takes an unused place.                        *)
LEMMA GivenEffect ==
  ASSUME AuthoritiesTypeOK, NEW k \in Keys, NewKey(k), NEW fits \in BOOLEAN,
         keys' = [keys EXCEPT ![k] = [state |-> "pending", imported |-> TRUE, fits |-> fits]]
  PROVE  Given(k)
<1> DEFINE d == [state |-> "pending", imported |-> TRUE, fits |-> fits]
<1>1. d \in KeyRow /\ d.state = "pending" /\ d.imported
  BY Zenon DEF KeyRow
<1>2. keys[k].state = "none"
  BY DEF NewKey, Earliest
<1> HIDE DEF d
<1> QED
  BY <1>1, <1>2, KeySet DEF Given, d

(* The key of a request that failed is destroyed, or left to be cleaned up.  *)
Cleaned(k) == \/ Destroyed(k) /\ UNCHANGED stranded
              \/ stranded' = stranded \union {k} /\ UNCHANGED keys

(* destroyOnError destroys the key, or strands it.                            *)
LEMMA CleanEffect ==
  ASSUME AuthoritiesTypeOK, NEW k \in Keys, destroyOnError(k)
  PROVE  Cleaned(k)
  BY DestroyEffect DEF destroyOnError, Cleaned

----------------------------------------------------------------------------
(* What they leave of the rows and of the requests.                          *)

RequestRow == [op : {"none", "create", "sign", "insert", "status", "destroy", "mark"},
               ca : CAs \union {None}, key : Keys \union {None},
               type : {CATypeRoot, CATypeIssuing, None}, status : Statuses \union {None},
               era : 0..MaxEra]
OnlyRequest(r) == /\ requests' \in [Requests -> RequestRow]
                  /\ \A q \in Requests \ {r} : requests'[q] = requests[q]

Ended(r) ==
    /\ OnlyRequest(r) /\ requests'[r].op = "none" /\ requests'[r].key = None /\ requests'[r].era = 0
Begun(r, op, a, k, type, new) ==
    /\ OnlyRequest(r) /\ requests[r].op = "none"
    /\ requests'[r].op = op /\ requests'[r].ca = a /\ requests'[r].key = k
    /\ requests'[r].type = type /\ requests'[r].status = new /\ requests'[r].era = endpoint.era
Advanced(r, op) ==
    /\ OnlyRequest(r)
    /\ requests'[r].op = op /\ requests'[r].ca = requests[r].ca /\ requests'[r].key = requests[r].key
    /\ requests'[r].type = requests[r].type /\ requests'[r].status = requests[r].status
    /\ requests'[r].era = requests[r].era

CARow == [status : Statuses \union {"absent", "deleted"}, type : {CATypeRoot, CATypeIssuing, None},
          parent : CAs \union {None}, key : Keys \union {None},
          said : Statuses \union {"nothing", "created", "rotated", "deleted"}]
Restated(a, v, said) ==
    /\ CA(a) /\ cas' \in [CAs -> CARow] /\ cas'[a].status = v /\ cas'[a].said = said
    /\ cas'[a].type = cas[a].type /\ cas'[a].parent = cas[a].parent /\ cas'[a].key = cas[a].key
Added(a, type, parent, k) ==
    /\ cas[a].status = "absent" /\ cas' \in [CAs -> CARow]
    /\ cas'[a].status = "active" /\ cas'[a].type = type /\ cas'[a].parent = parent
    /\ cas'[a].key = k /\ cas'[a].said = "created"

(* A row is inserted; a rotation retires the one it replaces, if it is there. *)
Inserted(r, a) ==
    /\ requests[r].op = "insert" /\ CreateCA(requests[r].type, requests[r].key)
    /\ Added(a, requests[r].type, ParentOf(r), requests[r].key)
    /\ \A b \in CAs \ {a} :
         \/ cas'[b] = cas[b]
         \/ Rotating(r) /\ b = requests[r].ca /\ Restated(b, "retired", "rotated")
    /\ UNCHANGED <<keys, stranded>>

(* InsertCA writes one row, or its key is cleaned up.                         *)
LEMMA InsertEffect ==
  ASSUME AuthoritiesTypeOK, MakersHoldKeys, NEW r \in Requests, InsertCA(r)
  PROVE  \/ \E a \in CAs : Inserted(r, a)
         \/ Cleaned(requests[r].key) /\ UNCHANGED cas
<1> DEFINE k == requests[r].key
           old == requests[r].ca
           row == [status |-> "active", type |-> requests[r].type, parent |-> ParentOf(r),
                   key |-> k, said |-> "created"]
           rows(a) == [cas EXCEPT ![a] = row]
<1>1. /\ requests[r].op = "insert" /\ k \in Keys /\ (Rotating(r) => old \in CAs)
      /\ requests[r].type \in {CATypeRoot, CATypeIssuing} /\ ParentOf(r) \in CAs \union {None}
  BY DEF InsertCA, manager, MakersHoldKeys, HoldsKey, Making, ParentOf, AuthoritiesTypeOK
<1>2. CASE ~CreateCA(requests[r].type, k)
  BY <1>1, <1>2, CleanEffect DEF InsertCA
<1>3. CASE CreateCA(requests[r].type, k)
  <2>1. PICK a \in CAs :
          /\ NewCA(a)
          /\ cas' = IF Rotating(r) THEN RotateIssuingCA(rows(a), old, a) ELSE rows(a)
    BY <1>3 DEF InsertCA
  <2>2. UNCHANGED <<keys, stranded>>
    BY <1>3 DEF InsertCA, Unreplaced
  <2>3. cas[a].status = "absent"
    BY <2>1 DEF NewCA, Earliest
  <2>4. cas \in [CAs -> CARow]
    BY DEF AuthoritiesTypeOK, CARow
  <2>5. row \in CARow /\ rows(a) = [cas EXCEPT ![a] = row]
    BY <1>1 DEF CARow, Statuses
  <2>6. /\ row.status = "active" /\ row.type = requests[r].type /\ row.parent = ParentOf(r)
        /\ row.key = k /\ row.said = "created"
    OBVIOUS
  <2> DEFINE R == rows(a)
  <2> HIDE DEF row, rows
  <2>7. R \in [CAs -> CARow] /\ R[a] = row /\ \A b \in CAs \ {a} : R[b] = cas[b]
    BY <2>4, <2>5
  <2>8. ASSUME cas' \in [CAs -> CARow], cas'[a] = row
        PROVE  Added(a, requests[r].type, ParentOf(r), k)
    BY <2>3, <2>6, <2>8 DEF Added
  <2> HIDE DEF R
  <2>9. CASE Rotating(r) /\ UpdateCAStatus(old)
    <3>1. CA(old) /\ old # a /\ old \in CAs
      BY <1>1, <2>3, <2>9 DEF UpdateCAStatus, CA
    <3>2. cas' = [[R EXCEPT ![old].status = "retired"] EXCEPT ![old].said = "rotated"]
      BY <2>1, <2>9 DEF RotateIssuingCA, RecordCAEvent, R
    <3> DEFINE d == [cas[old] EXCEPT !.status = "retired"]
               e == [d EXCEPT !.said = "rotated"]
               Q == [R EXCEPT ![old].status = "retired"]
    <3>3. /\ d \in CARow /\ d.status = "retired"
          /\ d.type = cas[old].type /\ d.parent = cas[old].parent /\ d.key = cas[old].key
      BY <2>4, <3>1 DEF CARow, Statuses
    <3>4. Q \in [CAs -> CARow] /\ Q[old] = d /\ \A b \in CAs \ {old} : Q[b] = R[b]
      <4>1. R[old] = cas[old]
        BY <2>7, <3>1
      <4>2. Q = [R EXCEPT ![old] = d]
        BY <4>1
      <4> HIDE DEF Q, d
      <4> QED
        BY <2>7, <3>1, <3>3, <4>2
    <3> HIDE DEF d
    <3>5. /\ e \in CARow /\ e.status = d.status /\ e.said = "rotated"
          /\ e.type = d.type /\ e.parent = d.parent /\ e.key = d.key
      BY <3>3 DEF CARow
    <3>6. cas' = [Q EXCEPT ![old] = e]
      BY <3>2, <3>4
    <3> HIDE DEF Q, e
    <3>7. cas' \in [CAs -> CARow] /\ cas'[old] = e /\ \A b \in CAs \ {old} : cas'[b] = R[b]
      BY <3>1, <3>4, <3>5, <3>6
    <3>8. Restated(old, "retired", "rotated")
      BY <3>1, <3>3, <3>5, <3>7 DEF Restated
    <3>9. cas'[a] = row /\ \A b \in CAs \ {a, old} : cas'[b] = cas[b]
      BY <2>7, <3>1, <3>7
    <3> QED
      BY <1>1, <1>3, <2>2, <2>8, <2>9, <3>7, <3>8, <3>9 DEF Inserted
  <2>10. CASE ~(Rotating(r) /\ UpdateCAStatus(old))
    <3>1. cas' = R
      BY <2>1, <2>10 DEF RotateIssuingCA, R
    <3> QED
      BY <1>1, <1>3, <2>2, <2>7, <2>8, <3>1 DEF Inserted
  <2> QED
    BY <2>9, <2>10
<1> QED
  BY <1>2, <1>3

(* An imported CA is inserted.                                               *)
InsertedImport(a, k) ==
    /\ CreateCA(job.type, k) /\ Added(a, job.type, None, k)
    /\ \A b \in CAs \ {a} : cas'[b] = cas[b]

(* An imported key becomes one CA.                                            *)
LEMMA ImportEffect ==
  ASSUME AuthoritiesTypeOK, ImportTypeOK, NEW a \in CAs, NEW k \in Keys, NewCA(a),
         CreateCA(job.type, k), InsertImported(a, k)
  PROVE  InsertedImport(a, k)
<1> DEFINE row == [status |-> "active", type |-> job.type, parent |-> None, key |-> k,
                   said |-> "created"]
<1>1. cas \in [CAs -> CARow] /\ cas[a].status = "absent"
  BY DEF AuthoritiesTypeOK, CARow, NewCA, Earliest
<1>2. row \in CARow /\ cas' = [cas EXCEPT ![a] = row]
  BY DEF CARow, Statuses, ImportTypeOK, InsertImported
<1>3. /\ row.status = "active" /\ row.type = job.type /\ row.parent = None
      /\ row.key = k /\ row.said = "created"
  OBVIOUS
<1> HIDE DEF row
<1>4. cas' \in [CAs -> CARow] /\ cas'[a] = row /\ \A b \in CAs \ {a} : cas'[b] = cas[b]
  BY <1>1, <1>2
<1> QED
  BY <1>1, <1>3, <1>4 DEF Added, InsertedImport


(* One row changes its status; the audit records it of that row.             *)
RowSet(a, v) == Restated(a, v, v) /\ \A b \in CAs \ {a} : cas'[b] = cas[b]

----------------------------------------------------------------------------
(* The steps by what they leave of the CAs, their keys, the endpoint and the  *)
(* requests: what the invariants are proved from.                             *)

MakingBegins(r) ==
    /\ \E k \in Keys, a \in CAs \union {None}, type \in {CATypeRoot, CATypeIssuing},
          new \in {None, "retired"} :
         /\ Made(k) /\ Begun(r, "sign", a, k, type, new)
         /\ new = "retired" => CA(a) /\ checkEndpointBindings(a)
    /\ UNCHANGED <<cas, endpoint, stranded>>

Signs(r) ==
    /\ requests[r].op = "sign" /\ Advanced(r, "insert")
    /\ UNCHANGED <<cas, keys, endpoint, stranded>>

MakingFails(r) ==
    /\ Making(r) /\ Ended(r) /\ Cleaned(requests[r].key) /\ UNCHANGED <<cas, endpoint>>

MakingEnds(r) == Ended(r) /\ (\E a \in CAs : Inserted(r, a)) /\ UNCHANGED endpoint

RetiringBegins(r) ==
    /\ \E a \in CAs, op \in {"status", "destroy"}, new \in Statuses \union {None} :
         /\ Begun(r, op, a, None, None, new) /\ CA(a)
         /\ op = "status" => new \in Statuses
         /\ op = "destroy" \/ new # "active" => checkEndpointBindings(a)
    /\ UNCHANGED <<cas, keys, endpoint, stranded>>

RetiringEnds(r) ==
    /\ requests[r].op \in {"status", "mark"} /\ Ended(r)
    /\ \E v \in Statuses \union {"deleted"} :
         /\ requests[r].op = "mark" => v = "deleted"
         /\ requests[r].op = "status" => v = requests[r].status
         /\ RowSet(requests[r].ca, v) \/ (~CA(requests[r].ca) /\ UNCHANGED cas)
    /\ UNCHANGED <<keys, endpoint, stranded>>

KeyGoes(r) ==
    /\ requests[r].op = "destroy" /\ Advanced(r, "mark")
    /\ Destroyed(cas[requests[r].ca].key) /\ UNCHANGED <<cas, endpoint, stranded>>

KeyStays(r) ==
    /\ requests[r].op = "destroy" /\ Ended(r) /\ UNCHANGED <<cas, keys, endpoint, stranded>>

IsLost(r) ==
    /\ requests[r].op # "none" /\ Ended(r)
    /\ stranded' = stranded \union
         (IF requests[r].op = "mark" THEN {cas[requests[r].ca].key}
          ELSE {requests[r].key} \ {None})
    /\ UNCHANGED <<cas, keys, endpoint>>

EndpointRow == [ca : CAs \union {None}, kind : {"scep", "acme", "est", None}, enabled : BOOLEAN,
                era : 0..MaxEra]
Rebinds ==
    /\ endpoint' \in EndpointRow /\ endpoint'.era > endpoint.era
    /\ endpoint'.enabled => endpoint'.ca # None
    /\ endpoint'.ca # None => endpoint'.kind \in {"scep", "acme", "est"}
    /\ UNCHANGED <<cas, keys, requests, stranded>>

ConsoleKind ==
    \/ \E r \in Requests :
         \/ MakingBegins(r) \/ Signs(r) \/ MakingFails(r) \/ MakingEnds(r)
         \/ RetiringBegins(r) \/ RetiringEnds(r) \/ KeyGoes(r) \/ KeyStays(r) \/ IsLost(r)
    \/ Rebinds

ImportedBy(i, k) ==
    /\ importers[i].op \in {"finalize", "imported"} /\ importers[i].key = k
    /\ importers'[i].op = "none"
ImportedInserts ==
    /\ \E a \in CAs, k \in Keys :
         /\ InsertedImport(a, k) /\ Imported(k) /\ keys[k].fits
         /\ keys[k].state = "enabled" \/ k \in crossed
         /\ stranded \subseteq stranded' \union {k} /\ stranded' \subseteq Keys
         /\ \E i \in Importers : ImportedBy(i, k)
    /\ job'.state = "completed" /\ UNCHANGED <<keys, endpoint, requests>>

(* An imported key is destroyed that no CA and no judged import needs, or one *)
(* that crossed a cancellation.                                               *)
Loose(k) ==
    ~Taken(k) /\ \A i \in Importers : importers[i].op = "finalize" => importers[i].key # k
ImportedKeyChanges ==
    /\ \E k \in Keys :
         \/ Unwrapped(k)
         \/ Given(k) /\ JobHas(k)'
         \/ Destroyed(k) /\ Imported(k) /\ (k \in crossed \/ Loose(k))
    /\ UNCHANGED <<cas, endpoint, requests, stranded>>

KeysLeft ==
    /\ stranded \subseteq stranded' /\ stranded' \subseteq Keys
    /\ UNCHANGED <<cas, keys, endpoint, requests>>

Kind == ConsoleKind \/ ImportedInserts \/ ImportedKeyChanges \/ KeysLeft

(* Assigning one request leaves the others.                                   *)
LEMMA RequestSet ==
  ASSUME AuthoritiesTypeOK, NEW r \in Requests, NEW d \in RequestRow,
         requests' = [requests EXCEPT ![r] = d]
  PROVE  OnlyRequest(r) /\ requests'[r] = d
<1>1. requests \in [Requests -> RequestRow]
  BY DEF AuthoritiesTypeOK, RequestRow
<1> QED
  BY <1>1 DEF OnlyRequest

(* A request that ends frees its own place only.                              *)
LEMMA EndEffect ==
  ASSUME AuthoritiesTypeOK, NEW r \in Requests, End(r)
  PROVE  Ended(r)
<1>1. NoRequest \in RequestRow
  BY DEF NoRequest, RequestRow
<1>2. OnlyRequest(r) /\ requests'[r] = NoRequest
  BY <1>1, RequestSet DEF End
<1> QED
  BY <1>2 DEF Ended, NoRequest

(* A request that goes on changes only its own next step.                     *)
LEMMA ProceedEffect ==
  ASSUME AuthoritiesTypeOK, NEW r \in Requests, NEW op \in {"insert", "mark"}, Proceed(r, op)
  PROVE  Advanced(r, op)
<1>1. requests' = [requests EXCEPT ![r] = [requests[r] EXCEPT !.op = op]]
  BY DEF Proceed
<1> DEFINE d == [requests[r] EXCEPT !.op = op]
<1>2. requests[r] \in RequestRow
  BY DEF AuthoritiesTypeOK, RequestRow
<1>3. /\ d \in RequestRow /\ d.op = op /\ d.ca = requests[r].ca /\ d.key = requests[r].key
      /\ d.type = requests[r].type /\ d.status = requests[r].status /\ d.era = requests[r].era
  BY <1>2 DEF RequestRow
<1> HIDE DEF d
<1>4. OnlyRequest(r) /\ requests'[r] = d
  BY <1>1, <1>3, RequestSet DEF d
<1> QED
  BY <1>3, <1>4 DEF Advanced

(* A change of the endpoint opens a new era.                                  *)
LEMMA ChangeEffect ==
  ASSUME AuthoritiesTypeOK, NEW e \in EndpointRow, Changed(e), e.enabled => e.ca # None,
         e.ca # None => e.kind \in {"scep", "acme", "est"}
  PROVE  Rebinds
<1> DEFINE n == endpoint.era + 1
           d == [e EXCEPT !.era = n]
<1>1. n \in 0..MaxEra /\ n > endpoint.era
  BY DEF Changed, AuthoritiesTypeOK
<1> HIDE DEF n
<1>2. d \in EndpointRow
  BY <1>1, Zenon DEF EndpointRow
<1>3. d.era = n /\ d.kind = e.kind /\ d.enabled = e.enabled /\ d.ca = e.ca
  BY DEF EndpointRow
<1>4. endpoint' = d /\ UNCHANGED <<cas, keys, requests, stranded>>
  BY DEF Changed, n
<1> HIDE DEF d
<1> QED
  BY <1>1, <1>2, <1>3, <1>4 DEF Rebinds

(* SetCAStatus writes one CA's status, and remembers it.                      *)
LEMMA RowStatusSet ==
  ASSUME AuthoritiesTypeOK, NEW a, CA(a), NEW v \in Statuses \union {"deleted"},
         cas' = [cas EXCEPT ![a].status = v, ![a].said = v]
  PROVE  RowSet(a, v)
<1>1. a \in CAs /\ cas \in [CAs -> CARow]
  BY DEF CA, AuthoritiesTypeOK, CARow
<1> DEFINE d == [[cas[a] EXCEPT !.status = v] EXCEPT !.said = v]
<1>2. cas' = [cas EXCEPT ![a] = d]
  BY <1>1
<1>3. cas[a] \in CARow
  BY <1>1
<1>4. /\ d \in CARow /\ d.status = v /\ d.said = v
      /\ d.type = cas[a].type /\ d.parent = cas[a].parent /\ d.key = cas[a].key
  BY <1>3 DEF CARow
<1> HIDE DEF d
<1>5. cas' \in [CAs -> CARow] /\ cas'[a] = d /\ \A b \in CAs \ {a} : cas'[b] = cas[b]
  BY ZenonT(30), <1>1, <1>2, <1>4
<1> QED
  BY <1>4, <1>5 DEF RowSet, Restated

(* A console step is of one of the kinds.                                    *)
LEMMA ConsoleKinds ==
  ASSUME AuthoritiesTypeOK, RowsHaveKeys, MakersHoldKeys, RequestsNameCAs, DecidedUnbound,
         AuthoritiesNext
  PROVE  ConsoleKind
<1>1. ASSUME NEW r \in Requests, NEW type \in {CATypeRoot, CATypeIssuing},
             NEW p \in CAs \union {None}, create(r, type, p)
      PROVE  MakingBegins(r)
  <2>1. PICK k \in Keys :
          /\ CreateSigningKey(k)
          /\ Begin(r, [NoRequest EXCEPT !.op = "sign", !.key = k, !.type = type, !.ca = p])
    BY <1>1 DEF create
  <2>2. requests[r].op = "none" /\ endpoint.era \in 0..MaxEra
    BY <2>1 DEF Begin, AuthoritiesTypeOK
  <2> DEFINE d == [[NoRequest EXCEPT !.op = "sign", !.key = k, !.type = type, !.ca = p]
                     EXCEPT !.era = endpoint.era]
  <2>3. Begun(r, "sign", p, k, type, None)
    <3>1. d \in RequestRow
      BY <2>2 DEF NoRequest, RequestRow
    <3>2. OnlyRequest(r) /\ requests'[r] = d
      BY <3>1, <2>1, RequestSet DEF Begin
    <3>3. /\ d.op = "sign" /\ d.ca = p /\ d.key = k /\ d.type = type /\ d.status = None
          /\ d.era = endpoint.era
      BY DEF NoRequest
    <3> HIDE DEF d
    <3> QED
      BY <2>2, <3>1, <3>2, <3>3 DEF Begun
  <2>4. Made(k)
    BY <2>1, MadeEffect
  <2>5. None # "retired" /\ UNCHANGED <<cas, endpoint, stranded>>
    BY <1>1 DEF create
  <2> QED
    BY <2>3, <2>4, <2>5 DEF MakingBegins
<1>2. ASSUME NEW r \in Requests, NEW a \in CAs, rotate(r, a) PROVE MakingBegins(r)
  <2>1. PICK k \in Keys :
          /\ CreateSigningKey(k)
          /\ Begin(r, [NoRequest EXCEPT !.op = "sign", !.key = k, !.type = CATypeIssuing,
                                       !.ca = a, !.status = "retired"])
    BY <1>2 DEF rotate
  <2>2. requests[r].op = "none" /\ endpoint.era \in 0..MaxEra
    BY <2>1 DEF Begin, AuthoritiesTypeOK
  <2> DEFINE d == [[NoRequest EXCEPT !.op = "sign", !.key = k, !.type = CATypeIssuing,
                                     !.ca = a, !.status = "retired"]
                     EXCEPT !.era = endpoint.era]
  <2>3. Begun(r, "sign", a, k, CATypeIssuing, "retired")
    <3>1. d \in RequestRow
      BY <2>2 DEF NoRequest, RequestRow, Statuses
    <3>2. OnlyRequest(r) /\ requests'[r] = d
      BY <3>1, <2>1, RequestSet DEF Begin
    <3>3. /\ d.op = "sign" /\ d.ca = a /\ d.key = k /\ d.type = CATypeIssuing
          /\ d.status = "retired" /\ d.era = endpoint.era
      BY DEF NoRequest
    <3> HIDE DEF d
    <3> QED
      BY <2>2, <3>1, <3>2, <3>3 DEF Begun
  <2>4. Made(k)
    BY <2>1, MadeEffect
  <2>5. CA(a) /\ checkEndpointBindings(a) /\ UNCHANGED <<cas, endpoint, stranded>>
    BY <1>2 DEF rotate
  <2> QED
    BY <2>3, <2>4, <2>5 DEF MakingBegins
<1>3. ASSUME NEW r \in Requests, CreateCertificate(r) PROVE Signs(r) \/ MakingFails(r)
  <2>1. CASE KeyInfo(SignerKey(r))
    BY <1>3, <2>1, ProceedEffect DEF CreateCertificate, manager, Signs
  <2>2. CASE ~KeyInfo(SignerKey(r))
    <3>1. Making(r) /\ requests[r].key \in Keys
      BY <1>3 DEF CreateCertificate, manager, Making, MakersHoldKeys, HoldsKey
    <3>2. destroyOnError(requests[r].key) /\ End(r) /\ UNCHANGED <<cas, endpoint>>
      BY <1>3, <2>2 DEF CreateCertificate
    <3> QED
      BY <3>1, <3>2, CleanEffect, EndEffect DEF MakingFails
  <2> QED
    BY <2>1, <2>2
<1>4. ASSUME NEW r \in Requests, InsertCA(r) PROVE MakingEnds(r) \/ MakingFails(r)
  <2>1. Making(r) /\ End(r) /\ UNCHANGED endpoint
    BY <1>4 DEF InsertCA, manager, Making
  <2> QED
    BY <1>4, <2>1, InsertEffect, EndEffect DEF MakingEnds, MakingFails
<1>5. ASSUME NEW r \in Requests, NEW a \in CAs, NEW new \in Statuses, status(r, a, new)
      PROVE  RetiringBegins(r)
  <2>1. requests[r].op = "none" /\ endpoint.era \in 0..MaxEra
    BY <1>5 DEF status, Begin, AuthoritiesTypeOK
  <2> DEFINE d == [[NoRequest EXCEPT !.op = "status", !.ca = a, !.status = new]
                     EXCEPT !.era = endpoint.era]
  <2>2. Begun(r, "status", a, None, None, new)
    <3>1. d \in RequestRow
      BY <2>1 DEF NoRequest, RequestRow
    <3>2. OnlyRequest(r) /\ requests'[r] = d
      BY <3>1, <1>5, RequestSet DEF status, Begin
    <3>3. /\ d.op = "status" /\ d.ca = a /\ d.key = None /\ d.type = None
          /\ d.status = new /\ d.era = endpoint.era
      BY DEF NoRequest
    <3> HIDE DEF d
    <3> QED
      BY <2>1, <3>1, <3>2, <3>3 DEF Begun
  <2>3. CA(a) /\ (new # "active" => checkEndpointBindings(a))
        /\ UNCHANGED <<cas, keys, endpoint, stranded>>
    BY <1>5 DEF status
  <2> QED
    BY <2>2, <2>3 DEF RetiringBegins
<1>6. ASSUME NEW r \in Requests, NEW a \in CAs, delete(r, a) PROVE RetiringBegins(r)
  <2>1. requests[r].op = "none" /\ endpoint.era \in 0..MaxEra
    BY <1>6 DEF delete, Begin, AuthoritiesTypeOK
  <2> DEFINE d == [[NoRequest EXCEPT !.op = "destroy", !.ca = a]
                     EXCEPT !.era = endpoint.era]
  <2>2. Begun(r, "destroy", a, None, None, None)
    <3>1. d \in RequestRow
      BY <2>1 DEF NoRequest, RequestRow
    <3>2. OnlyRequest(r) /\ requests'[r] = d
      BY <3>1, <1>6, RequestSet DEF delete, Begin
    <3>3. /\ d.op = "destroy" /\ d.ca = a /\ d.key = None /\ d.type = None
          /\ d.status = None /\ d.era = endpoint.era
      BY DEF NoRequest
    <3> HIDE DEF d
    <3> QED
      BY <2>1, <3>1, <3>2, <3>3 DEF Begun
  <2>3. CA(a) /\ checkEndpointBindings(a) /\ UNCHANGED <<cas, keys, endpoint, stranded>>
    BY <1>6 DEF delete
  <2> QED
    BY <2>2, <2>3 DEF RetiringBegins
<1>7. ASSUME NEW r \in Requests, SetCAStatus(r) PROVE RetiringEnds(r)
  <2>1. /\ requests[r].op = "status" /\ End(r) /\ UNCHANGED <<keys, endpoint, stranded>>
        /\ cas' = IF CA(requests[r].ca)
                  THEN [cas EXCEPT ![requests[r].ca].status = requests[r].status,
                                   ![requests[r].ca].said = requests[r].status]
                  ELSE cas
    BY <1>7 DEF SetCAStatus, manager, UpdateCAStatus, caStatusPurpose
  <2>2. CASE CA(requests[r].ca)
    <3>2. requests[r].status \in Statuses
      BY <2>1 DEF RequestsNameCAs, NamesCA
    <3>1. RowSet(requests[r].ca, requests[r].status)
      BY <2>1, <2>2, <3>2, RowStatusSet
    <3>3. \E v \in Statuses \union {"deleted"} :
            /\ requests[r].op = "mark" => v = "deleted"
            /\ requests[r].op = "status" => v = requests[r].status
            /\ RowSet(requests[r].ca, v) \/ (~CA(requests[r].ca) /\ UNCHANGED cas)
      <4> USE <3>2
      <4> WITNESS requests[r].status \in Statuses \union {"deleted"}
      <4> QED
        BY <2>1, <3>1
    <3> QED
      BY <2>1, <3>3, EndEffect DEF RetiringEnds
  <2>3. requests[r].status \in Statuses
    BY <2>1 DEF RequestsNameCAs, NamesCA
  <2> QED
    BY <2>1, <2>2, <2>3, EndEffect DEF RetiringEnds
<1>8. ASSUME NEW r \in Requests, deleteDestroy(r) PROVE KeyGoes(r) \/ KeyStays(r)
  <2>1. requests[r].op = "destroy" /\ cas[requests[r].ca].key \in Keys
    BY <1>8 DEF deleteDestroy, manager, RequestsNameCAs, NamesCA, RowsHaveKeys
  <2>2. UNCHANGED <<cas, endpoint, stranded>>
    BY <1>8 DEF deleteDestroy
  <2>3. CASE DestroyKeyVersion(cas[requests[r].ca].key) /\ Proceed(r, "mark")
    BY <2>1, <2>2, <2>3, DestroyEffect, ProceedEffect DEF KeyGoes
  <2>4. CASE End(r) /\ UNCHANGED keys
    BY <2>1, <2>2, <2>4, EndEffect DEF KeyStays
  <2> QED
    BY <1>8, <2>3, <2>4 DEF deleteDestroy
<1>9. ASSUME NEW r \in Requests, DeleteCA(r) PROVE RetiringEnds(r)
  <2>1. /\ requests[r].op = "mark" /\ End(r) /\ UNCHANGED <<keys, endpoint, stranded>>
        /\ cas' = IF CA(requests[r].ca)
                  THEN [cas EXCEPT ![requests[r].ca].status = "deleted",
                                   ![requests[r].ca].said = "deleted"]
                  ELSE cas
    BY <1>9 DEF DeleteCA, manager, MarkCADeleted
  <2>2. CASE CA(requests[r].ca)
    <3>1. RowSet(requests[r].ca, "deleted")
      BY <2>1, <2>2, RowStatusSet
    <3>2. \E v \in Statuses \union {"deleted"} :
            /\ requests[r].op = "mark" => v = "deleted"
            /\ requests[r].op = "status" => v = requests[r].status
            /\ RowSet(requests[r].ca, v) \/ (~CA(requests[r].ca) /\ UNCHANGED cas)
      <4> WITNESS "deleted" \in Statuses \union {"deleted"}
      <4> QED
        BY <2>1, <3>1
    <3> QED
      BY <2>1, <3>2, EndEffect DEF RetiringEnds
  <2> QED
    BY <2>1, <2>2, EndEffect DEF RetiringEnds
<1>10. ASSUME NEW r \in Requests, LoseTransaction(r) PROVE IsLost(r)
  BY <1>10, EndEffect DEF LoseTransaction, IsLost
<1>11. ASSUME Binding PROVE Rebinds
  <2>1. endpoint \in EndpointRow /\ (endpoint.enabled => endpoint.ca # None)
    BY DEF AuthoritiesTypeOK, EndpointRow
  <2>2. ASSUME NEW a \in CAs, NEW kind \in {"scep", "acme", "est"}, endpoint.ca = None,
               Changed([endpoint EXCEPT !.ca = a, !.kind = kind])
        PROVE  Rebinds
    <3> DEFINE e == [endpoint EXCEPT !.ca = a, !.kind = kind]
    <3>1. e \in EndpointRow /\ e.ca = a /\ e.kind = kind
      BY <2>1, Zenon DEF EndpointRow
    <3> HIDE DEF e
    <3>2. Changed(e)
      BY <2>2 DEF e
    <3> QED
      BY <3>1, <3>2, ChangeEffect
  <2>3. ASSUME NEW on \in BOOLEAN, EnableBoundEndpoint(on) PROVE Rebinds
    <3> DEFINE e == [endpoint EXCEPT !.enabled = on]
    <3>1. e \in EndpointRow /\ e.ca = endpoint.ca /\ e.kind = endpoint.kind
      BY <2>1, Zenon DEF EndpointRow
    <3> HIDE DEF e
    <3>2. Changed(e) /\ endpoint.ca # None
      BY <2>3 DEF EnableBoundEndpoint, e
    <3> QED
      BY <3>1, <3>2, ChangeEffect DEF DecidedUnbound
  <2>4. ASSUME DeleteBoundEndpoint PROVE Rebinds
    <3> DEFINE e == [endpoint EXCEPT !.ca = None, !.kind = None, !.enabled = FALSE]
    <3>1. e \in EndpointRow /\ e.ca = None /\ ~e.enabled
      BY <2>1, Zenon DEF EndpointRow
    <3> HIDE DEF e
    <3>2. Changed(e)
      BY <2>4 DEF DeleteBoundEndpoint, e
    <3> QED
      BY <3>1, <3>2, ChangeEffect
  <2> QED
    BY <1>11, <2>2, <2>3, <2>4
       DEF Binding, CreateSCEPEndpoint, CreateACMEEndpoint, CreateESTEndpoint
<1> QED
  BY <1>1, <1>2, <1>3, <1>4, <1>5, <1>6, <1>7, <1>8, <1>9, <1>10, <1>11
     DEF AuthoritiesNext, Console, ConsoleKind

(* An imported key that a CA has or a judged import needs crossed, when it is *)
(* destroyed: it was rejected, read to be cancelled, or a request's own.      *)
LEMMA ImportDestroys ==
  ASSUME AuthoritiesTypeOK, ImportersHoldKeys, OwnKeys, AllJudged, Crossings, ImportedKeyFits,
         NEW i \in Importers, importers[i].op \in {"reject", "cancel", "imported"}
  PROVE  /\ Imported(importers[i].key)
         /\ importers[i].key \in crossed \/ Loose(importers[i].key)
<1>1. Imported(importers[i].key) /\ ImporterHoldsKey(i)
  BY DEF ImportersHoldKeys, ImporterHoldsKey
<1>2. CASE importers[i].op = "reject"
  <2>1. ~keys[importers[i].key].fits
    BY <1>2 DEF AllJudged, Judged
  <2>2. ~Taken(importers[i].key)
    BY <2>1 DEF Taken, ImportedKeyFits
  <2>3. ASSUME NEW j \in Importers, importers[j].op = "finalize"
        PROVE  keys[importers[j].key].fits
    BY <2>3 DEF ImportersHoldKeys, ImporterHoldsKey
  <2> QED
    BY <1>1, <2>1, <2>2, <2>3 DEF Loose
<1>3. CASE importers[i].op = "cancel"
  BY <1>1, <1>3 DEF Crossings
<1>4. CASE importers[i].op = "imported"
  <2>1. OwnKey(i)
    BY DEF OwnKeys
  <2> QED
    BY <1>1, <1>4, <2>1 DEF OwnKey, Loose, Taken
<1> QED
  BY <1>2, <1>3, <1>4

(* So is every other step.                                                   *)
LEMMA StepKinds ==
  ASSUME AuthoritiesTypeOK, ImportTypeOK, RowsHaveKeys, MakersHoldKeys, RequestsNameCAs,
         DecidedUnbound, ImportersHoldKeys, OwnKeys, AllJudged, Crossings, ImportedKeyFits,
         [ImportNext]_importVars
  PROVE  Kind
<1>0. stranded \subseteq Keys /\ Replaced \subseteq Keys
  BY DEF AuthoritiesTypeOK, ImportTypeOK, Replaced
<1>1. ASSUME NEW k \in Keys, ImportedKeyState(k) PROVE ImportedKeyChanges
  BY <1>1, UnwrapEffect DEF ImportedKeyState, ImportedKeyChanges
<1>2. ASSUME NEW i \in Importers, EndImport(i) PROVE importers'[i].op = "none"
  BY <1>2 DEF EndImport, NoImporter, ImportTypeOK
<1>3. ASSUME NEW i \in Importers, finalizeImport(i) PROVE ImportedInserts \/ KeysLeft
  <2> DEFINE k == importers[i].key
  <2>1. /\ importers[i].op = "finalize" /\ Imported(k) /\ keys[k].fits /\ ImportedBy(i, k)
        /\ UNCHANGED <<keys, endpoint, requests>>
    BY <1>2, <1>3 DEF finalizeImport, ImportersHoldKeys, ImporterHoldsKey, ImportedBy
  <2>2. CASE CreateCA(job.type, k)
    <3>1. PICK a \in CAs : NewCA(a) /\ InsertImported(a, k) /\ CompleteCAImportJob(a, k)
      BY <1>3, <2>2 DEF finalizeImport
    <3>2. stranded' = stranded \ {k} /\ job'.state = "completed"
      BY <1>3, <2>2, <3>1 DEF finalizeImport, CompleteCAImportJob, ImportTypeOK
    <3>3. keys[k].state = "enabled" \/ k \in crossed
      BY <2>1, <2>2 DEF AllJudged, Judged, CreateCA
    <3>4. k \in Keys /\ InsertedImport(a, k)
      BY <2>1, <2>2, <3>1, ImportEffect DEF Imported
    <3> QED
      BY <1>0, <2>1, <3>2, <3>3, <3>4 DEF ImportedInserts
  <2>3. CASE ~CreateCA(job.type, k)
    BY <1>0, <1>3, <2>1, <2>3 DEF finalizeImport, KeysLeft
  <2> QED
    BY <2>2, <2>3
<1>4. ASSUME NEW i \in Importers, submitCommit(i) PROVE ImportedInserts \/ KeysLeft
  <2> DEFINE k == importers[i].key
  <2>1. /\ importers[i].op = "imported" /\ Imported(k) /\ ImportedBy(i, k) /\ k \in Keys
        /\ UNCHANGED <<keys, endpoint, requests>>
    BY <1>2, <1>4 DEF submitCommit, ImportersHoldKeys, ImporterHoldsKey, ImportedBy, Imported
  <2>2. CASE keys[k].state = "enabled" /\ publicKeysEqual(k) /\ CreateCA(job.type, k)
    <3>1. PICK a \in CAs :
            /\ NewCA(a) /\ InsertImported(a, k) /\ stranded' = stranded \union Replaced
            /\ job' = [SetCAImportJobKeyVersion(k) EXCEPT !.state = "completed", !.ca = a]
      BY <1>4, <2>2 DEF submitCommit
    <3>2. job'.state = "completed"
      BY <3>1 DEF SetCAImportJobKeyVersion, ImportTypeOK
    <3>3. InsertedImport(a, k)
      BY <2>1, <2>2, <3>1, ImportEffect
    <3> QED
      BY <1>0, <2>1, <2>2, <3>1, <3>2, <3>3 DEF ImportedInserts, publicKeysEqual
  <2>3. CASE ~(keys[k].state = "enabled" /\ publicKeysEqual(k) /\ CreateCA(job.type, k))
    <3>1. UNCHANGED cas /\ stranded' \in {stranded \union {k}, stranded \union Replaced}
      BY <1>4, <2>3 DEF submitCommit
    <3> QED
      BY <1>0, <2>1, <3>1 DEF KeysLeft
  <2> QED
    BY <2>2, <2>3
<1>5. ASSUME NEW i \in Importers, importers[i].op \in {"reject", "cancel", "imported"},
             Destroyed(importers[i].key), UNCHANGED <<cas, endpoint, requests, stranded>>
      PROVE  ImportedKeyChanges
  BY <1>5, ImportDestroys DEF ImportedKeyChanges, Imported
<1>6. ASSUME UNCHANGED authoritiesVars PROVE KeysLeft
  BY <1>0, <1>6 DEF authoritiesVars, KeysLeft
<1>7. ASSUME NEW i \in Importers, failImport(i) \/ cancelDestroy(i)
      PROVE  ImportedKeyChanges \/ KeysLeft
  <2>1. /\ importers[i].op \in {"reject", "cancel"}
        /\ DestroyKeyVersion(importers[i].key) \/ UNCHANGED keys
        /\ UNCHANGED <<cas, endpoint, requests, stranded>>
    BY <1>7 DEF failImport, cancelDestroy
  <2>2. importers[i].key \in Keys
    BY <2>1, ImportDestroys DEF Imported
  <2>3. UNCHANGED keys => KeysLeft
    BY <1>0, <2>1 DEF KeysLeft
  <2> QED
    BY <1>5, <2>1, <2>2, <2>3, DestroyEffect
<1>8. ASSUME NEW i \in Importers, ImportWrappedKey(i) PROVE ImportedKeyChanges \/ KeysLeft
  <2>1. UNCHANGED <<cas, endpoint, requests, stranded>>
    BY <1>8 DEF ImportWrappedKey
  <2>2. CASE wrapping = "expired"
    BY <1>0, <1>8, <2>1, <2>2 DEF ImportWrappedKey, KeysLeft
  <2>3. CASE wrapping # "expired"
    <3>1. PICK k \in Submitted, fits \in BOOLEAN :
            /\ NewKey(k)
            /\ keys' = [keys EXCEPT ![k] = [state |-> "pending", imported |-> TRUE, fits |-> fits]]
            /\ importers' = [importers EXCEPT ![i].op = "imported", ![i].key = k]
      BY <1>8, <2>3 DEF ImportWrappedKey
    <3>2. k \in Keys /\ Given(k)
      BY <3>1, GivenEffect
    <3>3. importers'[i].op = "imported" /\ importers'[i].key = k
      BY <3>1 DEF ImportTypeOK
    <3> QED
      BY <2>1, <3>2, <3>3 DEF ImportedKeyChanges, JobHas
  <2> QED
    BY <2>2, <2>3
<1>9. ASSUME NEW i \in Importers, LoseImport(i) PROVE ImportedKeyChanges \/ KeysLeft
  <2>1. UNCHANGED <<cas, endpoint, requests>>
    BY <1>9 DEF LoseImport
  <2>2. CASE importers[i].op = "imported"
    <3>1. importers[i].key \in Keys
      BY <2>2, ImportDestroys DEF Imported
    <3>2. Cleaned(importers[i].key)
      BY <1>9, <2>2, <3>1, CleanEffect DEF LoseImport
    <3>3. CASE stranded' = stranded \union {importers[i].key} /\ UNCHANGED keys
      BY <1>0, <2>1, <3>1, <3>3 DEF KeysLeft
    <3> QED
      BY <1>5, <2>1, <2>2, <3>2, <3>3 DEF Cleaned
  <2>3. CASE importers[i].op # "imported"
    BY <1>0, <1>9, <2>1, <2>3 DEF LoseImport, KeysLeft
  <2> QED
    BY <2>2, <2>3
<1>10. ASSUME AuthoritiesNext PROVE ConsoleKind
  BY <1>10, ConsoleKinds
<1>11. ASSUME NEW i \in Importers, Importing(i) PROVE Kind
  <2>1. CASE SyncCAImport(i) \/ Observe(i) \/ SubmitWrappedKey(i) \/ CancelCAImport(i)
             \/ cancelCommit(i)
    BY <1>6, <2>1 DEF SyncCAImport, Observe, SubmitWrappedKey, CancelCAImport, cancelCommit, Kind
  <2> QED
    BY <1>3, <1>4, <1>7, <1>8, <1>9, <1>11, <2>1 DEF Importing, Kind
<1>12. ASSUME StartCAImport(CATypeRoot) \/ StartCAImport(CATypeIssuing) \/ ImportJob
              \/ UNCHANGED importVars
       PROVE  Kind
  BY <1>6, <1>12 DEF StartCAImport, ImportJob, importVars, Kind
<1> QED
  BY <1>1, <1>10, <1>11, <1>12 DEF ImportNext, Kind

----------------------------------------------------------------------------
(* What every kind of step leaves alone.                                     *)

(* What the types say of keys and requests.                                   *)
LEMMA Types ==
  ASSUME AuthoritiesTypeOK
  PROVE  /\ None \notin CAs /\ None \notin Keys
         /\ \A a \in CAs : cas[a].key \in Keys \union {None}
         /\ \A r \in Requests : /\ requests[r].ca \in CAs \union {None}
                                /\ requests[r].key \in Keys \union {None}
                                /\ requests[r].era \in Nat
         /\ endpoint.era \in Nat
<1>1. None \notin CAs /\ None \notin Keys
  OBVIOUS
<1>2. \A a \in CAs : cas[a].key \in Keys \union {None}
  <2>1. cas \in [CAs -> CARow]
    BY DEF AuthoritiesTypeOK, CARow
  <2> QED
    BY <2>1 DEF CARow, Statuses
<1>3. ASSUME NEW r \in Requests
      PROVE  /\ requests[r].ca \in CAs \union {None} /\ requests[r].key \in Keys \union {None}
             /\ requests[r].era \in Nat
  <2>1. requests[r] \in RequestRow
    BY DEF AuthoritiesTypeOK, RequestRow
  <2> QED
    BY <2>1 DEF RequestRow
<1>4. endpoint \in EndpointRow
  BY DEF AuthoritiesTypeOK, EndpointRow
<1>5. endpoint.era \in Nat
  BY <1>4 DEF EndpointRow
<1> QED
  BY <1>1, <1>2, <1>3, <1>5

(* The keys a request may destroy.                                           *)
LEMMA RequestKeys ==
  ASSUME AuthoritiesTypeOK, RowsHaveKeys, MakersHoldKeys, RequestsNameCAs, NEW r \in Requests
  PROVE  /\ Making(r) => HoldsKey(r)
         /\ ~Making(r) => requests[r].key = None
         /\ requests[r].op \in {"status", "destroy", "mark"} =>
              /\ requests[r].ca \in CAs /\ cas[requests[r].ca].key \in Keys
              /\ ~Making(r)
  BY DEF MakersHoldKeys, RequestsNameCAs, NamesCA, RowsHaveKeys, Making

(* Whatever a step does, it touches at most one key.                          *)
LEMMA KeyEffect ==
  ASSUME AuthoritiesTypeOK, RowsHaveKeys, MakersHoldKeys, RequestsNameCAs, Kind
  PROVE  \/ UNCHANGED keys
         \/ \E k \in Keys : Made(k) \/ Destroyed(k) \/ Unwrapped(k) \/ Given(k)
<1>1. ASSUME NEW r \in Requests, MakingBegins(r)
      PROVE  \E k \in Keys : Made(k)
  BY <1>1 DEF MakingBegins
<1>2. ASSUME NEW r \in Requests, MakingFails(r)
      PROVE  UNCHANGED keys \/ \E k \in Keys : Destroyed(k)
  <2>1. requests[r].key \in Keys
    BY <1>2, RequestKeys DEF MakingFails, HoldsKey
  <2> QED
    BY <1>2, <2>1 DEF MakingFails, Cleaned
<1>3. ASSUME NEW r \in Requests, KeyGoes(r) PROVE \E k \in Keys : Destroyed(k)
  BY <1>3, RequestKeys DEF KeyGoes
<1>4. ASSUME ImportedKeyChanges PROVE \E k \in Keys : Destroyed(k) \/ Unwrapped(k) \/ Given(k)
  BY <1>4 DEF ImportedKeyChanges
<1>5. ASSUME NEW r \in Requests,
             \/ Signs(r) \/ MakingEnds(r) \/ RetiringBegins(r) \/ RetiringEnds(r) \/ KeyStays(r)
             \/ IsLost(r)
      PROVE  UNCHANGED keys
  BY <1>5 DEF Signs, MakingEnds, Inserted, RetiringBegins, RetiringEnds, KeyStays, IsLost
<1>6. ASSUME Rebinds \/ ImportedInserts PROVE UNCHANGED keys
  BY <1>6 DEF Rebinds, ImportedInserts
<1> QED
  BY <1>1, <1>2, <1>3, <1>4, <1>5, <1>6 DEF Kind, ConsoleKind, KeysLeft

(* A key version keeps its origin and its fit; a destroyed one stays gone.   *)
LEMMA KeysStay ==
  ASSUME AuthoritiesTypeOK, RowsHaveKeys, MakersHoldKeys, RequestsNameCAs, Kind,
         NEW k \in Keys, keys[k].state # "none"
  PROVE  /\ keys'[k].state # "none"
         /\ keys'[k].imported <=> keys[k].imported
         /\ keys'[k].fits <=> keys[k].fits
         /\ keys[k].state = "destroyed" => keys'[k].state = "destroyed"
<1>1. CASE UNCHANGED keys
  BY <1>1
<1>2. ASSUME NEW j \in Keys, Made(j) \/ Destroyed(j) \/ Unwrapped(j) \/ Given(j), j # k
      PROVE  keys'[k] = keys[k]
  BY <1>2 DEF Made, Destroyed, Unwrapped, Given, OnlyKey
<1>3. ASSUME Destroyed(k) \/ Unwrapped(k)
      PROVE  /\ keys'[k].state # "none" /\ SameKey(k)
             /\ keys[k].state = "destroyed" => keys'[k].state = "destroyed"
  BY <1>3 DEF Destroyed, Unwrapped
<1>4. ~Made(k) /\ ~Given(k)
  BY DEF Made, Given
<1>5. CASE \E j \in Keys : Made(j) \/ Destroyed(j) \/ Unwrapped(j) \/ Given(j)
  <2>1. PICK j \in Keys : Made(j) \/ Destroyed(j) \/ Unwrapped(j) \/ Given(j)
    BY <1>5
  <2>2. CASE j # k
    <3>1. keys'[k] = keys[k]
      BY <1>2, <2>1, <2>2
    <3> QED
      BY <3>1
  <2>3. CASE j = k
    <3>1. Destroyed(k) \/ Unwrapped(k)
      BY <1>4, <2>1, <2>3
    <3> QED
      BY <1>3, <3>1 DEF SameKey
  <2> QED
    BY <2>2, <2>3
<1> QED
  BY <1>1, <1>5, KeyEffect

(* A row keeps its key, and goes only with a request that marks it deleted.  *)
LEMMA RowsStay ==
  ASSUME Kind, NEW a \in CAs, cas[a].status # "absent"
  PROVE  cas'[a].status # "absent" /\ cas'[a].key = cas[a].key
<1>1. ASSUME NEW b \in CAs, NEW v, NEW said, Restated(b, v, said),
             v \in Statuses \union {"deleted"}, b = a
      PROVE  cas'[a].status # "absent" /\ cas'[a].key = cas[a].key
  BY <1>1 DEF Restated, Statuses
<1>2. ASSUME NEW r \in Requests, MakingEnds(r)
      PROVE  cas'[a].status # "absent" /\ cas'[a].key = cas[a].key
  <2>1. PICK b \in CAs : Inserted(r, b)
    BY <1>2 DEF MakingEnds
  <2>2. b # a
    BY <2>1 DEF Inserted, Added
  <2>3. cas'[a] = cas[a] \/ Restated(a, "retired", "rotated")
    BY <2>1, <2>2 DEF Inserted
  <2> QED
    BY <1>1, <2>3 DEF Statuses
<1>3. ASSUME NEW r \in Requests, RetiringEnds(r)
      PROVE  cas'[a].status # "absent" /\ cas'[a].key = cas[a].key
  <2>1. PICK v \in Statuses \union {"deleted"} :
          RowSet(requests[r].ca, v) \/ (~CA(requests[r].ca) /\ UNCHANGED cas)
    BY <1>3 DEF RetiringEnds
  <2>2. CASE RowSet(requests[r].ca, v)
    <3>1. requests[r].ca \in CAs
      BY <2>2 DEF RowSet, Restated, CA
    <3>2. CASE requests[r].ca # a
      BY <2>2, <3>1, <3>2 DEF RowSet
    <3>3. CASE requests[r].ca = a
      BY <1>1, <2>2, <3>1, <3>3 DEF RowSet
    <3> QED
      BY <3>2, <3>3
  <2> QED
    BY <2>1, <2>2
<1>4. ASSUME ImportedInserts PROVE cas'[a] = cas[a]
  <2>1. PICK b \in CAs, k \in Keys : InsertedImport(b, k)
    BY <1>4 DEF ImportedInserts
  <2>2. b # a
    BY <2>1 DEF InsertedImport, Added
  <2> QED
    BY <2>1, <2>2 DEF InsertedImport
<1>5. ASSUME NEW r \in Requests,
             \/ MakingBegins(r) \/ Signs(r) \/ MakingFails(r) \/ RetiringBegins(r) \/ KeyGoes(r)
             \/ KeyStays(r) \/ IsLost(r)
      PROVE  UNCHANGED cas
  BY <1>5 DEF MakingBegins, Signs, MakingFails, RetiringBegins, KeyGoes, KeyStays, IsLost
<1>6. ASSUME Rebinds \/ ImportedKeyChanges PROVE UNCHANGED cas
  BY <1>6 DEF Rebinds, ImportedKeyChanges
<1> QED
  BY <1>2, <1>3, <1>4, <1>5, <1>6 DEF Kind, ConsoleKind, KeysLeft

(* A row that appears has a key version that is there and no CA had.         *)
LEMMA RowsAppear ==
  ASSUME AuthoritiesTypeOK, MakersHoldKeys, Kind, NEW a \in CAs, cas[a].status = "absent",
         cas'[a] # cas[a]
  PROVE  /\ cas'[a].status = "active" /\ cas'[a].key \in Keys /\ UNCHANGED keys
         /\ keys[cas'[a].key].state # "none" /\ keys[cas'[a].key].fits
         /\ \A b \in CAs : cas[b].key # cas'[a].key
         /\ \A b \in CAs \ {a} : cas'[b] = cas[b] \/ CA(b)
<1>1. ASSUME NEW r \in Requests, MakingEnds(r)
      PROVE  /\ cas'[a].status = "active" /\ cas'[a].key = requests[r].key /\ UNCHANGED keys
             /\ Making(r)
             /\ \A b \in CAs \ {a} : cas'[b] = cas[b] \/ CA(b)
  <2>1. PICK b \in CAs : Inserted(r, b)
    BY <1>1 DEF MakingEnds
  <2>2. b = a
    BY <2>1 DEF Inserted, Restated, CA
  <2> QED
    BY <2>1, <2>2 DEF Inserted, Added, Restated, Making
<1>2. ASSUME NEW r \in Requests, MakingEnds(r)
      PROVE  /\ cas'[a].key \in Keys /\ keys[cas'[a].key].state # "none" /\ keys[cas'[a].key].fits
             /\ \A b \in CAs : cas[b].key # cas'[a].key
  <2>1. HoldsKey(r) /\ cas'[a].key = requests[r].key
    BY <1>1, <1>2 DEF MakersHoldKeys
  <2> QED
    BY <2>1 DEF HoldsKey
<1>3. ASSUME ImportedInserts
      PROVE  /\ cas'[a].status = "active" /\ cas'[a].key \in Keys /\ UNCHANGED keys
             /\ keys[cas'[a].key].state # "none" /\ keys[cas'[a].key].fits
             /\ \A b \in CAs : cas[b].key # cas'[a].key
             /\ \A b \in CAs \ {a} : cas'[b] = cas[b]
  <2>1. PICK b \in CAs, k \in Keys : InsertedImport(b, k) /\ Imported(k) /\ keys[k].fits
    BY <1>3 DEF ImportedInserts
  <2>2. b = a
    BY <2>1 DEF InsertedImport
  <2> QED
    BY <1>3, <2>1, <2>2 DEF InsertedImport, Added, CreateCA, Imported, ImportedInserts
<1>4. ASSUME NEW r \in Requests, RetiringEnds(r) PROVE FALSE
  BY <1>4 DEF RetiringEnds, RowSet, Restated, CA
<1>5. ASSUME NEW r \in Requests,
             \/ MakingBegins(r) \/ Signs(r) \/ MakingFails(r) \/ RetiringBegins(r) \/ KeyGoes(r)
             \/ KeyStays(r) \/ IsLost(r)
      PROVE  UNCHANGED cas
  BY <1>5 DEF MakingBegins, Signs, MakingFails, RetiringBegins, KeyGoes, KeyStays, IsLost
<1>6. ASSUME Rebinds \/ ImportedKeyChanges PROVE UNCHANGED cas
  BY <1>6 DEF Rebinds, ImportedKeyChanges
<1>7. (\E r \in Requests : MakingEnds(r)) \/ ImportedInserts
  BY <1>4, <1>5, <1>6 DEF Kind, ConsoleKind, KeysLeft
<1> QED
  BY <1>1, <1>2, <1>3, <1>7

----------------------------------------------------------------------------
(* The invariants, kind by kind.                                             *)

(* A row keeps its key, and a key version its row.                           *)
LEMMA RowStep ==
  ASSUME AuthoritiesTypeOK, RowsHaveKeys, MakersHoldKeys, RequestsNameCAs, Kind
  PROVE  RowsHaveKeys'
<1> SUFFICES ASSUME NEW a \in CAs
             PROVE  /\ cas'[a].status = "absent" => cas'[a] = NoCA
                    /\ cas'[a].status # "absent" =>
                         cas'[a].key \in Keys /\ keys'[cas'[a].key].state # "none"
  BY DEF RowsHaveKeys, NoCA
<1>1. CASE cas[a].status # "absent"
  <2>1. cas'[a].status # "absent" /\ cas'[a].key = cas[a].key
    BY <1>1, RowsStay
  <2>2. cas[a].key \in Keys /\ keys[cas[a].key].state # "none"
    BY <1>1 DEF RowsHaveKeys
  <2> QED
    BY <2>1, <2>2, KeysStay
<1>2. CASE cas[a].status = "absent" /\ cas'[a] # cas[a]
  BY <1>2, RowsAppear
<1>3. CASE cas[a].status = "absent" /\ cas'[a] = cas[a]
  BY <1>3 DEF RowsHaveKeys
<1> QED
  BY <1>1, <1>2, <1>3

(* Only an imported key is pending.                                           *)
LEMMA PendingStep ==
  ASSUME AuthoritiesTypeOK, RowsHaveKeys, MakersHoldKeys, RequestsNameCAs, PendingIsImported, Kind
  PROVE  PendingIsImported'
<1> SUFFICES ASSUME NEW k \in Keys, keys'[k].state = "pending"
             PROVE  keys'[k].imported
  BY DEF PendingIsImported
<1>1. CASE UNCHANGED keys
  BY <1>1 DEF PendingIsImported
<1>2. ASSUME NEW j \in Keys, Made(j) \/ Destroyed(j) \/ Unwrapped(j) \/ Given(j)
      PROVE  keys'[k].imported
  <2>1. CASE j = k
    BY <1>2, <2>1 DEF Made, Destroyed, Unwrapped, Given
  <2>2. CASE j # k
    <3>1. keys'[k] = keys[k]
      BY <1>2, <2>2 DEF Made, Destroyed, Unwrapped, Given, OnlyKey
    <3> QED
      BY <3>1 DEF PendingIsImported
  <2> QED
    BY <2>1, <2>2
<1> QED
  BY <1>1, <1>2, KeyEffect

(* The key of a request that makes a CA is no other's until it is the CA's:  *)
(* another request's step leaves it alone.                                   *)
LEMMA HoldStep ==
  ASSUME NEW q \in Requests, HoldsKey(q), requests'[q] = requests[q],
         keys'[requests[q].key] = keys[requests[q].key],
         \A a \in CAs : cas'[a].key = cas[a].key \/ cas'[a].key # requests[q].key,
         \A p \in Requests \ {q} :
           requests'[p].key = requests[p].key \/ requests'[p].key # requests[q].key
  PROVE  HoldsKey(q)'
  BY DEF HoldsKey, Rotating

(* One request is written, and it holds no key that was there before.        *)
LEMMA OthersHold ==
  ASSUME AuthoritiesTypeOK, MakersHoldKeys, NEW r \in Requests, OnlyRequest(r),
         NEW q \in Requests \ {r}, Making(q),
         requests'[r].key = requests[r].key \/ requests'[r].key # requests[q].key,
         keys'[requests[q].key] = keys[requests[q].key],
         \A a \in CAs : cas'[a].key = cas[a].key \/ cas'[a].key # requests[q].key
  PROVE  HoldsKey(q)'
<1>1. HoldsKey(q)
  BY DEF MakersHoldKeys
<1>2. \A p \in Requests \ {r} : requests'[p] = requests[p]
  BY DEF OnlyRequest
<1> QED
  BY <1>1, <1>2, HoldStep

(* A request that makes a CA holds its key until the row is written.          *)
LEMMA MakerStep ==
  ASSUME AuthoritiesTypeOK, RowsHaveKeys, RequestsNameCAs, MakersHoldKeys, Kind
  PROVE  MakersHoldKeys'
<1> DEFINE Held(q) == IF Making(q)' THEN HoldsKey(q)' ELSE requests'[q].key = None
<1>0. /\ None \notin Keys
      /\ \A q \in Requests : requests[q].key \in Keys \union {None}
  BY Types
<1>1. ASSUME NEW r \in Requests, MakingBegins(r), NEW q \in Requests PROVE Held(q)
  <2>1. PICK k \in Keys, a \in CAs \union {None}, type \in {CATypeRoot, CATypeIssuing},
             new \in {None, "retired"} :
          /\ Made(k) /\ Begun(r, "sign", a, k, type, new)
          /\ new = "retired" => CA(a) /\ checkEndpointBindings(a)
    BY <1>1 DEF MakingBegins
  <2>2. UNCHANGED cas /\ keys[k].state = "none"
    BY <1>1, <2>1 DEF MakingBegins, Made
  <2>3. \A p \in Requests : requests[p].key # k
    BY <1>0, <2>2 DEF MakersHoldKeys, HoldsKey
  <2>4. \A b \in CAs : cas[b].key # k
    <3>1. ASSUME NEW b \in CAs PROVE cas[b].key # k
      BY <1>0, <2>2 DEF RowsHaveKeys, NoCA
    <3> QED
      BY <3>1
  <2>5. CASE q = r
    <3>1. /\ requests'[r].op = "sign" /\ requests'[r].ca = a /\ requests'[r].key = k
          /\ requests'[r].type = type /\ requests'[r].status = new
          /\ \A p \in Requests \ {r} : requests'[p] = requests[p]
      BY <2>1 DEF Begun, OnlyRequest
    <3>2. keys'[k].state = "enabled" /\ ~keys'[k].imported /\ keys'[k].fits
      BY <2>1 DEF Made
    <3>3. new = "retired" => a \in CAs
      BY <2>1 DEF CA
    <3>4. HoldsKey(r)'
      BY <2>2, <2>3, <2>4, <3>1, <3>2, <3>3 DEF HoldsKey, Rotating
    <3> QED
      BY <2>5, <3>1, <3>4 DEF Making
  <2>6. CASE q # r /\ Making(q)
    <3>1. keys'[requests[q].key] = keys[requests[q].key]
      BY <2>1, <2>3, <2>6 DEF Made, OnlyKey, MakersHoldKeys, HoldsKey
    <3>2. requests'[r].key # requests[q].key /\ OnlyRequest(r) /\ requests'[q] = requests[q]
      BY <2>1, <2>3, <2>6 DEF Begun, OnlyRequest
    <3> QED
      BY <2>2, <2>6, <3>1, <3>2, OthersHold DEF Making
  <2>7. CASE q # r /\ ~Making(q)
    BY <2>1, <2>7 DEF Begun, OnlyRequest, Making, MakersHoldKeys
  <2> QED
    BY <2>5, <2>6, <2>7
<1>2. ASSUME NEW r \in Requests, OnlyRequest(r), NEW q \in Requests \ {r},
             requests'[r].key = requests[r].key \/ requests'[r].key = None,
             Making(q) => /\ keys'[requests[q].key] = keys[requests[q].key]
                          /\ \A a \in CAs : cas'[a].key = cas[a].key
                                            \/ cas'[a].key # requests[q].key
      PROVE  Held(q)
  <2>1. requests'[q] = requests[q]
    BY <1>2 DEF OnlyRequest
  <2>2. CASE Making(q)
    <3>1. requests[q].key # None
      BY <1>0, <2>2 DEF MakersHoldKeys, HoldsKey
    <3>2. HoldsKey(q)'
      BY <1>2, <2>2, <3>1, OthersHold
    <3> QED
      BY <2>1, <2>2, <3>2 DEF Making
  <2>3. CASE ~Making(q)
    BY <2>1, <2>3 DEF Making, MakersHoldKeys
  <2> QED
    BY <2>2, <2>3
<1>3. ASSUME NEW r \in Requests, Ended(r) PROVE Held(r)
  BY <1>3 DEF Ended, Making
<1>4. ASSUME NEW r \in Requests, Signs(r), NEW q \in Requests PROVE Held(q)
  <2>1. /\ OnlyRequest(r) /\ UNCHANGED <<cas, keys>> /\ requests'[r].key = requests[r].key
        /\ Making(r) /\ Making(r)'
    BY <1>4 DEF Signs, Advanced, Making
  <2>2. CASE q = r
    <3>1. /\ requests'[r].ca = requests[r].ca /\ requests'[r].type = requests[r].type
          /\ requests'[r].status = requests[r].status
          /\ \A p \in Requests \ {r} : requests'[p] = requests[p]
      BY <1>4 DEF Signs, Advanced, OnlyRequest
    <3>2. HoldsKey(r)
      BY <2>1 DEF MakersHoldKeys
    <3>3. HoldsKey(r)'
      BY <2>1, <3>1, <3>2 DEF HoldsKey, Rotating
    <3> QED
      BY <2>1, <2>2, <3>3
  <2> QED
    BY <1>2, <2>1, <2>2
<1>5. ASSUME NEW r \in Requests, MakingFails(r), NEW q \in Requests PROVE Held(q)
  <2>1. OnlyRequest(r) /\ requests'[r].key = None /\ UNCHANGED cas /\ HoldsKey(r)
    BY <1>5 DEF MakingFails, Ended, MakersHoldKeys
  <2>2. ASSUME q # r, Making(q) PROVE keys'[requests[q].key] = keys[requests[q].key]
    <3>1. requests[q].key # requests[r].key /\ requests[q].key \in Keys
      BY <2>1, <2>2 DEF MakersHoldKeys, HoldsKey
    <3> QED
      BY <1>5, <3>1 DEF MakingFails, Cleaned, Destroyed, OnlyKey
  <2> QED
    BY <1>2, <1>3, <1>5, <2>1, <2>2 DEF MakingFails
<1>6. ASSUME NEW r \in Requests, MakingEnds(r), NEW q \in Requests PROVE Held(q)
  <2>1. PICK a \in CAs : Inserted(r, a)
    BY <1>6 DEF MakingEnds
  <2>2. OnlyRequest(r) /\ requests'[r].key = None /\ UNCHANGED keys /\ HoldsKey(r) /\ Ended(r)
    BY <1>6, <2>1 DEF MakingEnds, Inserted, Ended, MakersHoldKeys, Making
  <2>3. ASSUME q # r, Making(q), NEW b \in CAs
        PROVE  cas'[b].key = cas[b].key \/ cas'[b].key # requests[q].key
    <3>1. requests[q].key # requests[r].key
      BY <2>2, <2>3 DEF HoldsKey
    <3> QED
      BY <2>1, <3>1 DEF Inserted, Added, Restated
  <2> QED
    BY <1>2, <1>3, <2>2, <2>3
<1>7. ASSUME NEW r \in Requests, RetiringBegins(r), NEW q \in Requests PROVE Held(q)
  <2>1. OnlyRequest(r) /\ requests'[r].key = None /\ UNCHANGED <<cas, keys>> /\ ~Making(r)'
    BY <1>7 DEF RetiringBegins, Begun, Making
  <2> QED
    BY <1>2, <2>1
<1>8. ASSUME NEW r \in Requests, RetiringEnds(r), NEW q \in Requests PROVE Held(q)
  <2>1. OnlyRequest(r) /\ requests'[r].key = None /\ UNCHANGED keys /\ Ended(r)
    BY <1>8 DEF RetiringEnds, Ended
  <2>2. ASSUME NEW b \in CAs PROVE cas'[b].key = cas[b].key
    BY <1>8 DEF RetiringEnds, RowSet, Restated
  <2> QED
    BY <1>2, <1>3, <2>1, <2>2
<1>9. ASSUME NEW r \in Requests, KeyGoes(r), NEW q \in Requests PROVE Held(q)
  <2>1. /\ OnlyRequest(r) /\ requests'[r].key = requests[r].key /\ UNCHANGED cas
        /\ ~Making(r)' /\ ~Making(r) /\ requests[r].ca \in CAs
    BY <1>9, RequestKeys DEF KeyGoes, Advanced, Making
  <2>2. ASSUME q # r, Making(q) PROVE keys'[requests[q].key] = keys[requests[q].key]
    <3>1. cas[requests[r].ca].key # requests[q].key /\ requests[q].key \in Keys
      BY <2>1, <2>2 DEF MakersHoldKeys, HoldsKey
    <3> QED
      BY <1>9, <3>1 DEF KeyGoes, Destroyed, OnlyKey
  <2>3. Held(r)
    BY <2>1 DEF MakersHoldKeys
  <2> QED
    BY <1>2, <2>1, <2>2, <2>3
<1>10. ASSUME NEW r \in Requests, KeyStays(r) \/ IsLost(r), NEW q \in Requests PROVE Held(q)
  <2>1. OnlyRequest(r) /\ requests'[r].key = None /\ UNCHANGED <<cas, keys>> /\ Ended(r)
    BY <1>10 DEF KeyStays, IsLost, Ended
  <2> QED
    BY <1>2, <1>3, <2>1
<1>11. ASSUME UNCHANGED requests, NEW q \in Requests,
              Making(q) => /\ keys'[requests[q].key] = keys[requests[q].key]
                           /\ \A a \in CAs : cas'[a].key = cas[a].key
                                             \/ cas'[a].key # requests[q].key
       PROVE  Held(q)
  BY <1>11, HoldStep DEF Making, MakersHoldKeys
<1>12. ASSUME ImportedInserts, NEW q \in Requests PROVE Held(q)
  <2>1. PICK a \in CAs, k \in Keys : InsertedImport(a, k) /\ Imported(k)
    BY <1>12 DEF ImportedInserts
  <2>2. ASSUME Making(q), NEW b \in CAs
        PROVE  cas'[b].key = cas[b].key \/ cas'[b].key # requests[q].key
    <3>1. k # requests[q].key
      BY <2>1, <2>2 DEF Imported, MakersHoldKeys, HoldsKey
    <3> QED
      BY <2>1, <3>1 DEF InsertedImport, Added
  <2> QED
    BY <1>11, <1>12, <2>2 DEF ImportedInserts
<1>13. ASSUME ImportedKeyChanges, NEW q \in Requests PROVE Held(q)
  <2>1. PICK k \in Keys : Unwrapped(k) \/ Given(k) \/ (Destroyed(k) /\ Imported(k))
    BY <1>13 DEF ImportedKeyChanges
  <2>2. ASSUME Making(q) PROVE keys'[requests[q].key] = keys[requests[q].key]
    <3>1. k # requests[q].key /\ requests[q].key \in Keys
      BY <2>1, <2>2 DEF Imported, Unwrapped, Given, MakersHoldKeys, HoldsKey
    <3> QED
      BY <2>1, <3>1 DEF Unwrapped, Given, Destroyed, OnlyKey
  <2> QED
    BY <1>11, <1>13, <2>2 DEF ImportedKeyChanges
<1>14. ASSUME Rebinds \/ KeysLeft, NEW q \in Requests
       PROVE  Held(q)
  BY <1>11, <1>14 DEF Rebinds, KeysLeft
<1>15. ASSUME NEW q \in Requests PROVE Held(q)
  <2> HIDE DEF Held
  <2> QED
    BY <1>1, <1>4, <1>5, <1>6, <1>7, <1>8, <1>9, <1>10, <1>12, <1>13, <1>14 DEF Kind, ConsoleKind, KeysLeft
<1> QED
  BY <1>15 DEF MakersHoldKeys

(* A request keeps the CA it is about.                                       *)
LEMMA NameStep ==
  ASSUME AuthoritiesTypeOK, RowsHaveKeys, MakersHoldKeys, RequestsNameCAs, Kind
  PROVE  RequestsNameCAs'
<1>1. ASSUME NEW q \in Requests, requests'[q] = requests[q] PROVE NamesCA(q)'
  <2>1. CASE requests[q].op \in {"status", "destroy", "mark"}
    <3>1. /\ requests[q].ca \in CAs /\ cas[requests[q].ca].status # "absent"
          /\ cas[requests[q].ca].key \in Keys
          /\ keys[cas[requests[q].ca].key].state # "none"
      BY <2>1 DEF RequestsNameCAs, NamesCA, RowsHaveKeys
    <3>2. /\ cas'[requests[q].ca].status # "absent"
          /\ cas'[requests[q].ca].key = cas[requests[q].ca].key
      BY <3>1, RowsStay
    <3>3. keys[cas[requests[q].ca].key].state = "destroyed"
          => keys'[cas[requests[q].ca].key].state = "destroyed"
      BY <3>1, KeysStay
    <3> QED
      BY <1>1, <3>1, <3>2, <3>3 DEF RequestsNameCAs, NamesCA
  <2>2. CASE requests[q].op \notin {"status", "destroy", "mark"}
    BY <1>1, <2>2 DEF NamesCA
  <2> QED
    BY <2>1, <2>2
<1>2. ASSUME NEW r \in Requests, OnlyRequest(r), NamesCA(r)' PROVE RequestsNameCAs'
  BY <1>1, <1>2 DEF OnlyRequest, RequestsNameCAs
<1>3. ASSUME NEW r \in Requests, Ended(r) PROVE RequestsNameCAs'
  BY <1>2, <1>3 DEF Ended, NamesCA
<1>4. ASSUME NEW r \in Requests, MakingBegins(r) \/ Signs(r) PROVE RequestsNameCAs'
  <2>1. OnlyRequest(r) /\ requests'[r].op \in {"sign", "insert"}
    BY <1>4 DEF MakingBegins, Begun, Signs, Advanced
  <2> QED
    BY <1>2, <2>1 DEF NamesCA
<1>5. ASSUME NEW r \in Requests, RetiringBegins(r) PROVE RequestsNameCAs'
  <2>1. PICK a \in CAs, op \in {"status", "destroy"}, new \in Statuses \union {None} :
          /\ Begun(r, op, a, None, None, new) /\ CA(a)
          /\ op = "status" => new \in Statuses
    BY <1>5 DEF RetiringBegins
  <2> QED
    BY <1>2, <1>5, <2>1 DEF RetiringBegins, Begun, NamesCA, CA
<1>6. ASSUME NEW r \in Requests, KeyGoes(r) PROVE RequestsNameCAs'
  <2>1. /\ OnlyRequest(r) /\ requests'[r].op = "mark" /\ requests'[r].ca = requests[r].ca
        /\ UNCHANGED cas /\ keys'[cas[requests[r].ca].key].state = "destroyed"
    BY <1>6 DEF KeyGoes, Advanced, Destroyed
  <2>2. requests[r].ca \in CAs /\ cas[requests[r].ca].status # "absent"
    BY <1>6 DEF KeyGoes, RequestsNameCAs, NamesCA
  <2> QED
    BY <1>2, <2>1, <2>2 DEF NamesCA
<1>7. ASSUME UNCHANGED requests PROVE RequestsNameCAs'
  BY <1>1, <1>7 DEF RequestsNameCAs
<1>8. ASSUME NEW r \in Requests,
             MakingFails(r) \/ MakingEnds(r) \/ RetiringEnds(r) \/ KeyStays(r) \/ IsLost(r)
      PROVE  Ended(r)
  BY <1>8 DEF MakingFails, MakingEnds, RetiringEnds, KeyStays, IsLost
<1>9. ASSUME Rebinds \/ ImportedInserts \/ ImportedKeyChanges \/ KeysLeft
      PROVE  UNCHANGED requests
  BY <1>9 DEF Rebinds, ImportedInserts, ImportedKeyChanges, KeysLeft
<1> QED
  BY <1>3, <1>4, <1>5, <1>6, <1>7, <1>8, <1>9 DEF Kind, ConsoleKind, KeysLeft

(* A binding made since begins another era.                                  *)
LEMMA EraStep ==
  ASSUME AuthoritiesTypeOK, DecidedUnbound, Kind
  PROVE  DecidedUnbound'
<1> DEFINE Kinded == endpoint.ca # None => endpoint.kind \in {"scep", "acme", "est"}
<1>0. /\ \A r \in Requests : requests[r].era \in Nat
      /\ endpoint.era \in Nat
  BY Types
<1>1. ASSUME UNCHANGED endpoint, NEW q \in Requests, requests'[q] = requests[q]
      PROVE  Unbound(q)'
  <2>1. Unbound(q)
    BY DEF DecidedUnbound
  <2> QED
    BY <1>1, <2>1 DEF Unbound, Retires, Making, Rotating, checkEndpointBindings,
          EnabledSCEPEndpointCount, EnabledACMEEndpointCount, EnabledESTEndpointCount
<1>2. ASSUME UNCHANGED endpoint, NEW r \in Requests, OnlyRequest(r), Unbound(r)'
      PROVE  DecidedUnbound'
  BY <1>1, <1>2 DEF OnlyRequest, DecidedUnbound
<1>3. ASSUME NEW r \in Requests, Ended(r), UNCHANGED endpoint PROVE DecidedUnbound'
  <2>1. Unbound(r)'
    BY <1>0, <1>3 DEF Ended, Unbound, Retires, Making
  <2> QED
    BY <1>2, <1>3, <2>1 DEF Ended
<1>4. ASSUME NEW r \in Requests, NEW op, NEW a, NEW k, NEW type, NEW new,
             Begun(r, op, a, k, type, new), UNCHANGED endpoint,
             op = "destroy" \/ (op = "status" /\ new # "active") => checkEndpointBindings(a),
             op = "sign" /\ new = "retired" => checkEndpointBindings(a),
             op \in {"sign", "status", "destroy"}
      PROVE  DecidedUnbound'
  <2>1. /\ requests'[r].op = op /\ requests'[r].ca = a /\ requests'[r].status = new
        /\ requests'[r].era = endpoint.era /\ OnlyRequest(r)
    BY <1>4 DEF Begun
  <2>2. checkEndpointBindings(a) => checkEndpointBindings(a)'
    BY <1>4 DEF checkEndpointBindings, EnabledSCEPEndpointCount, EnabledACMEEndpointCount,
                EnabledESTEndpointCount
  <2>3. Retires(r)' => checkEndpointBindings(a)
    BY <1>4, <2>1 DEF Retires, Making, Rotating
  <2>4. requests'[r].era <= endpoint'.era
    BY <1>0, <1>4, <2>1
  <2>5. Unbound(r)'
    <3>1. Retires(r)' => checkEndpointBindings(a)'
      BY <2>2, <2>3
    <3>2. checkEndpointBindings(a)' => checkEndpointBindings(requests[r].ca)'
      BY <2>1 DEF checkEndpointBindings, EnabledSCEPEndpointCount, EnabledACMEEndpointCount,
                  EnabledESTEndpointCount
    <3> QED
      BY <2>4, <3>1, <3>2 DEF Unbound
  <2> QED
    BY <1>2, <1>4, <2>1, <2>5
<1>5. ASSUME NEW r \in Requests, MakingBegins(r) PROVE DecidedUnbound'
  <2>1. PICK k \in Keys, a \in CAs \union {None}, type \in {CATypeRoot, CATypeIssuing},
             new \in {None, "retired"} :
          /\ Begun(r, "sign", a, k, type, new)
          /\ new = "retired" => checkEndpointBindings(a)
    BY <1>5 DEF MakingBegins
  <2> QED
    BY <1>4, <1>5, <2>1 DEF MakingBegins
<1>6. ASSUME NEW r \in Requests, RetiringBegins(r) PROVE DecidedUnbound'
  <2>1. PICK a \in CAs, op \in {"status", "destroy"}, new \in Statuses \union {None} :
          /\ Begun(r, op, a, None, None, new)
          /\ op = "destroy" \/ new # "active" => checkEndpointBindings(a)
    BY <1>6 DEF RetiringBegins
  <2> QED
    BY <1>4, <1>6, <2>1 DEF RetiringBegins
<1>7. ASSUME NEW r \in Requests, UNCHANGED endpoint, NEW op \in {"insert", "mark"}, Advanced(r, op),
             op = "insert" => requests[r].op = "sign", op = "mark" => requests[r].op = "destroy"
      PROVE  DecidedUnbound'
  <2>1. Unbound(r) /\ OnlyRequest(r)
    BY <1>7 DEF DecidedUnbound, Advanced
  <2>2. Unbound(r)'
    BY <1>7, <2>1 DEF Advanced, Unbound, Retires, Making, Rotating, checkEndpointBindings,
          EnabledSCEPEndpointCount, EnabledACMEEndpointCount, EnabledESTEndpointCount
  <2> QED
    BY <1>2, <1>7, <2>1, <2>2
<1>8. ASSUME NEW r \in Requests, Signs(r) \/ KeyGoes(r) PROVE DecidedUnbound'
  BY <1>7, <1>8 DEF Signs, KeyGoes
<1>9. ASSUME NEW r \in Requests,
             MakingFails(r) \/ MakingEnds(r) \/ RetiringEnds(r) \/ KeyStays(r) \/ IsLost(r)
      PROVE  DecidedUnbound'
  BY <1>3, <1>9 DEF MakingFails, MakingEnds, RetiringEnds, KeyStays, IsLost
<1>10. ASSUME Rebinds PROVE DecidedUnbound'
  <2>1. endpoint'.era \in Nat /\ endpoint'.era > endpoint.era
    BY <1>10 DEF Rebinds, EndpointRow
  <2>2. \A q \in Requests : requests[q].era <= endpoint.era
    BY DEF DecidedUnbound, Unbound
  <2>3. UNCHANGED requests /\ Kinded'
    BY <1>10 DEF Rebinds
  <2>4. ASSUME NEW q \in Requests PROVE Unbound(q)'
    BY <1>0, <2>1, <2>2, <2>3 DEF Unbound
  <2> QED
    BY <2>3, <2>4 DEF DecidedUnbound
<1>11. ASSUME UNCHANGED <<endpoint, requests>> PROVE DecidedUnbound'
  BY <1>1, <1>11 DEF DecidedUnbound
<1>12. ASSUME ImportedInserts \/ ImportedKeyChanges PROVE DecidedUnbound'
  BY <1>11, <1>12 DEF ImportedInserts, ImportedKeyChanges
<1> QED
  BY <1>5, <1>6, <1>8, <1>9, <1>10, <1>11, <1>12 DEF Kind, ConsoleKind, KeysLeft

(* A row changes its status as the audit records it, is inserted, or stays.  *)
LEMMA RowEffect ==
  ASSUME Kind, NEW a \in CAs
  PROVE  \/ cas'[a] = cas[a]
         \/ Restated(a, "retired", "rotated")
         \/ \E v \in Statuses \union {"deleted"} : Restated(a, v, v)
         \/ \E type, parent, k : Added(a, type, parent, k)
<1>1. ASSUME NEW r \in Requests, MakingEnds(r)
      PROVE  \/ cas'[a] = cas[a] \/ Restated(a, "retired", "rotated")
             \/ \E type, parent, k : Added(a, type, parent, k)
  BY <1>1 DEF MakingEnds, Inserted
<1>2. ASSUME NEW r \in Requests, RetiringEnds(r)
      PROVE  cas'[a] = cas[a] \/ \E v \in Statuses \union {"deleted"} : Restated(a, v, v)
  BY <1>2 DEF RetiringEnds, RowSet
<1>3. ASSUME ImportedInserts
      PROVE  cas'[a] = cas[a] \/ \E type, parent, k : Added(a, type, parent, k)
  BY <1>3 DEF ImportedInserts, InsertedImport
<1>4. ASSUME NEW r \in Requests,
             \/ MakingBegins(r) \/ Signs(r) \/ MakingFails(r) \/ RetiringBegins(r) \/ KeyGoes(r)
             \/ KeyStays(r) \/ IsLost(r)
      PROVE  UNCHANGED cas
  BY <1>4 DEF MakingBegins, Signs, MakingFails, RetiringBegins, KeyGoes, KeyStays, IsLost
<1>5. ASSUME Rebinds \/ ImportedKeyChanges PROVE UNCHANGED cas
  BY <1>5 DEF Rebinds, ImportedKeyChanges
<1> QED
  BY <1>1, <1>2, <1>3, <1>4, <1>5 DEF Kind, ConsoleKind, KeysLeft

(* What is deleted stays deleted.                                            *)
LEMMA LiveWasLive ==
  ASSUME Kind, NEW a \in CAs, CA(a)', cas[a].status # "absent"
  PROVE  CA(a)
<1>1. ~\E type, parent, k : Added(a, type, parent, k)
  BY DEF Added
<1>2. cas'[a] = cas[a] => CA(a)
  BY DEF CA
<1> QED
  BY <1>1, <1>2, RowEffect DEF Restated

(* A root is inserted where there is none.                                   *)
LEMMA RootStep ==
  ASSUME RootsAreOne, Kind
  PROVE  RootsAreOne'
<1>1. ASSUME NEW a \in RootCA', ~\E type, parent, k : Added(a, type, parent, k)
      PROVE  a \in RootCA
  <2>1. \/ cas'[a] = cas[a] \/ Restated(a, "retired", "rotated")
        \/ \E v \in Statuses \union {"deleted"} : Restated(a, v, v)
    BY <1>1, RowEffect DEF RootCA
  <2> QED
    BY <1>1, <2>1 DEF RootCA, CA, Restated
<1>2. ASSUME NEW c \in CAs, NEW type, NEW parent, NEW k, CreateCA(type, k),
             Added(c, type, parent, k), NEW a \in RootCA', NEW b \in RootCA',
             \A d \in CAs \ {c} : cas[d].status = "absent" => cas'[d] = cas[d]
      PROVE  a = b
  <2>1. \A d \in CAs \ {c} : ~\E t, p, j : Added(d, t, p, j)
    BY <1>2 DEF Added
  <2>2. \A d \in RootCA' \ {c} : d \in RootCA
    BY <1>1, <2>1 DEF RootCA
  <2>3. c \in RootCA' => RootCA = {}
    BY <1>2 DEF RootCA, Added, CreateCA
  <2> QED
    BY <2>2, <2>3 DEF RootsAreOne
<1>3. ASSUME NEW r \in Requests, MakingEnds(r) PROVE RootsAreOne'
  <2>1. PICK c \in CAs : Inserted(r, c)
    BY <1>3 DEF MakingEnds
  <2>2. \A d \in CAs \ {c} : cas[d].status = "absent" => cas'[d] = cas[d]
    BY <2>1 DEF Inserted, Restated, CA
  <2> QED
    BY <1>2, <2>1, <2>2 DEF Inserted, RootsAreOne
<1>4. ASSUME ImportedInserts PROVE RootsAreOne'
  <2>1. PICK c \in CAs, k \in Keys : InsertedImport(c, k)
    BY <1>4 DEF ImportedInserts
  <2> QED
    BY <1>2, <2>1 DEF InsertedImport, RootsAreOne
<1>5. ASSUME \A a \in CAs : ~\E type, parent, k : Added(a, type, parent, k)
      PROVE  RootsAreOne'
  BY <1>1, <1>5 DEF RootsAreOne, RootCA
<1>6. ASSUME NEW r \in Requests, RetiringEnds(r), NEW a \in CAs, NEW type, NEW parent, NEW k,
             Added(a, type, parent, k)
      PROVE  FALSE
  BY <1>6 DEF RetiringEnds, RowSet, Restated, CA, Added
<1>7. ASSUME UNCHANGED cas, NEW a \in CAs, NEW type, NEW parent, NEW k,
             Added(a, type, parent, k)
      PROVE  FALSE
  BY <1>7 DEF Added
<1>8. ASSUME NEW r \in Requests,
             \/ MakingBegins(r) \/ Signs(r) \/ MakingFails(r) \/ RetiringBegins(r) \/ KeyGoes(r)
             \/ KeyStays(r) \/ IsLost(r)
      PROVE  UNCHANGED cas
  BY <1>8 DEF MakingBegins, Signs, MakingFails, RetiringBegins, KeyGoes, KeyStays, IsLost
<1>9. ASSUME Rebinds \/ ImportedKeyChanges PROVE UNCHANGED cas
  BY <1>9 DEF Rebinds, ImportedKeyChanges
<1>10. ASSUME UNCHANGED cas PROVE RootsAreOne'
  BY <1>5, <1>7, <1>10
<1>11. ASSUME NEW r \in Requests, RetiringEnds(r) PROVE RootsAreOne'
  BY <1>5, <1>6, <1>11
<1> QED
  BY <1>3, <1>4, <1>8, <1>9, <1>10, <1>11 DEF Kind, ConsoleKind, KeysLeft

(* The audit follows the status.                                             *)
LEMMA RecordStep ==
  ASSUME StatusIsRecorded, Kind
  PROVE  StatusIsRecorded'
<1> DEFINE Recorded(a) ==
        CASE cas[a].status = "active" -> cas[a].said \in {"created", "active"}
          [] cas[a].status = "retired" -> cas[a].said \in {"retired", "rotated"}
          [] cas[a].status = "absent" -> cas[a].said = "nothing"
          [] OTHER -> cas[a].said = cas[a].status
<1>1. ASSUME NEW a \in CAs PROVE Recorded(a)'
  <2>1. CASE cas'[a] = cas[a]
    BY <2>1 DEF StatusIsRecorded
  <2>2. CASE Restated(a, "retired", "rotated")
    BY <2>2 DEF Restated
  <2>3. ASSUME NEW v \in Statuses \union {"deleted"}, Restated(a, v, v) PROVE Recorded(a)'
    BY <2>3 DEF Restated, Statuses
  <2>4. ASSUME NEW type, NEW parent, NEW k, Added(a, type, parent, k) PROVE Recorded(a)'
    BY <2>4 DEF Added
  <2> HIDE DEF Recorded
  <2> QED
    BY <2>1, <2>2, <2>3, <2>4, RowEffect
<1> QED
  BY <1>1 DEF StatusIsRecorded

(* A key is inserted once.                                                   *)
LEMMA OneKeyStep ==
  ASSUME AuthoritiesTypeOK, RowsHaveKeys, MakersHoldKeys, OneCAPerKey, Kind
  PROVE  OneCAPerKey'
<1>1. ASSUME NEW a \in CAs, NEW b \in CAs, cas'[a].key = cas'[b].key, cas'[a].key # None, a # b,
             cas[a].status = "absent"
      PROVE  FALSE
  <2>1. cas'[a] # cas[a]
    BY <1>1 DEF RowsHaveKeys, NoCA
  <2>2. cas[b].key # cas'[a].key /\ (cas'[b] = cas[b] \/ CA(b))
    BY <1>1, <2>1, RowsAppear
  <2>3. cas'[b] # cas[b] /\ cas[b].status # "absent"
    BY <1>1, <2>2 DEF CA
  <2> QED
    BY <1>1, <2>2, <2>3, RowsStay
<1>2. ASSUME NEW a \in CAs, NEW b \in CAs, cas'[a].key = cas'[b].key, cas'[a].key # None, a # b,
             cas[a].status # "absent", cas[b].status # "absent"
      PROVE  FALSE
  <2>1. cas'[a].key = cas[a].key /\ cas'[b].key = cas[b].key
    BY <1>2, RowsStay
  <2> QED
    BY <1>2, <2>1 DEF OneCAPerKey
<1> QED
  BY <1>1, <1>2 DEF OneCAPerKey

(* A CA is inserted with a key that fits.                                    *)
LEMMA FitStep ==
  ASSUME AuthoritiesTypeOK, RowsHaveKeys, RequestsNameCAs, MakersHoldKeys, ImportedKeyFits, Kind
  PROVE  ImportedKeyFits'
<1> SUFFICES ASSUME NEW a \in CAs, CA(a)'
             PROVE  keys'[cas'[a].key].fits
  BY DEF ImportedKeyFits
<1>1. CASE cas[a].status = "absent"
  <2>1. cas'[a] # cas[a]
    BY <1>1 DEF CA
  <2> QED
    BY <1>1, <2>1, RowsAppear
<1>2. CASE cas[a].status # "absent"
  <2>1. CA(a) /\ cas'[a].key = cas[a].key
    BY <1>2, LiveWasLive, RowsStay
  <2>2. cas[a].key \in Keys /\ keys[cas[a].key].state # "none" /\ keys[cas[a].key].fits
    BY <1>2, <2>1 DEF RowsHaveKeys, ImportedKeyFits
  <2> QED
    BY <2>1, <2>2, KeysStay
<1> QED
  BY <1>1, <1>2

(* The key of a CA goes with the CA.                                         *)
Marked(a) == \E r \in Requests : requests[r].op = "mark" /\ requests[r].ca = a
Serves(a) ==
    CA(a) /\ cas[a].key \notin stranded \union crossed
    => KeyInfo(cas[a].key) \/ Marked(a)

(* A CA that is about to be marked stays so while another request moves.      *)
LEMMA MarkStays ==
  ASSUME NEW a \in CAs, Marked(a), NEW r \in Requests, OnlyRequest(r),
         requests[r].op # "mark" \/ requests[r].ca # a
  PROVE  Marked(a)'
<1>1. PICK q \in Requests : requests[q].op = "mark" /\ requests[q].ca = a
  BY DEF Marked
<1>2. requests'[q] = requests[q]
  BY <1>1 DEF OnlyRequest
<1> QED
  BY <1>1, <1>2 DEF Marked

(* A row that was there is served as before, if its key is left alone.       *)
LEMMA ServeKept ==
  ASSUME KeyServesCA, Kind, NEW a \in CAs, cas[a].status # "absent",
         keys'[cas[a].key] = keys[cas[a].key], crossed \subseteq crossed',
         cas[a].key \in stranded => cas[a].key \in stranded', Marked(a) => Marked(a)'
  PROVE  Serves(a)'
<1>1. cas'[a].key = cas[a].key /\ (CA(a)' => CA(a))
  BY RowsStay, LiveWasLive
<1>2. Serves(a)
  BY DEF KeyServesCA, Serves, Marked
<1> QED
  BY <1>1, <1>2 DEF Serves, KeyInfo

(* An active CA has an enabled key, or someone is about to mark it.           *)
LEMMA ServeStep ==
  ASSUME AuthoritiesTypeOK, RowsHaveKeys, RequestsNameCAs, MakersHoldKeys, OneCAPerKey, KeyServesCA,
         crossed \subseteq crossed', Kind
  PROVE  KeyServesCA'
<1> SUFFICES ASSUME NEW a \in CAs
             PROVE  Serves(a)'
  BY DEF KeyServesCA, Serves, Marked
<1>0. cas[a].status # "absent" => cas[a].key \in Keys /\ keys[cas[a].key].state # "none"
  BY DEF RowsHaveKeys
<1>1. CASE cas[a].status = "absent"
  <2>1. ASSUME cas'[a] = cas[a] PROVE Serves(a)'
    BY <1>1, <2>1 DEF Serves, CA
  <2>2. ASSUME NEW r \in Requests, MakingEnds(r), cas'[a] # cas[a] PROVE Serves(a)'
    <3>1. PICK b \in CAs : Inserted(r, b)
      BY <2>2 DEF MakingEnds
    <3>2. cas'[a].key = requests[r].key /\ UNCHANGED keys
      BY <1>1, <2>2, <3>1 DEF Inserted, Added, Restated, CA
    <3>3. requests[r].key \in Keys /\ keys[requests[r].key].state = "enabled"
      BY <3>1 DEF Inserted, MakersHoldKeys, HoldsKey, Making
    <3> QED
      BY <3>2, <3>3 DEF Serves, KeyInfo
  <2>3. ASSUME ImportedInserts, cas'[a] # cas[a] PROVE Serves(a)'
    <3>1. PICK b \in CAs, k \in Keys :
            InsertedImport(b, k) /\ (keys[k].state = "enabled" \/ k \in crossed)
      BY <2>3 DEF ImportedInserts
    <3>2. cas'[a].key = k /\ UNCHANGED keys
      BY <2>3, <3>1 DEF ImportedInserts, InsertedImport, Added
    <3> QED
      BY <3>1, <3>2 DEF Serves, KeyInfo
  <2>4. ASSUME NEW r \in Requests, RetiringEnds(r) PROVE cas'[a] = cas[a]
    BY <1>1, <2>4 DEF RetiringEnds, RowSet, Restated, CA
  <2>5. ASSUME NEW r \in Requests,
               \/ MakingBegins(r) \/ Signs(r) \/ MakingFails(r) \/ RetiringBegins(r) \/ KeyGoes(r)
               \/ KeyStays(r) \/ IsLost(r)
        PROVE  cas'[a] = cas[a]
    BY <2>5 DEF MakingBegins, Signs, MakingFails, RetiringBegins, KeyGoes, KeyStays, IsLost
  <2>6. ASSUME Rebinds \/ ImportedKeyChanges \/ KeysLeft PROVE cas'[a] = cas[a]
    BY <2>6 DEF Rebinds, ImportedKeyChanges, KeysLeft
  <2> QED
    BY <2>1, <2>2, <2>3, <2>4, <2>5, <2>6 DEF Kind, ConsoleKind
<1> SUFFICES ASSUME cas[a].status # "absent"
             PROVE  Serves(a)'
  BY <1>1
<1>2. ASSUME NEW r \in Requests, MakingBegins(r) PROVE Serves(a)'
  <2>1. PICK k \in Keys : Made(k) /\ OnlyRequest(r) /\ requests[r].op = "none" /\ UNCHANGED stranded
    BY <1>2 DEF MakingBegins, Begun
  <2>2. keys'[cas[a].key] = keys[cas[a].key]
    BY <1>0, <2>1 DEF Made, OnlyKey
  <2> QED
    BY <2>1, <2>2, ServeKept, MarkStays
<1>3. ASSUME NEW r \in Requests, OnlyRequest(r), UNCHANGED <<keys, stranded>>,
             requests[r].op # "mark" \/ requests[r].ca # a
      PROVE  Serves(a)'
  BY <1>3, ServeKept, MarkStays
<1>4. ASSUME NEW r \in Requests, Signs(r) \/ RetiringBegins(r) \/ KeyStays(r) \/ MakingEnds(r)
      PROVE  Serves(a)'
  <2>1. OnlyRequest(r) /\ UNCHANGED <<keys, stranded>> /\ requests[r].op # "mark"
    BY <1>4 DEF Signs, RetiringBegins, KeyStays, MakingEnds, Advanced, Begun, Ended, Inserted
  <2> QED
    BY <1>3, <2>1
<1>5. ASSUME NEW r \in Requests, MakingFails(r) PROVE Serves(a)'
  <2>1. /\ OnlyRequest(r) /\ requests[r].op # "mark" /\ cas[a].key # requests[r].key
        /\ Cleaned(requests[r].key)
    BY <1>5 DEF MakingFails, Ended, Making, MakersHoldKeys, HoldsKey
  <2>2. keys'[cas[a].key] = keys[cas[a].key] /\ stranded \subseteq stranded'
    BY <1>0, <2>1 DEF Cleaned, Destroyed, OnlyKey
  <2> QED
    BY <2>1, <2>2, ServeKept, MarkStays
<1>6. ASSUME NEW r \in Requests, RetiringEnds(r) PROVE Serves(a)'
  <2>1. OnlyRequest(r) /\ UNCHANGED <<keys, stranded>>
    BY <1>6 DEF RetiringEnds, Ended
  <2>2. CASE requests[r].op = "mark" /\ requests[r].ca = a
    <3>1. RowSet(a, "deleted") \/ (~CA(a) /\ UNCHANGED cas)
      BY <1>6, <2>2 DEF RetiringEnds
    <3>2. ~CA(a)'
      BY <3>1 DEF RowSet, Restated, CA
    <3> QED
      BY <3>2 DEF Serves
  <2>3. CASE requests[r].op # "mark" \/ requests[r].ca # a
    BY <1>3, <2>1, <2>3
  <2> QED
    BY <2>2, <2>3
<1>7. ASSUME NEW r \in Requests, KeyGoes(r) PROVE Serves(a)'
  <2>1. /\ OnlyRequest(r) /\ requests[r].op = "destroy" /\ requests'[r].op = "mark"
        /\ requests'[r].ca = requests[r].ca /\ UNCHANGED stranded /\ requests[r].ca \in CAs
        /\ Destroyed(cas[requests[r].ca].key) /\ cas[requests[r].ca].key \in Keys
    BY <1>7, RequestKeys DEF KeyGoes, Advanced
  <2>2. CASE requests[r].ca = a
    <3>1. Marked(a)'
      BY <2>1, <2>2 DEF Marked
    <3> QED
      BY <3>1 DEF Serves
  <2>3. CASE requests[r].ca # a
    <3>1. cas[requests[r].ca].key # cas[a].key
      BY <2>1, <2>3, Types DEF OneCAPerKey
    <3>2. keys'[cas[a].key] = keys[cas[a].key]
      BY <1>0, <2>1, <3>1 DEF Destroyed, OnlyKey
    <3> QED
      BY <2>1, <3>2, ServeKept, MarkStays
  <2> QED
    BY <2>2, <2>3
<1>8. ASSUME NEW r \in Requests, IsLost(r) PROVE Serves(a)'
  <2>1. OnlyRequest(r) /\ UNCHANGED <<cas, keys>> /\ stranded \subseteq stranded'
    BY <1>8 DEF IsLost, Ended
  <2>2. CASE requests[r].op = "mark" /\ requests[r].ca = a
    <3>1. cas'[a].key \in stranded'
      BY <1>8, <2>1, <2>2 DEF IsLost
    <3> QED
      BY <3>1 DEF Serves
  <2>3. CASE requests[r].op # "mark" \/ requests[r].ca # a
    BY <2>1, <2>3, ServeKept, MarkStays
  <2> QED
    BY <2>2, <2>3
<1>9. ASSUME UNCHANGED requests, keys'[cas[a].key] = keys[cas[a].key],
             cas[a].key \in stranded => cas[a].key \in stranded'
      PROVE  Serves(a)'
  <2>1. Marked(a) => Marked(a)'
    BY <1>9 DEF Marked
  <2> QED
    BY <1>9, <2>1, ServeKept
<1>10. ASSUME ImportedKeyChanges PROVE Serves(a)'
  <2>1. PICK k \in Keys : \/ Unwrapped(k) \/ Given(k)
                          \/ Destroyed(k) /\ (k \in crossed \/ Loose(k))
    BY <1>10 DEF ImportedKeyChanges
  <2>2. UNCHANGED <<cas, requests, stranded>>
    BY <1>10 DEF ImportedKeyChanges
  <2>3. CASE cas[a].key # k
    <3>1. keys'[cas[a].key] = keys[cas[a].key]
      BY <1>0, <2>1, <2>3 DEF Unwrapped, Given, Destroyed, OnlyKey
    <3> QED
      BY <1>9, <2>2, <3>1
  <2>4. CASE cas[a].key = k /\ Unwrapped(k)
    <3>1. ~KeyInfo(k)
      BY <2>4 DEF Unwrapped, KeyInfo
    <3>2. Serves(a)
      BY DEF KeyServesCA, Serves, Marked
    <3>3. Marked(a) => Marked(a)'
      BY <2>2 DEF Marked
    <3> QED
      BY <2>2, <2>4, <3>1, <3>2, <3>3 DEF Serves, CA
  <2>5. CASE cas[a].key = k /\ k \in crossed
    BY <2>2, <2>5 DEF Serves
  <2>6. CASE cas[a].key = k /\ Loose(k)
    BY <2>2, <2>6 DEF Loose, Taken, Serves, CA
  <2>7. CASE cas[a].key = k /\ Given(k)
    BY <1>0, <2>7 DEF Given
  <2> QED
    BY <2>1, <2>3, <2>4, <2>5, <2>6, <2>7
<1>11. ASSUME ImportedInserts PROVE Serves(a)'
  <2>1. PICK b \in CAs, k \in Keys :
          InsertedImport(b, k) /\ stranded \subseteq stranded' \union {k}
    BY <1>11 DEF ImportedInserts
  <2>2. cas[a].key # k
    BY <2>1 DEF InsertedImport, CreateCA
  <2> QED
    BY <1>9, <1>11, <2>1, <2>2 DEF ImportedInserts
<1>12. ASSUME Rebinds \/ KeysLeft PROVE Serves(a)'
  BY <1>9, <1>12 DEF Rebinds, KeysLeft
<1> QED
  BY <1>2, <1>4, <1>5, <1>6, <1>7, <1>8, <1>10, <1>11, <1>12 DEF Kind, ConsoleKind

(* A CA keeps its key until it is deleted.                                   *)
LEMMA LiveStays ==
  ASSUME RequestsNameCAs, Kind, NEW a \in CAs, CA(a),
         \A r \in Requests :
           requests[r].op = "mark" /\ requests[r].ca = a => requests'[r].op = "mark"
  PROVE  CA(a)' /\ cas'[a].key = cas[a].key
<1>1. cas[a].status # "absent"
  BY DEF CA
<1>2. cas'[a].key = cas[a].key
  BY <1>1, RowsStay
<1>3. ASSUME NEW r \in Requests, RetiringEnds(r) PROVE CA(a)'
  <2>1. PICK v \in Statuses \union {"deleted"} :
          /\ requests[r].op = "status" => v = requests[r].status
          /\ RowSet(requests[r].ca, v) \/ (~CA(requests[r].ca) /\ UNCHANGED cas)
    BY <1>3 DEF RetiringEnds
  <2>2. CASE requests[r].ca # a
    BY <2>1, <2>2 DEF RowSet, CA
  <2>3. CASE requests[r].ca = a
    <3>1. requests[r].op = "status" /\ requests[r].status \in Statuses
      BY <1>3, <2>3 DEF RetiringEnds, Ended, RequestsNameCAs, NamesCA
    <3>2. RowSet(a, requests[r].status) /\ requests[r].status \in Statuses
      BY <2>1, <2>3, <3>1
    <3> QED
      BY <3>2 DEF RowSet, Restated, CA, Statuses
  <2> QED
    BY <2>2, <2>3
<1>4. ASSUME NEW r \in Requests, MakingEnds(r) PROVE CA(a)'
  <2>1. PICK b \in CAs : Inserted(r, b)
    BY <1>4 DEF MakingEnds
  <2>2. b # a /\ (cas'[a] = cas[a] \/ Restated(a, "retired", "rotated"))
    BY <1>1, <2>1 DEF Inserted, Added
  <2> QED
    BY <2>2 DEF Restated, CA
<1>5. ASSUME ImportedInserts PROVE CA(a)'
  <2>1. cas'[a] = cas[a]
    BY <1>1, <1>5 DEF ImportedInserts, InsertedImport, Added
  <2> QED
    BY <2>1 DEF CA
<1>6. ASSUME NEW r \in Requests,
             \/ MakingBegins(r) \/ Signs(r) \/ MakingFails(r) \/ RetiringBegins(r) \/ KeyGoes(r)
             \/ KeyStays(r) \/ IsLost(r)
      PROVE  UNCHANGED cas
  BY <1>6 DEF MakingBegins, Signs, MakingFails, RetiringBegins, KeyGoes, KeyStays, IsLost
<1>7. ASSUME Rebinds \/ ImportedKeyChanges \/ KeysLeft PROVE UNCHANGED cas
  BY <1>7 DEF Rebinds, ImportedKeyChanges, KeysLeft
<1>8. ASSUME UNCHANGED cas PROVE CA(a)'
  BY <1>8 DEF CA
<1>9. CA(a)'
  BY <1>3, <1>4, <1>5, <1>6, <1>7, <1>8 DEF Kind, ConsoleKind, KeysLeft
<1> QED
  BY <1>2, <1>9

----------------------------------------------------------------------------
(* The job and the requests on it.                                           *)

JobRow == [state : Open \union {"none", "completed", "failed", "expired", "cancelled"},
           type : {CATypeRoot, CATypeIssuing, None}, key : Keys \union {None},
           ca : CAs \union {None}]
ImporterRow ==
    [op : {"none", "observe", "finalize", "reject", "submit", "imported", "cancel", "cancelling"},
     was : Open \union {"none", "expired", "failed"}, key : Keys \union {None}]
OnlyImporter(i) == /\ importers' \in [Importers -> ImporterRow]
                   /\ \A j \in Importers \ {i} : importers'[j] = importers[j]

ImportBegins(i) ==
    /\ OnlyImporter(i) /\ importers[i].op = "none" /\ job.state \in Open
    /\ importers'[i].op \in {"observe", "submit", "cancel", "cancelling"}
    /\ importers'[i].op = "cancel" => job.key # None /\ job.key \in crossed'
    /\ importers'[i].was = job.state /\ importers'[i].key = job.key
    /\ UNCHANGED job
ImportGoes(i, op) ==
    /\ OnlyImporter(i) /\ importers[i].op \in {"observe", "cancel"} /\ importers'[i].op = op
    /\ importers'[i].was = importers[i].was /\ importers'[i].key = importers[i].key
    /\ UNCHANGED job
ImportGiven(i) ==
    /\ OnlyImporter(i) /\ importers[i].op = "submit" /\ importers'[i].op = "imported"
    /\ importers'[i].was = importers[i].was
    /\ \E k \in Keys : Given(k) /\ importers'[i].key = k
    /\ UNCHANGED job
ImportEnds(i) ==
    /\ OnlyImporter(i) /\ importers'[i].op = "none" /\ importers'[i].was = "none"
    /\ importers'[i].key = None

JobMoves(state) ==
    /\ job' \in JobRow /\ job'.state = state /\ job'.key = job.key /\ job'.ca = job.ca
    /\ state \in Open /\ Taken(job.key) => job.key \in crossed'
Left(k) == k \in stranded' \/ keys'[k].state = "destroyed"
OldKeyLeft == job'.key # job.key => job.key \in stranded' \union {None} \/ Taken(job.key)
JobCompletes(k) ==
    /\ job' \in JobRow /\ job'.state = "completed" /\ job'.key \in {job.key, k}
    /\ \E a \in CAs : InsertedImport(a, k) /\ job'.ca = a /\ UNCHANGED keys
    /\ OldKeyLeft
JobImports(k) ==
    /\ job' \in JobRow /\ job'.state = "importing" /\ job'.key = k /\ job'.ca = job.ca
    /\ OldKeyLeft /\ UNCHANGED cas
Idle == {"preparing", "ready_to_wrap", "failed", "expired", "cancelled"}

(* Assigning one import request leaves the others.                            *)
LEMMA ImporterSet ==
  ASSUME ImportTypeOK, NEW i \in Importers, NEW d \in ImporterRow,
         importers' = [importers EXCEPT ![i] = d]
  PROVE  OnlyImporter(i) /\ importers'[i] = d
<1>1. importers \in [Importers -> ImporterRow]
  BY DEF ImportTypeOK, ImporterRow
<1> QED
  BY <1>1 DEF OnlyImporter

(* An import request that ends frees its own place only.                      *)
LEMMA EndImportEffect ==
  ASSUME ImportTypeOK, NEW i \in Importers, EndImport(i)
  PROVE  ImportEnds(i)
<1>1. NoImporter \in ImporterRow
  BY DEF NoImporter, ImporterRow
<1>2. OnlyImporter(i) /\ importers'[i] = NoImporter
  BY <1>1, ImporterSet DEF EndImport
<1> QED
  BY <1>2 DEF ImportEnds, NoImporter

(* An import request begins with what it read of the job.                     *)
LEMMA BeginImportEffect ==
  ASSUME ImportTypeOK, NEW i \in Importers, NEW op \in {"observe", "submit", "cancel", "cancelling"},
         Free(i), BeginImport(i, op), job.state \in Open, UNCHANGED job,
         op = "cancel" => job.key # None /\ job.key \in crossed'
  PROVE  ImportBegins(i)
<1> DEFINE d == [op |-> op, was |-> job.state, key |-> job.key]
<1>1. d \in ImporterRow /\ importers' = [importers EXCEPT ![i] = d]
  BY DEF ImporterRow, BeginImport, ImportTypeOK
<1>2. d.op = op /\ d.was = job.state /\ d.key = job.key
  OBVIOUS
<1> HIDE DEF d
<1>3. OnlyImporter(i) /\ importers'[i] = d
  BY <1>1, ImporterSet
<1> QED
  BY <1>2, <1>3 DEF ImportBegins, Free

(* An import request goes on with what it read.                               *)
LEMMA GoEffect ==
  ASSUME ImportTypeOK, NEW i \in Importers, NEW op \in {"finalize", "reject", "cancelling"},
         importers[i].op \in {"observe", "cancel"}, Go(i, op), UNCHANGED job
  PROVE  ImportGoes(i, op)
<1> DEFINE d == [importers[i] EXCEPT !.op = op]
<1>1. importers[i] \in ImporterRow
  BY DEF ImportTypeOK, ImporterRow
<1>2. d \in ImporterRow /\ d.op = op /\ d.was = importers[i].was /\ d.key = importers[i].key
  BY <1>1 DEF ImporterRow
<1>3. importers' = [importers EXCEPT ![i] = d]
  BY DEF Go
<1> HIDE DEF d
<1> QED
  BY <1>2, <1>3, ImporterSet DEF ImportGoes

(* The job moves from state to state and keeps its key.                       *)
LEMMA JobSet ==
  ASSUME ImportTypeOK, NEW state \in Idle, job' = [job EXCEPT !.state = state],
         state \in Open /\ Taken(job.key) => job.key \in crossed'
  PROVE  JobMoves(state)
  BY DEF ImportTypeOK, JobRow, JobMoves, Idle, Open

(* What a step does to the job and the requests on it.                       *)
JobKind(i) ==
    \/ ImportBegins(i) \/ ImportGiven(i) \/ ImportGoes(i, "cancelling")
    \/ /\ importers[i].was = "importing" /\ ImportGoes(i, "reject")
       /\ ~keys[importers[i].key].fits /\ UNCHANGED keys
    \/ /\ importers[i].was = "importing" /\ ImportGoes(i, "finalize")
       /\ keys[importers[i].key].fits /\ keys[importers[i].key].state = "enabled"
       /\ UNCHANGED keys
    \/ /\ ImportEnds(i)
       /\ importers[i].op = "imported" => Left(importers[i].key)
       /\ UNCHANGED job \/ \E state \in Idle : JobMoves(state)
    \/ /\ ImportEnds(i) /\ importers[i].op \in {"finalize", "imported"}
       /\ \/ JobCompletes(importers[i].key)
          \/ importers[i].op = "imported" /\ JobImports(importers[i].key)

(* A request that ends with nothing or a change of state in its hands.        *)
LEMMA PlainEnd ==
  ASSUME ImportTypeOK, NEW i \in Importers, EndImport(i),
         importers[i].op = "imported" => Left(importers[i].key),
         \/ UNCHANGED job
         \/ \E state \in Idle : /\ UpdateCAImportJobState(state)
                                /\ state \in Open /\ Taken(job.key) => job.key \in crossed'
  PROVE  JobKind(i)
<1>1. ImportEnds(i)
  BY EndImportEffect
<1>2. UNCHANGED job \/ \E state \in Idle : JobMoves(state)
  BY JobSet DEF UpdateCAImportJobState
<1> QED
  BY <1>1, <1>2 DEF JobKind

(* Every step of an import request is one of the kinds.                       *)
LEMMA JobKinds ==
  ASSUME AuthoritiesTypeOK, ImportTypeOK, ImportersHoldKeys, Crossings, NEW i \in Importers,
         Importing(i)
  PROVE  JobKind(i)
<1>0. importers[i].key \in Keys \union {None}
  <2>1. importers[i] \in ImporterRow
    BY DEF ImportTypeOK, ImporterRow
  <2> QED
    BY <2>1 DEF ImporterRow
<1>1. CASE SyncCAImport(i)
  BY <1>1, BeginImportEffect DEF SyncCAImport, JobKind
<1>2. CASE SubmitWrappedKey(i)
  BY <1>2, BeginImportEffect DEF SubmitWrappedKey, JobKind, Open
<1>3. CASE CancelCAImport(i)
  <2>1. job.key # None => job.key \in crossed'
    BY <1>3 DEF CancelCAImport, Crossings, ImportTypeOK
  <2> QED
    BY <1>3, <2>1, BeginImportEffect DEF CancelCAImport, JobKind
<1>4. CASE Observe(i)
  <2>0. importers[i].op = "observe" /\ UNCHANGED keys
    BY <1>4 DEF Observe, authoritiesVars
  <2>1. CASE EndImport(i) /\ UNCHANGED job
    BY <2>0, <2>1, PlainEnd
  <2>2. CASE EndImport(i) /\ UpdateCAImportJobState("expired")
    BY <2>0, <2>2, PlainEnd DEF Idle, Open
  <2>3. CASE EndImport(i) /\ UpdateCAImportJobState("failed")
    BY <2>0, <2>3, PlainEnd DEF Idle, Open
  <2>4. CASE /\ importers[i].was = "preparing" /\ wrapping = "active"
             /\ EndImport(i) /\ SetCAImportJobWrapping
    <3>1. Taken(job.key) => job.key \in crossed'
      BY <1>4, <2>4 DEF Observe
    <3>2. UpdateCAImportJobState("ready_to_wrap") /\ "ready_to_wrap" \in Idle
      BY <2>4 DEF SetCAImportJobWrapping, UpdateCAImportJobState, Idle
    <3> QED
      BY <2>0, <2>4, <3>1, <3>2, PlainEnd
  <2>5. CASE /\ importers[i].was = "importing" /\ keys[importers[i].key].state = "enabled"
             /\ Go(i, IF publicKeysEqual(importers[i].key) THEN "finalize" ELSE "reject")
             /\ UNCHANGED job
    BY <2>0, <2>5, GoEffect DEF JobKind, publicKeysEqual
  <2> QED
    BY <1>4, <2>1, <2>2, <2>3, <2>4, <2>5 DEF Observe
<1>5. ASSUME importers[i].op \in {"finalize", "imported"}, importers[i].key \in Keys, EndImport(i),
             UNCHANGED keys, NEW a \in CAs, NewCA(a), CreateCA(job.type, importers[i].key),
             InsertImported(a, importers[i].key),
             \/ job' = [job EXCEPT !.state = "completed", !.ca = a]
             \/ /\ job' = [SetCAImportJobKeyVersion(importers[i].key)
                             EXCEPT !.state = "completed", !.ca = a]
                /\ Replaced \subseteq stranded'
      PROVE  JobKind(i)
  <2>1. job \in JobRow
    BY DEF ImportTypeOK, JobRow
  <2>2. /\ job' \in JobRow /\ job'.state = "completed" /\ job'.ca = a
        /\ job'.key \in {job.key, importers[i].key}
    BY <1>5, <2>1 DEF SetCAImportJobKeyVersion, JobRow, Open
  <2>3. InsertedImport(a, importers[i].key)
    BY <1>5, ImportEffect
  <2>4. OldKeyLeft
    BY <1>5, <2>1 DEF OldKeyLeft, Replaced, JobRow
  <2> QED
    BY <1>5, <2>2, <2>3, <2>4, EndImportEffect DEF JobKind, JobCompletes
<1>6. CASE finalizeImport(i)
  <2>1. importers[i].key \in Keys /\ importers[i].op = "finalize"
    BY <1>0, <1>6 DEF finalizeImport, ImportersHoldKeys, ImporterHoldsKey
  <2>2. CASE CreateCA(job.type, importers[i].key)
    BY <1>5, <1>6, <2>1, <2>2 DEF finalizeImport, CompleteCAImportJob
  <2>3. CASE ~CreateCA(job.type, importers[i].key)
    BY <1>6, <2>1, <2>3, PlainEnd DEF finalizeImport
  <2> QED
    BY <2>2, <2>3
<1>7. CASE submitCommit(i)
  <2>1. importers[i].key \in Keys /\ importers[i].op = "imported" /\ UNCHANGED keys /\ EndImport(i)
    BY <1>0, <1>7 DEF submitCommit, ImportersHoldKeys, ImporterHoldsKey
  <2>2. CASE /\ job' = SetCAImportJobKeyVersion(importers[i].key) /\ UNCHANGED cas
             /\ stranded' = stranded \union Replaced
    <3>1. job \in JobRow
      BY DEF ImportTypeOK, JobRow
    <3>2. OldKeyLeft
      BY <2>2 DEF OldKeyLeft, Replaced
    <3>3. JobImports(importers[i].key)
      BY <2>1, <2>2, <3>1, <3>2 DEF SetCAImportJobKeyVersion, JobImports, JobRow, Open
    <3> QED
      BY <2>1, <3>3, EndImportEffect DEF JobKind
  <2>3. CASE UNCHANGED job /\ stranded' = stranded \union {importers[i].key}
    BY <2>1, <2>3, PlainEnd DEF Left
  <2>4. CASE \E a \in CAs :
               /\ NewCA(a) /\ InsertImported(a, importers[i].key)
               /\ CreateCA(job.type, importers[i].key)
               /\ stranded' = stranded \union Replaced
               /\ job' = [SetCAImportJobKeyVersion(importers[i].key)
                            EXCEPT !.state = "completed", !.ca = a]
    BY <1>5, <2>1, <2>4
  <2> QED
    BY <1>7, <2>2, <2>3, <2>4 DEF submitCommit
<1>8. CASE failImport(i)
  BY <1>8, PlainEnd DEF failImport, Idle, Open
<1>9. CASE ImportWrappedKey(i)
  <2>1. CASE wrapping = "expired"
    BY <1>9, <2>1, PlainEnd DEF ImportWrappedKey, Idle, Open
  <2>2. CASE wrapping # "expired"
    <3>1. PICK k \in Submitted, fits \in BOOLEAN :
            /\ NewKey(k)
            /\ keys' = [keys EXCEPT ![k] = [state |-> "pending", imported |-> TRUE, fits |-> fits]]
            /\ importers' = [importers EXCEPT ![i].op = "imported", ![i].key = k]
            /\ UNCHANGED job
      BY <1>9, <2>2 DEF ImportWrappedKey
    <3>2. k \in Keys /\ Given(k) /\ importers[i].op = "submit"
      BY <1>9, <3>1, GivenEffect DEF ImportWrappedKey
    <3> DEFINE d == [[importers[i] EXCEPT !.op = "imported"] EXCEPT !.key = k]
    <3>3. importers[i] \in ImporterRow
      BY DEF ImportTypeOK, ImporterRow
    <3>4. d \in ImporterRow /\ d.op = "imported" /\ d.was = importers[i].was /\ d.key = k
      BY <3>2, <3>3 DEF ImporterRow
    <3>5. importers' = [importers EXCEPT ![i] = d]
      BY <3>1 DEF ImportTypeOK
    <3> HIDE DEF d
    <3> QED
      BY <3>1, <3>2, <3>4, <3>5, ImporterSet DEF JobKind, ImportGiven
  <2> QED
    BY <2>1, <2>2
<1>10. CASE cancelDestroy(i)
  <2>1. importers[i].op = "cancel" /\ UNCHANGED job
    BY <1>10 DEF cancelDestroy
  <2>2. CASE Go(i, "cancelling")
    BY <2>1, <2>2, GoEffect DEF JobKind
  <2>3. CASE EndImport(i)
    BY <2>1, <2>3, PlainEnd
  <2> QED
    BY <1>10, <2>2, <2>3 DEF cancelDestroy
<1>11. CASE cancelCommit(i)
  <2>1. UpdateCAImportJobState("cancelled")
    BY <1>11 DEF cancelCommit, CancelCAImportJob, UpdateCAImportJobState
  <2> QED
    BY <1>11, <2>1, PlainEnd DEF cancelCommit, Idle, Open
<1>12. CASE LoseImport(i)
  <2>1. ASSUME importers[i].op = "imported" PROVE Left(importers[i].key)
    <3>1. importers[i].key \in Keys
      BY <1>0, <2>1 DEF ImportersHoldKeys, ImporterHoldsKey
    <3> QED
      BY <1>12, <2>1, <3>1, CleanEffect DEF LoseImport, Cleaned, Left, Destroyed
  <2> QED
    BY <1>12, <2>1, PlainEnd DEF LoseImport
<1> QED
  BY <1>1, <1>2, <1>3, <1>4, <1>6, <1>7, <1>8, <1>9, <1>10, <1>11, <1>12 DEF Importing

(* An imported key stays imported, and fits as it did.                        *)
LEMMA ImportedStays ==
  ASSUME AuthoritiesTypeOK, RowsHaveKeys, MakersHoldKeys, RequestsNameCAs, Kind, NEW k, Imported(k)
  PROVE  Imported(k)' /\ (keys'[k].fits <=> keys[k].fits)
  BY KeysStay DEF Imported

(* What the invariants of the job are proved from, step by step.             *)
JobStep ==
    \/ \E i \in Importers : JobKind(i)
    \/ UNCHANGED <<job, importers>>
    \/ JobMoves("preparing") /\ UNCHANGED importers
    \/ JobMoves("ready_to_wrap") /\ UNCHANGED importers

(* Every step of the import is one of the kinds, on the job and on the requests. *)
LEMMA JobSteps ==
  ASSUME AuthoritiesTypeOK, ImportTypeOK, ImportersHoldKeys, Crossings, [ImportNext]_importVars
  PROVE  JobStep
<1>1. ASSUME NEW type \in {CATypeRoot, CATypeIssuing}, StartCAImport(type) PROVE JobStep
  <2>1. PICK started \in {"pending", "active"} :
          job' = [job EXCEPT !.type = type,
                    !.state = IF started = "active" THEN "ready_to_wrap" ELSE "preparing"]
    BY <1>1 DEF StartCAImport
  <2>2. job \in JobRow
    BY DEF ImportTypeOK, JobRow
  <2>3. Taken(job.key) => job.key \in crossed'
    BY <1>1 DEF StartCAImport, Crossings
  <2>4. JobMoves("preparing") \/ JobMoves("ready_to_wrap")
    BY <2>1, <2>2, <2>3 DEF JobMoves, JobRow, Open
  <2> QED
    BY <1>1, <2>4 DEF StartCAImport, JobStep
<1>2. ASSUME ImportJob \/ \E k \in Keys : ImportedKeyState(k) PROVE JobStep
  BY <1>2 DEF ImportJob, ImportedKeyState, JobStep
<1> QED
  BY <1>1, <1>2, JobKinds DEF ImportNext, JobStep, importVars

(* What crossed a cancellation has crossed it for good.                       *)
LEMMA CrossedGrows ==
  ASSUME AuthoritiesTypeOK, ImportTypeOK, RowsHaveKeys, [ImportNext]_importVars
  PROVE  crossed \subseteq crossed' /\ crossed' \subseteq Keys
<1>1. crossed \subseteq Keys /\ job.key \in Keys \union {None}
  BY DEF ImportTypeOK
<1>2. Taken(job.key) => job.key \in Keys
  BY DEF Taken, CA, RowsHaveKeys
<1>3. ASSUME NEW i \in Importers, Observe(i)
      PROVE  crossed \subseteq crossed' /\ crossed' \subseteq Keys
  BY <1>1, <1>2, <1>3 DEF Observe
<1>4. ASSUME NEW i \in Importers, CancelCAImport(i)
      PROVE  crossed \subseteq crossed' /\ crossed' \subseteq Keys
  BY <1>1, <1>4 DEF CancelCAImport
<1>5. ASSUME NEW i \in Importers, Importing(i), ~Observe(i), ~CancelCAImport(i) PROVE UNCHANGED crossed
  BY <1>5 DEF Importing, SyncCAImport, finalizeImport, failImport, SubmitWrappedKey, ImportWrappedKey,
              submitCommit, cancelDestroy, cancelCommit, LoseImport
<1>6. ASSUME ~\E i \in Importers : Importing(i) PROVE UNCHANGED crossed
  BY <1>6 DEF ImportNext, StartCAImport, ImportJob, ImportedKeyState, importVars
<1> QED
  BY <1>1, <1>3, <1>4, <1>5, <1>6

(* The job and the import requests keep their types.                          *)
LEMMA ImportTypeStep ==
  ASSUME AuthoritiesTypeOK, ImportTypeOK, RowsHaveKeys, ImportersHoldKeys, Crossings,
         [ImportNext]_importVars
  PROVE  ImportTypeOK'
<1>0. job \in JobRow /\ importers \in [Importers -> ImporterRow] /\ None \notin Keys
  BY DEF ImportTypeOK, JobRow, ImporterRow
<1>1. job' \in JobRow /\ importers' \in [Importers -> ImporterRow]
      /\ (job'.state = "importing" => job'.key # None)
  <2>1. ASSUME NEW i \in Importers, JobKind(i)
        PROVE  importers' \in [Importers -> ImporterRow]
    BY <2>1 DEF JobKind, ImportBegins, ImportGoes, ImportGiven, ImportEnds, OnlyImporter
  <2>2. ASSUME NEW state \in Idle, JobMoves(state)
        PROVE  job' \in JobRow /\ job'.state # "importing"
    BY <2>2 DEF JobMoves, Idle
  <2>3. ASSUME NEW i \in Importers, importers[i].op \in {"finalize", "imported"},
               JobCompletes(importers[i].key) \/ JobImports(importers[i].key)
        PROVE  job' \in JobRow /\ (job'.state = "importing" => job'.key # None)
    BY <2>3 DEF JobCompletes, JobImports, ImportersHoldKeys, ImporterHoldsKey
  <2>4. UNCHANGED job => job' \in JobRow /\ (job'.state = "importing" => job'.key # None)
    BY <1>0 DEF ImportTypeOK
  <2>5. ASSUME NEW i \in Importers, JobKind(i)
        PROVE  job' \in JobRow /\ (job'.state = "importing" => job'.key # None)
    BY <2>2, <2>3, <2>4, <2>5 DEF JobKind, ImportBegins, ImportGoes, ImportGiven
  <2> QED
    BY <1>0, <2>1, <2>2, <2>4, <2>5, JobSteps DEF JobStep, Idle
<1>2. wrapping' \in {"none", "pending", "active", "expired"}
  BY DEF ImportTypeOK, ImportNext, importVars, StartCAImport, ImportJob, ImportedKeyState, Importing,
         SyncCAImport, Observe, finalizeImport, failImport, SubmitWrappedKey, ImportWrappedKey,
         submitCommit, CancelCAImport, cancelDestroy, cancelCommit, LoseImport
<1>3. crossed' \subseteq Keys
  BY CrossedGrows
<1> QED
  BY <1>1, <1>2, <1>3 DEF ImportTypeOK, JobRow, ImporterRow

(* An import request holds the key it read as long as the key may be used.    *)
LEMMA ImporterStep ==
  ASSUME AuthoritiesTypeOK, ImportTypeOK, RowsHaveKeys, MakersHoldKeys, RequestsNameCAs,
         ImportersHoldKeys, Kind, JobStep
  PROVE  ImportersHoldKeys'
<1> DEFINE Still(k) == k \in Keys /\ keys'[k].state # "none" /\ keys'[k].imported
<1>0. None \notin Keys /\ (job.state = "importing" => job.key # None)
  BY DEF ImportTypeOK
<1>1. ASSUME NEW k, Imported(k) PROVE Still(k) /\ (keys'[k].fits <=> keys[k].fits)
  BY <1>1, ImportedStays DEF Imported
<1>2. ASSUME NEW i \in Importers, importers'[i] = importers[i] PROVE ImporterHoldsKey(i)'
  <2>1. ImporterHoldsKey(i)
    BY DEF ImportersHoldKeys
  <2> QED
    BY <1>1, <1>2, <2>1 DEF ImporterHoldsKey, Imported
<1>3. ASSUME NEW i \in Importers, OnlyImporter(i), ImporterHoldsKey(i)',
             job'.key # None => Still(job'.key)
      PROVE  ImportersHoldKeys'
  BY <1>2, <1>3 DEF OnlyImporter, ImportersHoldKeys, Imported
<1>4. job.key # None => Still(job.key)
  BY <1>1 DEF ImportersHoldKeys
<1>5. ASSUME NEW i \in Importers, JobKind(i) PROVE ImportersHoldKeys'
  <2>0. ImporterHoldsKey(i)
    BY DEF ImportersHoldKeys
  <2>1. CASE ImportBegins(i)
    <3>1. ImporterHoldsKey(i)'
      BY <1>0, <1>4, <2>1 DEF ImportBegins, ImporterHoldsKey, Imported
    <3> QED
      BY <1>3, <1>4, <2>1, <3>1 DEF ImportBegins
  <2>2. CASE ImportGiven(i)
    <3>1. PICK k \in Keys : Given(k) /\ importers'[i].key = k
      BY <2>2 DEF ImportGiven
    <3>2. Still(k)
      BY <3>1 DEF Given
    <3>3. ImporterHoldsKey(i)'
      BY <1>0, <2>2, <3>1, <3>2 DEF ImportGiven, ImporterHoldsKey, Imported
    <3> QED
      BY <1>3, <1>4, <2>2, <3>3 DEF ImportGiven
  <2>3. CASE ImportGoes(i, "cancelling")
    <3>1. ImporterHoldsKey(i)'
      BY <1>1, <2>0, <2>3 DEF ImportGoes, ImporterHoldsKey, Imported
    <3> QED
      BY <1>3, <1>4, <2>3, <3>1 DEF ImportGoes
  <2>4. CASE /\ importers[i].was = "importing" /\ ImportGoes(i, "reject")
             /\ ~keys[importers[i].key].fits /\ UNCHANGED keys
    <3>1. ImporterHoldsKey(i)'
      BY <1>1, <2>0, <2>4 DEF ImportGoes, ImporterHoldsKey, Imported
    <3> QED
      BY <1>3, <1>4, <2>4, <3>1 DEF ImportGoes
  <2>5. CASE /\ importers[i].was = "importing" /\ ImportGoes(i, "finalize")
             /\ keys[importers[i].key].fits /\ keys[importers[i].key].state = "enabled"
             /\ UNCHANGED keys
    <3>1. ImporterHoldsKey(i)'
      BY <1>1, <2>0, <2>5 DEF ImportGoes, ImporterHoldsKey, Imported
    <3> QED
      BY <1>3, <1>4, <2>5, <3>1 DEF ImportGoes
  <2>6. CASE /\ ImportEnds(i)
             /\ \/ UNCHANGED job \/ \E state \in Idle : JobMoves(state)
                \/ /\ importers[i].op \in {"finalize", "imported"}
                   /\ JobCompletes(importers[i].key) \/ JobImports(importers[i].key)
    <3>1. ImporterHoldsKey(i)' /\ OnlyImporter(i)
      BY <2>6 DEF ImportEnds, ImporterHoldsKey, Imported
    <3>2. importers[i].op \in {"finalize", "imported"} => Still(importers[i].key)
      BY <1>1, <2>0 DEF ImporterHoldsKey, Imported
    <3>3. job'.key # None => Still(job'.key)
      <4>1. \/ job'.key = job.key
            \/ importers[i].op \in {"finalize", "imported"} /\ job'.key = importers[i].key
        BY <2>6 DEF JobMoves, JobCompletes, JobImports
      <4>2. ASSUME job'.key = job.key PROVE job'.key # None => Still(job'.key)
        BY <1>4, <4>2
      <4>3. ASSUME importers[i].op \in {"finalize", "imported"}, job'.key = importers[i].key
            PROVE  Still(job'.key)
        BY <3>2, <4>3
      <4> QED
        BY <4>1, <4>2, <4>3
    <3> QED
      BY <1>3, <3>1, <3>3
  <2> QED
    BY <1>5, <2>1, <2>2, <2>3, <2>4, <2>5, <2>6 DEF JobKind
<1>6. ASSUME UNCHANGED importers, job'.key = job.key PROVE ImportersHoldKeys'
  BY <1>2, <1>4, <1>6 DEF ImportersHoldKeys, Imported
<1> QED
  BY <1>5, <1>6 DEF JobStep, JobMoves

(* The key a row has after a step is the one it had, a request's own or that  *)
(* of an import request that ends.                                            *)
LEMMA RowKeys ==
  ASSUME AuthoritiesTypeOK, RowsHaveKeys, MakersHoldKeys, Kind, NEW a \in CAs
  PROVE  \/ cas'[a].key = cas[a].key
         \/ /\ keys[cas'[a].key].state # "none" /\ job'.state = "completed"
            /\ \E i \in Importers : ImportedBy(i, cas'[a].key)
         \/ keys[cas'[a].key].state # "none" /\ ~keys[cas'[a].key].imported
<1>1. ASSUME NEW r \in Requests, MakingEnds(r)
      PROVE  \/ cas'[a].key = cas[a].key
             \/ keys[cas'[a].key].state # "none" /\ ~keys[cas'[a].key].imported
  <2>1. PICK b \in CAs : Inserted(r, b)
    BY <1>1 DEF MakingEnds
  <2>2. cas'[a].key \in {cas[a].key, requests[r].key} /\ HoldsKey(r)
    BY <2>1 DEF Inserted, Added, Restated, MakersHoldKeys, Making
  <2> QED
    BY <2>2 DEF HoldsKey
<1>2. ASSUME ImportedInserts
      PROVE  \/ cas'[a].key = cas[a].key
             \/ /\ keys[cas'[a].key].state # "none" /\ job'.state = "completed"
                /\ \E i \in Importers : ImportedBy(i, cas'[a].key)
  <2>1. PICK b \in CAs, k \in Keys :
          InsertedImport(b, k) /\ Imported(k) /\ \E i \in Importers : ImportedBy(i, k)
    BY <1>2 DEF ImportedInserts
  <2>2. cas'[a].key = cas[a].key \/ cas'[a].key = k
    BY <2>1 DEF InsertedImport, Added
  <2> QED
    BY <1>2, <2>1, <2>2 DEF Imported, ImportedInserts
<1>3. CASE cas[a].status # "absent"
  BY <1>3, RowsStay
<1>4. CASE cas[a].status = "absent" /\ cas'[a] # cas[a]
  <2>1. ASSUME NEW r \in Requests, RetiringEnds(r) PROVE FALSE
    BY <1>4, <2>1 DEF RetiringEnds, RowSet, Restated, CA
  <2>2. ASSUME NEW r \in Requests,
               \/ MakingBegins(r) \/ Signs(r) \/ MakingFails(r) \/ RetiringBegins(r) \/ KeyGoes(r)
               \/ KeyStays(r) \/ IsLost(r)
        PROVE  UNCHANGED cas
    BY <2>2 DEF MakingBegins, Signs, MakingFails, RetiringBegins, KeyGoes, KeyStays, IsLost
  <2>3. ASSUME Rebinds \/ ImportedKeyChanges \/ KeysLeft PROVE UNCHANGED cas
    BY <2>3 DEF Rebinds, ImportedKeyChanges, KeysLeft
  <2> QED
    BY <1>1, <1>2, <1>4, <2>1, <2>2, <2>3 DEF Kind, ConsoleKind
<1> QED
  BY <1>3, <1>4

(* What the job and the import requests name after a step.                    *)
LEMMA JobKeys ==
  ASSUME ImportTypeOK, JobStep
  PROVE  /\ job'.key = job.key
            \/ \E j \in Importers : job'.key = importers[j].key /\ importers'[j].op = "none"
         /\ \A j \in Importers :
              \/ importers'[j] = importers[j]
              \/ JobKind(j)
         /\ \A j \in Importers :
              \/ importers'[j].key \in {importers[j].key, job.key, None}
              \/ /\ keys[importers'[j].key].state = "none" /\ importers'[j].op = "imported"
                 /\ ImportGiven(j)
<1>1. ASSUME NEW i \in Importers, JobKind(i)
      PROVE  job'.key = job.key \/ (job'.key = importers[i].key /\ importers'[i].op = "none")
  BY <1>1 DEF JobKind, ImportBegins, ImportGiven, ImportGoes, ImportEnds, JobMoves, JobCompletes,
              JobImports
<1>2. ASSUME NEW i \in Importers, JobKind(i) PROVE OnlyImporter(i)
  BY <1>2 DEF JobKind, ImportBegins, ImportGiven, ImportGoes, ImportEnds
<1>3. ASSUME NEW i \in Importers, JobKind(i)
      PROVE  \/ importers'[i].key \in {importers[i].key, job.key, None}
             \/ /\ keys[importers'[i].key].state = "none" /\ importers'[i].op = "imported"
                /\ ImportGiven(i)
  BY <1>3 DEF JobKind, ImportBegins, ImportGiven, ImportGoes, ImportEnds, Given
<1>4. CASE \E i \in Importers : JobKind(i)
  BY <1>1, <1>2, <1>3, <1>4 DEF OnlyImporter
<1>5. CASE UNCHANGED importers /\ job'.key = job.key
  BY <1>5
<1> QED
  BY <1>4, <1>5 DEF JobStep, JobMoves

(* A version that was just imported stays its request's own.                  *)
LEMMA OwnStep ==
  ASSUME AuthoritiesTypeOK, ImportTypeOK, RowsHaveKeys, MakersHoldKeys, ImportersHoldKeys, OwnKeys,
         Kind, JobStep
  PROVE  OwnKeys'
<1> SUFFICES ASSUME NEW i \in Importers, importers'[i].op = "imported"
             PROVE  /\ \A a \in CAs : cas'[a].key # importers'[i].key
                    /\ job'.key # importers'[i].key
                    /\ \A j \in Importers \ {i} : importers'[j].key # importers'[i].key
  BY DEF OwnKeys, OwnKey
<1> DEFINE k == importers'[i].key
<1>0. None \notin Keys
  BY Types
<1>1. CASE importers'[i] = importers[i]
  <2>1. /\ \A a \in CAs : cas[a].key # k
        /\ job.key # k /\ Imported(k) /\ k # None
        /\ \A j \in Importers \ {i} : importers[j].key # k
    BY <1>0, <1>1 DEF OwnKeys, OwnKey, ImportersHoldKeys, ImporterHoldsKey, Imported
  <2>2. ASSUME NEW j \in Importers, importers'[j].op = "none" PROVE importers[j].key # k
    BY <2>1, <2>2
  <2>3. ASSUME NEW a \in CAs PROVE cas'[a].key # k
    BY <2>1, <2>2, RowKeys DEF ImportedBy, Imported
  <2>4. job'.key # k
    BY <2>1, <2>2, JobKeys
  <2>5. ASSUME NEW j \in Importers \ {i} PROVE importers'[j].key # k
    BY <2>1, JobKeys DEF Imported
  <2> QED
    BY <2>3, <2>4, <2>5
<1>2. CASE importers'[i] # importers[i]
  <2>1. ImportGiven(i)
    BY <1>2, JobKeys DEF JobKind, ImportBegins, ImportGoes, ImportEnds
  <2>2. /\ k \in Keys /\ keys[k].state = "none" /\ UNCHANGED job
        /\ \A j \in Importers \ {i} : importers'[j] = importers[j]
    BY <2>1 DEF ImportGiven, Given, OnlyImporter
  <2>3. ASSUME NEW a \in CAs PROVE cas'[a].key # k
    <3>1. cas[a].key # k
      BY <1>0, <2>2 DEF RowsHaveKeys, NoCA
    <3> QED
      BY <2>2, <3>1, RowKeys
  <2> QED
    BY <1>0, <2>2, <2>3 DEF ImportersHoldKeys, ImporterHoldsKey, Imported
<1> QED
  BY <1>1, <1>2

(* An enabled key goes with its request or its CA, or has crossed, or is one  *)
(* nobody needs.                                                              *)
LEMMA EnabledStays ==
  ASSUME AuthoritiesTypeOK, RowsHaveKeys, RequestsNameCAs, MakersHoldKeys, Kind, NEW k \in Keys,
         keys[k].state = "enabled", keys[k].imported
  PROVE  \/ keys'[k].state = "enabled" \/ k \in crossed \/ Loose(k)
         \/ \E a \in CAs : cas[a].key = k
<1>1. ASSUME NEW r \in Requests, MakingBegins(r) PROVE keys'[k] = keys[k]
  BY <1>1 DEF MakingBegins, Made, OnlyKey
<1>2. ASSUME NEW r \in Requests, MakingFails(r) PROVE keys'[k] = keys[k]
  BY <1>2 DEF MakingFails, MakersHoldKeys, HoldsKey, Cleaned, Destroyed, OnlyKey
<1>3. ASSUME NEW r \in Requests, KeyGoes(r)
      PROVE  keys'[k] = keys[k] \/ \E a \in CAs : cas[a].key = k
  BY <1>3, RequestKeys DEF KeyGoes, Destroyed, OnlyKey
<1>4. ASSUME ImportedKeyChanges PROVE keys'[k] = keys[k] \/ k \in crossed \/ Loose(k)
  BY <1>4 DEF ImportedKeyChanges, Unwrapped, Given, Destroyed, OnlyKey
<1>5. ASSUME NEW r \in Requests,
             \/ Signs(r) \/ MakingEnds(r) \/ RetiringBegins(r) \/ RetiringEnds(r) \/ KeyStays(r)
             \/ IsLost(r)
      PROVE  UNCHANGED keys
  BY <1>5 DEF Signs, MakingEnds, Inserted, RetiringBegins, RetiringEnds, KeyStays, IsLost
<1>6. ASSUME Rebinds \/ ImportedInserts \/ KeysLeft PROVE UNCHANGED keys
  BY <1>6 DEF Rebinds, ImportedInserts, KeysLeft
<1> QED
  BY <1>1, <1>2, <1>3, <1>4, <1>5, <1>6 DEF Kind, ConsoleKind

(* What was found of a key stays so while the request goes on.                *)
LEMMA JudgeStep ==
  ASSUME AuthoritiesTypeOK, ImportTypeOK, RowsHaveKeys, RequestsNameCAs, MakersHoldKeys,
         ImportersHoldKeys, AllJudged, crossed \subseteq crossed', Kind, JobStep
  PROVE  AllJudged'
<1> SUFFICES ASSUME NEW i \in Importers
             PROVE  Judged(i)'
  BY DEF AllJudged
<1> DEFINE k == importers[i].key
<1>1. CASE importers'[i] = importers[i]
  <2>1. importers[i].op \in {"finalize", "reject"} => Imported(k) /\ k \in Keys
    BY DEF ImportersHoldKeys, ImporterHoldsKey, Imported
  <2>2. importers[i].op = "reject" => ~keys'[k].fits
    BY <2>1, ImportedStays DEF AllJudged, Judged
  <2>3. ASSUME importers[i].op = "finalize"
        PROVE  keys'[k].state = "enabled" \/ k \in crossed' \/ \E a \in CAs : cas'[a].key = k
    <3>1. ASSUME NEW a \in CAs, cas[a].key = k PROVE cas'[a].key = k
      <4>1. cas[a].status # "absent"
        BY <2>1, <2>3, <3>1, Types DEF RowsHaveKeys, NoCA
      <4> QED
        BY <3>1, <4>1, RowsStay
    <3>2. ~Loose(k)
      BY <2>3 DEF Loose
    <3>3. keys[k].state = "enabled" \/ k \in crossed \/ \E a \in CAs : cas[a].key = k
      BY <2>3 DEF AllJudged, Judged
    <3>4. keys[k].state = "enabled" =>
            keys'[k].state = "enabled" \/ k \in crossed \/ \E a \in CAs : cas[a].key = k
      BY <2>1, <2>3, <3>2, EnabledStays DEF Imported
    <3> QED
      BY <3>1, <3>3, <3>4
  <2> QED
    BY <1>1, <2>2, <2>3 DEF Judged
<1>2. CASE importers'[i] # importers[i]
  <2>1. JobKind(i)
    BY <1>2, JobKeys
  <2>2. CASE importers'[i].op \notin {"reject", "finalize"}
    BY <2>2 DEF Judged
  <2>3. CASE importers'[i].op \in {"reject", "finalize"}
    <3>1. /\ importers'[i].key = k /\ UNCHANGED keys
          /\ importers'[i].op = "reject" => ~keys[k].fits
          /\ importers'[i].op = "finalize" => keys[k].state = "enabled"
      BY <2>1, <2>3 DEF JobKind, ImportBegins, ImportGiven, ImportGoes, ImportEnds
    <3> QED
      BY <3>1 DEF Judged
  <2> QED
    BY <2>2, <2>3
<1> QED
  BY <1>1, <1>2

(* No cancellation, and no poll that opens a job again, goes unnoticed.       *)
LEMMA CrossStep ==
  ASSUME AuthoritiesTypeOK, ImportTypeOK, RowsHaveKeys, RequestsNameCAs, MakersHoldKeys,
         ImportersHoldKeys, OwnKeys, Crossings, crossed \subseteq crossed', Kind, JobStep
  PROVE  Crossings'
<1>1. ASSUME NEW i \in Importers, importers'[i].op = "cancel" PROVE importers'[i].key \in crossed'
  <2>1. CASE importers'[i] = importers[i]
    BY <1>1, <2>1 DEF Crossings
  <2>2. CASE importers'[i] # importers[i]
    <3>1. JobKind(i)
      BY <2>2, JobKeys
    <3> QED
      BY <1>1, <3>1 DEF JobKind, ImportBegins, ImportGiven, ImportGoes, ImportEnds
  <2> QED
    BY <2>1, <2>2
<1>2. ASSUME NEW k, Imported(k), Taken(k)', ~Taken(k) PROVE job'.state = "completed"
  <2>1. PICK a \in CAs : CA(a)' /\ cas'[a].key = k
    BY <1>2 DEF Taken
  <2>2. cas'[a].key # cas[a].key
    <3>1. CASE cas[a].status # "absent"
      BY <1>2, <2>1, <3>1, LiveWasLive, RowsStay DEF Taken
    <3>2. CASE cas[a].status = "absent"
      BY <1>2, <2>1, <3>2, Types DEF RowsHaveKeys, NoCA, Imported
    <3> QED
      BY <3>1, <3>2
  <2> QED
    BY <1>2, <2>1, <2>2, RowKeys DEF Imported
<1>3. ASSUME job'.key = job.key, job'.state # "completed", Taken(job.key)' PROVE Taken(job.key)
  <2>1. CASE job.key = None
    <3>1. PICK a \in CAs : CA(a)' /\ cas'[a].key = None
      BY <1>3, <2>1 DEF Taken
    <3>2. cas[a].status # "absent" => CA(a) /\ cas[a].key = None
      BY <3>1, LiveWasLive, RowsStay
    <3>3. cas[a].status # "absent"
      <4>1. ASSUME cas[a].status = "absent" PROVE FALSE
        <5>1. cas'[a] # cas[a]
          BY <3>1, <4>1 DEF CA
        <5> QED
          BY <3>1, <4>1, <5>1, RowsAppear, Types
      <4> QED
        BY <4>1
    <3> QED
      BY <2>1, <3>2, <3>3 DEF Taken
  <2>2. CASE job.key # None
    BY <1>2, <1>3, <2>2 DEF ImportersHoldKeys
  <2> QED
    BY <2>1, <2>2
<1>4. ASSUME UNCHANGED job, job'.state \in Open \union {"none"}, Taken(job.key)'
      PROVE  job'.key \in crossed'
  <2>1. job'.state # "completed"
    BY <1>4 DEF Open
  <2> QED
    BY <1>3, <1>4, <2>1 DEF Crossings
<1>5. ASSUME NEW state \in Idle, JobMoves(state), job'.state \in Open \union {"none"},
             Taken(job.key)'
      PROVE  job'.key \in crossed'
  <2>1. /\ job'.key = job.key /\ job'.state \in Open /\ job'.state # "completed"
        /\ Taken(job.key) => job.key \in crossed'
    BY <1>5 DEF JobMoves, Idle, Open
  <2> QED
    BY <1>3, <1>5, <2>1
<1>6. ASSUME NEW i \in Importers, importers[i].op = "imported", JobImports(importers[i].key)
      PROVE  ~Taken(job.key)'
  <2>1. \A a \in CAs : cas[a].key # importers[i].key
    BY <1>6 DEF OwnKeys, OwnKey
  <2> QED
    BY <1>6, <2>1 DEF JobImports, Taken
<1>7. ASSUME NEW i \in Importers, JobKind(i), job'.state \in Open \union {"none"}, Taken(job.key)'
      PROVE  job'.key \in crossed'
  <2>1. ~JobCompletes(importers[i].key)
    BY <1>7 DEF JobCompletes, Open
  <2> QED
    BY <1>4, <1>5, <1>6, <1>7, <2>1 DEF JobKind, ImportBegins, ImportGiven, ImportGoes
<1>8. job'.state \in Open \union {"none"} /\ Taken(job.key)' => job'.key \in crossed'
  BY <1>4, <1>5, <1>7 DEF JobStep, Idle
<1> QED
  BY <1>1, <1>8 DEF Crossings

(* The key the job names, and one that was just imported, stay so, become a   *)
(* CA's, or are left behind.                                                  *)
LEMMA JobKept ==
  ASSUME AuthoritiesTypeOK, ImportTypeOK, RequestsNameCAs, ImportersHoldKeys, Kind, JobStep,
         NEW k \in Keys, JobHas(k), ~Left(k)
  PROVE  JobHas(k)' \/ Taken(k)'
<1>0. None \notin Keys
  BY Types
<1>1. ASSUME NEW i \in Importers, OnlyImporter(i), UNCHANGED job, importers[i].op # "imported"
      PROVE  JobHas(k)'
  BY <1>1 DEF JobHas, OnlyImporter
<1>2. ASSUME NEW i \in Importers, OnlyImporter(i), job'.key = job.key,
             importers[i].op = "imported" => Left(importers[i].key)
      PROVE  JobHas(k)'
  BY <1>2 DEF JobHas, OnlyImporter
<1>3. ASSUME NEW i \in Importers, OnlyImporter(i), JobCompletes(importers[i].key)
      PROVE  JobHas(k)' \/ Taken(k)'
  <2>1. PICK a \in CAs : InsertedImport(a, importers[i].key) /\ OldKeyLeft
    BY <1>3 DEF JobCompletes
  <2>2. importers[i].key = k => Taken(k)'
    BY <2>1 DEF InsertedImport, Added, Taken, CA
  <2>3. Taken(k) => Taken(k)'
    BY <2>1 DEF InsertedImport, Added, Taken, CA
  <2>4. job.key = k => job'.key = k \/ Taken(k)'
    BY <1>0, <2>1, <2>3 DEF OldKeyLeft, Left
  <2> QED
    BY <1>3, <2>2, <2>4 DEF JobHas, OnlyImporter
<1>4. ASSUME NEW i \in Importers, OnlyImporter(i), JobImports(importers[i].key)
      PROVE  JobHas(k)' \/ Taken(k)'
  <2>1. Taken(k) => Taken(k)'
    BY <1>4 DEF JobImports, Taken, CA
  <2>2. job.key = k => job'.key = k \/ Taken(k)'
    BY <1>0, <1>4, <2>1 DEF JobImports, OldKeyLeft, Left
  <2> QED
    BY <1>4, <2>2 DEF JobHas, OnlyImporter, JobImports
<1>5. ASSUME NEW i \in Importers, JobKind(i) PROVE JobHas(k)' \/ Taken(k)'
  <2>1. OnlyImporter(i)
    BY <1>5 DEF JobKind, ImportBegins, ImportGiven, ImportGoes, ImportEnds
  <2>2. CASE \/ ImportBegins(i) \/ ImportGiven(i) \/ ImportGoes(i, "cancelling")
             \/ ImportGoes(i, "reject") \/ ImportGoes(i, "finalize")
    BY <1>1, <2>1, <2>2 DEF ImportBegins, ImportGiven, ImportGoes
  <2>3. CASE /\ importers[i].op = "imported" => Left(importers[i].key)
             /\ UNCHANGED job \/ \E state \in Idle : JobMoves(state)
    BY <1>2, <2>1, <2>3 DEF JobMoves
  <2> QED
    BY <1>3, <1>4, <1>5, <2>1, <2>2, <2>3 DEF JobKind
<1>6. ASSUME UNCHANGED importers, job'.key = job.key PROVE JobHas(k)'
  BY <1>6 DEF JobHas
<1> QED
  BY <1>5, <1>6 DEF JobStep, JobMoves

(* A key that is there or on its way has a CA, a request or the job, or is    *)
(* known to be left behind.                                                   *)
LEMMA AccountStep ==
  ASSUME AuthoritiesTypeOK, ImportTypeOK, RowsHaveKeys, RequestsNameCAs, MakersHoldKeys,
         ImportersHoldKeys, KeysOwned, Kind, JobStep
  PROVE  KeysOwned'
<1> DEFINE Held(k) == Taken(k) \/ JobHas(k) \/ \E r \in Requests : requests[r].key = k
<1> SUFFICES ASSUME NEW k \in Keys, keys'[k].state \in {"pending", "enabled"}, k \notin stranded'
             PROVE  Held(k)'
  BY DEF KeysOwned
<1>0. None \notin Keys /\ ~Left(k)
  BY Types DEF Left
<1> SUFFICES ASSUME ~JobHas(k)
             PROVE  Held(k)'
  BY <1>0, JobKept
<1>1. ASSUME k \in stranded => k \in stranded', keys'[k] = keys[k],
             \A a \in CAs : CA(a) /\ cas[a].key = k => CA(a)' /\ cas'[a].key = k,
             \A r \in Requests : requests[r].key = k =>
               \/ requests'[r].key = k
               \/ \E a \in CAs : CA(a)' /\ cas'[a].key = k
      PROVE  Held(k)'
  <2>1. Taken(k) \/ \E r \in Requests : requests[r].key = k
    BY <1>1 DEF KeysOwned
  <2>2. CASE Taken(k)
    BY <1>1, <2>2 DEF Taken
  <2>3. CASE \E r \in Requests : requests[r].key = k
    BY <1>1, <2>3 DEF Taken
  <2> QED
    BY <2>1, <2>2, <2>3
<1>2. ASSUME NEW r \in Requests, requests[r].op \in {"none", "status", "destroy", "mark"}
      PROVE  requests[r].key # k
  BY <1>0, <1>2 DEF MakersHoldKeys, Making
<1>3. ASSUME NEW r \in Requests, OnlyRequest(r), UNCHANGED cas, stranded \subseteq stranded',
             keys'[k] = keys[k], requests[r].key # k \/ requests'[r].key = k
      PROVE  Held(k)'
  <2>1. \A q \in Requests : requests[q].key = k => requests'[q].key = k
    BY <1>3 DEF OnlyRequest
  <2>2. \A a \in CAs : CA(a) /\ cas[a].key = k => CA(a)' /\ cas'[a].key = k
    BY <1>3 DEF CA
  <2> QED
    BY <1>1, <1>3, <2>1, <2>2
<1>4. ASSUME NEW r \in Requests, MakingBegins(r) PROVE Held(k)'
  <2>1. PICK j \in Keys, a \in CAs \union {None}, type \in {CATypeRoot, CATypeIssuing},
             new \in {None, "retired"} :
          Made(j) /\ Begun(r, "sign", a, j, type, new)
    BY <1>4 DEF MakingBegins
  <2>2. CASE j = k
    BY <2>1, <2>2 DEF Begun
  <2>3. CASE j # k
    <3>1. keys'[k] = keys[k] /\ requests[r].key # k /\ OnlyRequest(r)
      BY <1>2, <2>1, <2>3 DEF Made, OnlyKey, Begun
    <3> QED
      BY <1>3, <1>4, <3>1 DEF MakingBegins
  <2> QED
    BY <2>2, <2>3
<1>5. ASSUME NEW r \in Requests, Signs(r) PROVE Held(k)'
  BY <1>3, <1>5 DEF Signs, Advanced
<1>6. ASSUME NEW r \in Requests, MakingFails(r) PROVE Held(k)'
  <2>1. Cleaned(requests[r].key) /\ OnlyRequest(r) /\ UNCHANGED cas
    BY <1>6 DEF MakingFails, Ended
  <2>2. requests[r].key # k
    BY <2>1 DEF Cleaned, Destroyed
  <2>3. keys'[k] = keys[k] /\ stranded \subseteq stranded'
    BY <2>1, <2>2 DEF Cleaned, Destroyed, OnlyKey
  <2> QED
    BY <1>3, <2>1, <2>2, <2>3
<1>7. ASSUME NEW r \in Requests, MakingEnds(r) PROVE Held(k)'
  <2>1. PICK a \in CAs : Inserted(r, a)
    BY <1>7 DEF MakingEnds
  <2>2. OnlyRequest(r) /\ UNCHANGED <<keys, stranded>> /\ requests[r].op = "insert"
    BY <1>7, <2>1 DEF MakingEnds, Ended, Inserted
  <2>3. requests[r].key = k => CA(a)' /\ cas'[a].key = k
    BY <2>1 DEF Inserted, Added, CA
  <2>4. \A q \in Requests : requests[q].op = "mark" => requests'[q].op = "mark"
    BY <2>2 DEF OnlyRequest
  <2>5. \A b \in CAs : CA(b) /\ cas[b].key = k => CA(b)' /\ cas'[b].key = k
    BY <2>4, LiveStays
  <2> QED
    BY <1>1, <2>2, <2>3, <2>5 DEF OnlyRequest
<1>8. ASSUME NEW r \in Requests, RetiringBegins(r) PROVE Held(k)'
  <2>1. OnlyRequest(r) /\ requests[r].op = "none" /\ UNCHANGED <<cas, keys, stranded>>
    BY <1>8 DEF RetiringBegins, Begun
  <2> QED
    BY <1>2, <1>3, <2>1
<1>9. ASSUME NEW r \in Requests, RetiringEnds(r) PROVE Held(k)'
  <2>1. OnlyRequest(r) /\ requests[r].op \in {"status", "mark"} /\ UNCHANGED <<keys, stranded>>
    BY <1>9 DEF RetiringEnds, Ended
  <2>2. requests[r].op = "mark" => cas[requests[r].ca].key # k
    BY <2>1 DEF RequestsNameCAs, NamesCA
  <2>3. ASSUME NEW b \in CAs, CA(b), cas[b].key = k PROVE CA(b)' /\ cas'[b].key = k
    <3>1. \A q \in Requests :
            requests[q].op = "mark" /\ requests[q].ca = b => requests'[q].op = "mark"
      BY <2>1, <2>2, <2>3 DEF OnlyRequest
    <3> QED
      BY <2>3, <3>1, LiveStays
  <2>4. \A q \in Requests : requests[q].key = k => requests'[q].key = k
    BY <1>2, <2>1 DEF OnlyRequest
  <2> QED
    BY <1>1, <2>1, <2>3, <2>4
<1>10. ASSUME NEW r \in Requests, KeyGoes(r) PROVE Held(k)'
  <2>1. /\ OnlyRequest(r) /\ requests'[r].key = requests[r].key /\ UNCHANGED <<cas, stranded>>
        /\ Destroyed(cas[requests[r].ca].key)
    BY <1>10 DEF KeyGoes, Advanced
  <2>2. keys'[k] = keys[k]
    BY <2>1 DEF Destroyed, OnlyKey
  <2> QED
    BY <1>3, <2>1, <2>2
<1>11. ASSUME NEW r \in Requests, KeyStays(r) PROVE Held(k)'
  BY <1>2, <1>3, <1>11 DEF KeyStays, Ended
<1>12. ASSUME NEW r \in Requests, IsLost(r) PROVE Held(k)'
  <2>1. OnlyRequest(r) /\ UNCHANGED <<cas, keys>> /\ stranded \subseteq stranded'
    BY <1>12 DEF IsLost, Ended
  <2>2. requests[r].key # k
    BY <1>0, <1>2, <1>12 DEF IsLost
  <2> QED
    BY <1>3, <2>1, <2>2
<1>13. ASSUME UNCHANGED requests, k \in stranded => k \in stranded', keys'[k] = keys[k]
       PROVE  Held(k)'
  <2>1. ASSUME NEW b \in CAs, CA(b), cas[b].key = k PROVE CA(b)' /\ cas'[b].key = k
    BY <1>13, <2>1, LiveStays
  <2> QED
    BY <1>1, <1>13, <2>1
<1>14. ASSUME ImportedKeyChanges PROVE Held(k)'
  <2>1. PICK j \in Keys : Unwrapped(j) \/ (Given(j) /\ JobHas(j)') \/ Destroyed(j)
    BY <1>14 DEF ImportedKeyChanges
  <2>2. CASE j # k
    <3>1. keys'[k] = keys[k]
      BY <2>1, <2>2 DEF Unwrapped, Given, Destroyed, OnlyKey
    <3> QED
      BY <1>13, <1>14, <3>1 DEF ImportedKeyChanges
  <2>3. CASE j = k /\ Unwrapped(k)
    <3>1. keys[k].state = "pending" /\ UNCHANGED <<cas, requests, stranded>>
      BY <1>14, <2>3 DEF Unwrapped, ImportedKeyChanges
    <3>2. Taken(k) \/ \E r \in Requests : requests[r].key = k
      BY <3>1 DEF KeysOwned
    <3> QED
      BY <3>1, <3>2 DEF Taken, CA
  <2>4. CASE j = k /\ ~Unwrapped(k)
    BY <2>1, <2>4 DEF Destroyed
  <2> QED
    BY <2>2, <2>3, <2>4
<1>15. ASSUME ImportedInserts PROVE Held(k)'
  <2>1. PICK a \in CAs, j \in Keys : InsertedImport(a, j) /\ stranded \subseteq stranded' \union {j}
    BY <1>15 DEF ImportedInserts
  <2>2. CASE j = k
    BY <2>1, <2>2 DEF InsertedImport, Added, Taken, CA
  <2>3. CASE j # k
    BY <1>13, <1>15, <2>1, <2>3 DEF ImportedInserts
  <2> QED
    BY <2>2, <2>3
<1>16. ASSUME Rebinds \/ KeysLeft PROVE Held(k)'
  BY <1>13, <1>16 DEF Rebinds, KeysLeft
<1> HIDE DEF Held
<1> QED
  BY <1>4, <1>5, <1>6, <1>7, <1>8, <1>9, <1>10, <1>11, <1>12, <1>14, <1>15, <1>16
     DEF Kind, ConsoleKind

(* A job that completed names the CA it made.                                *)
LEMMA NamedStep ==
  ASSUME AuthoritiesTypeOK, ImportTypeOK, RowsHaveKeys, MakersHoldKeys, RequestsNameCAs,
         ImportersHoldKeys, JobNamesItsCA, Kind, JobStep
  PROVE  JobNamesItsCA'
<1>0. None \notin CAs /\ job.ca \in CAs \union {None}
  BY DEF ImportTypeOK
<1>1. ASSUME job'.ca = job.ca, job'.state = "completed" => job.state = "completed"
      PROVE  JobNamesItsCA'
  <2>1. ASSUME job.ca # None
        PROVE  cas'[job.ca].status # "absent" /\ keys'[cas'[job.ca].key].imported
    <3>1. job.ca \in CAs /\ cas[job.ca].status # "absent" /\ keys[cas[job.ca].key].imported
      BY <1>0, <2>1 DEF JobNamesItsCA
    <3>2. cas'[job.ca].status # "absent" /\ cas'[job.ca].key = cas[job.ca].key
      BY <3>1, RowsStay
    <3>3. cas[job.ca].key \in Keys /\ keys[cas[job.ca].key].state # "none"
      BY <3>1 DEF RowsHaveKeys
    <3>4. keys'[cas[job.ca].key].imported <=> keys[cas[job.ca].key].imported
      BY <3>3, KeysStay
    <3> QED
      BY <3>1, <3>2, <3>4
  <2> QED
    BY <1>1, <2>1 DEF JobNamesItsCA
<1>2. ASSUME NEW i \in Importers, importers[i].op \in {"finalize", "imported"},
             JobCompletes(importers[i].key)
      PROVE  JobNamesItsCA'
  <2>1. PICK a \in CAs : InsertedImport(a, importers[i].key) /\ job'.ca = a /\ UNCHANGED keys
    BY <1>2 DEF JobCompletes
  <2>2. keys[importers[i].key].imported
    BY <1>2 DEF ImportersHoldKeys, ImporterHoldsKey, Imported
  <2>3. cas'[a].status = "active" /\ cas'[a].key = importers[i].key
    BY <2>1 DEF InsertedImport, Added
  <2> QED
    BY <1>0, <2>1, <2>2, <2>3 DEF JobNamesItsCA
<1>3. ASSUME NEW k, JobImports(k) PROVE JobNamesItsCA'
  BY <1>1, <1>3 DEF JobImports
<1>4. ASSUME NEW state \in Idle, JobMoves(state) PROVE JobNamesItsCA'
  BY <1>1, <1>4 DEF JobMoves, Idle
<1>5. ASSUME UNCHANGED job PROVE JobNamesItsCA'
  BY <1>1, <1>5
<1>6. ASSUME NEW i \in Importers, JobKind(i) PROVE JobNamesItsCA'
  BY <1>2, <1>3, <1>4, <1>5, <1>6 DEF JobKind, ImportBegins, ImportGoes, ImportGiven
<1> QED
  BY <1>4, <1>5, <1>6 DEF JobStep, Idle

(* CAs, keys, requests and the endpoint keep their types.                     *)
LEMMA AuthoritiesTypeStep ==
  ASSUME AuthoritiesTypeOK, RowsHaveKeys, MakersHoldKeys, RequestsNameCAs, Kind, UNCHANGED menu
  PROVE  AuthoritiesTypeOK'
<1>0. /\ cas \in [CAs -> CARow] /\ keys \in [Keys -> KeyRow] /\ endpoint \in EndpointRow
      /\ requests \in [Requests -> RequestRow] /\ stranded \subseteq Keys /\ menu \in Operations
      /\ endpoint.enabled => endpoint.ca # None
  BY DEF AuthoritiesTypeOK, CARow, KeyRow, EndpointRow, RequestRow
<1>1. keys' \in [Keys -> KeyRow]
  BY <1>0, KeyEffect DEF Made, Destroyed, Unwrapped, Given, OnlyKey
<1>2. endpoint' \in EndpointRow /\ (endpoint'.enabled => endpoint'.ca # None)
  BY <1>0 DEF Kind, ConsoleKind, KeysLeft, MakingBegins, Signs, MakingFails, MakingEnds, RetiringBegins,
              RetiringEnds, KeyGoes, KeyStays, IsLost, Rebinds, ImportedInserts, ImportedKeyChanges
<1>3. requests' \in [Requests -> RequestRow]
  <2>1. requests' = requests \/ \E r \in Requests : OnlyRequest(r)
    BY SMTT(30) DEF Kind, ConsoleKind, KeysLeft, MakingBegins, Signs, MakingFails, MakingEnds, RetiringBegins,
           RetiringEnds, KeyGoes, KeyStays, IsLost, Rebinds, ImportedInserts, ImportedKeyChanges,
           Begun, Advanced, Ended
  <2> QED
    BY <1>0, <2>1 DEF OnlyRequest
<1>4. cas' \in [CAs -> CARow]
  <2>1. ASSUME NEW r \in Requests, MakingEnds(r) PROVE cas' \in [CAs -> CARow]
    BY <2>1 DEF MakingEnds, Inserted, Added
  <2>2. ASSUME NEW r \in Requests, RetiringEnds(r) PROVE cas' \in [CAs -> CARow]
    BY <1>0, <2>2 DEF RetiringEnds, RowSet, Restated
  <2>3. ASSUME ImportedInserts PROVE cas' \in [CAs -> CARow]
    BY <2>3 DEF ImportedInserts, InsertedImport, Added
  <2> QED
    BY <1>0, <2>1, <2>2, <2>3
       DEF Kind, ConsoleKind, KeysLeft, MakingBegins, Signs, MakingFails, RetiringBegins, KeyGoes, KeyStays,
           IsLost, Rebinds, ImportedKeyChanges
<1>5. stranded' \subseteq Keys
  <2>1. ASSUME NEW r \in Requests, MakingFails(r) PROVE stranded' \subseteq Keys
    <3>1. requests[r].key \in Keys
      BY <2>1, RequestKeys DEF MakingFails, HoldsKey
    <3> QED
      BY <1>0, <2>1, <3>1 DEF MakingFails, Cleaned
  <2>2. ASSUME NEW r \in Requests, IsLost(r) PROVE stranded' \subseteq Keys
    <3>1. requests[r].op = "mark" => cas[requests[r].ca].key \in Keys
      BY RequestKeys
    <3>2. {requests[r].key} \ {None} \subseteq Keys
      BY Types
    <3> QED
      BY <1>0, <2>2, <3>1, <3>2 DEF IsLost
  <2> QED
    BY <1>0, <2>1, <2>2
       DEF Kind, ConsoleKind, KeysLeft, MakingBegins, Signs, MakingEnds, Inserted, RetiringBegins, RetiringEnds,
           KeyGoes, KeyStays, Rebinds, ImportedInserts, ImportedKeyChanges
<1> QED
  BY <1>0, <1>1, <1>2, <1>3, <1>4, <1>5 DEF AuthoritiesTypeOK, CARow, KeyRow, EndpointRow, RequestRow

(* What a behaviour is about never changes.                                   *)
LEMMA MenuStays ==
  ASSUME [ImportNext]_importVars
  PROVE  UNCHANGED menu
<1>1. ASSUME NEW r \in Requests, Console(r) PROVE UNCHANGED menu
  BY <1>1 DEF Console, create, rotate, delete, status, CreateCertificate, InsertCA, SetCAStatus,
              deleteDestroy, DeleteCA, LoseTransaction
<1>2. ASSUME Binding PROVE UNCHANGED menu
  BY <1>2 DEF Binding, CreateSCEPEndpoint, CreateACMEEndpoint, CreateESTEndpoint,
              EnableBoundEndpoint, DeleteBoundEndpoint, Changed
<1>3. ASSUME NEW i \in Importers, Importing(i) PROVE UNCHANGED menu
  BY <1>3 DEF Importing, SyncCAImport, Observe, finalizeImport, failImport, SubmitWrappedKey,
              ImportWrappedKey, submitCommit, CancelCAImport, cancelDestroy, cancelCommit, LoseImport,
              authoritiesVars
<1> QED
  BY <1>1, <1>2, <1>3 DEF ImportNext, AuthoritiesNext, StartCAImport, ImportJob, ImportedKeyState,
                          importVars, authoritiesVars

----------------------------------------------------------------------------
(* The theorems.                                                             *)

(* Every step keeps the inductive invariant.                                  *)
LEMMA IndStep ==
  ASSUME IndInv, [ImportNext]_importVars
  PROVE  IndInv'
<1>1. Kind /\ JobStep /\ UNCHANGED menu /\ crossed \subseteq crossed'
  BY StepKinds, JobSteps, MenuStays, CrossedGrows DEF IndInv
<1>2. AuthoritiesTypeOK' /\ ImportTypeOK' /\ RowsHaveKeys' /\ PendingIsImported'
  BY <1>1, AuthoritiesTypeStep, ImportTypeStep, RowStep, PendingStep DEF IndInv
<1>3. MakersHoldKeys' /\ RequestsNameCAs' /\ DecidedUnbound' /\ RootsAreOne' /\ StatusIsRecorded'
  BY <1>1, MakerStep, NameStep, EraStep, RootStep, RecordStep DEF IndInv
<1>4. ImportersHoldKeys' /\ KeyServesCA' /\ KeysOwned' /\ OneCAPerKey'
  BY <1>1, ImporterStep, ServeStep, AccountStep, OneKeyStep DEF IndInv
<1>5. ImportedKeyFits' /\ JobNamesItsCA'
  BY <1>1, FitStep, NamedStep DEF IndInv
<1>6. OwnKeys' /\ AllJudged' /\ Crossings'
  BY <1>1, OwnStep, JudgeStep, CrossStep DEF IndInv
<1> QED
  BY <1>2, <1>3, <1>4, <1>5, <1>6 DEF IndInv

(* The invariant holds at first, with two CAs or with none.                   *)
LEMMA IndInit ==
  ASSUME ImportInit
  PROVE  IndInv
<1> DEFINE made == IF menu \intersect {"create", "import"} = {} THEN 2 ELSE 0
<1>0. /\ cas = [a \in CAs |->
            IF a > made THEN NoCA
            ELSE [status |-> "active", type |-> IF a = 1 THEN CATypeRoot ELSE CATypeIssuing,
                  parent |-> IF a = 1 THEN None ELSE 1, key |-> a, said |-> "created"]]
      /\ keys = [k \in Keys |-> IF k > made THEN NoKey
                                ELSE [state |-> "enabled", imported |-> FALSE, fits |-> TRUE]]
      /\ endpoint = [ca |-> None, kind |-> None, enabled |-> FALSE, era |-> 0]
      /\ requests = [r \in Requests |-> NoRequest]
      /\ stranded = {} /\ menu \in Operations
      /\ job = [state |-> "none", type |-> None, key |-> None, ca |-> None]
      /\ wrapping = "none"
      /\ importers = [i \in Importers |-> NoImporter] /\ crossed = {}
  BY DEF ImportInit, AuthoritiesInit
<1> DEFINE own == [state |-> "enabled", imported |-> FALSE, fits |-> TRUE]
           first(a) == [status |-> "active", type |-> IF a = 1 THEN CATypeRoot ELSE CATypeIssuing,
                        parent |-> IF a = 1 THEN None ELSE 1, key |-> a, said |-> "created"]
<1>1. made \in {0, 2}
  OBVIOUS
<1>2. ASSUME NEW a \in CAs \union Keys, ~(a > made)
      PROVE  a \in {1, 2} /\ a \in CAs /\ a \in Keys
  BY <1>1, <1>2
<1> HIDE DEF made
<1>3. ASSUME NEW a \in CAs, ~(a > made)
      PROVE  /\ cas[a].status = "active" /\ cas[a].key = a /\ a \in Keys /\ cas[a].said = "created"
             /\ cas[a].type = IF a = 1 THEN CATypeRoot ELSE CATypeIssuing
  BY <1>0, <1>2, <1>3
<1>4. ASSUME NEW a \in CAs, a > made PROVE cas[a] = NoCA
  BY <1>0, <1>4
<1>5. cas \in [CAs -> CARow]
  <2>1. ASSUME NEW a \in CAs, ~(a > made) PROVE first(a) \in CARow
    BY <1>2, <2>1 DEF CARow, Statuses
  <2>2. NoCA \in CARow
    BY DEF NoCA, CARow
  <2>3. cas = [a \in CAs |-> IF a > made THEN NoCA ELSE first(a)]
    BY <1>0
  <2> HIDE DEF first
  <2> QED
    BY <2>1, <2>2, <2>3
<1>6. ASSUME NEW k \in Keys, ~(k > made)
      PROVE  keys[k].state = "enabled" /\ ~keys[k].imported /\ keys[k].fits
  BY <1>0, <1>6
<1>7. ASSUME NEW k \in Keys, k > made PROVE keys[k].state = "none"
  BY <1>0, <1>7 DEF NoKey
<1>8. keys \in [Keys -> KeyRow]
  <2>1. own \in KeyRow /\ NoKey \in KeyRow
    BY Zenon DEF KeyRow, NoKey
  <2>2. keys = [k \in Keys |-> IF k > made THEN NoKey ELSE own]
    BY <1>0
  <2> HIDE DEF own
  <2> QED
    BY <2>1, <2>2
<1>9. ASSUME NEW r \in Requests
      PROVE  /\ requests[r].op = "none" /\ requests[r].key = None /\ requests[r].era = 0
             /\ requests[r].ca = None
  BY <1>0 DEF NoRequest
<1>10. AuthoritiesTypeOK
  <2>1. requests \in [Requests -> RequestRow]
    <3>1. NoRequest \in RequestRow
      BY DEF NoRequest, RequestRow
    <3> QED
      BY <1>0, <3>1
  <2>2. endpoint \in EndpointRow
    <3>1. 0 \in 0..MaxEra
      OBVIOUS
    <3> QED
      BY <1>0, <3>1, Zenon DEF EndpointRow
  <2>3. ~endpoint.enabled
    BY <1>0
  <2> QED
    BY <1>0, <1>5, <1>8, <2>1, <2>2, <2>3 DEF AuthoritiesTypeOK, CARow, KeyRow, EndpointRow, RequestRow
<1>11. ASSUME NEW i \in Importers
       PROVE  importers[i].op = "none" /\ importers[i].was = "none" /\ importers[i].key = None
  BY <1>0 DEF NoImporter
<1>12. ImportTypeOK
  <2>1. NoImporter \in ImporterRow /\ job \in JobRow
    BY <1>0 DEF NoImporter, ImporterRow, JobRow
  <2>2. importers \in [Importers -> ImporterRow]
    BY <1>0, <2>1
  <2> QED
    BY <1>0, <2>1, <2>2 DEF ImportTypeOK, ImporterRow, JobRow
<1>13. RowsHaveKeys
  <2>1. ASSUME NEW a \in CAs, ~(a > made)
        PROVE  cas[a].status # "absent" /\ cas[a].key \in Keys /\ keys[cas[a].key].state # "none"
    BY <1>2, <1>3, <1>6, <2>1
  <2> QED
    BY <1>4, <2>1 DEF RowsHaveKeys, NoCA
<1>14. PendingIsImported /\ MakersHoldKeys /\ RequestsNameCAs
  BY <1>6, <1>7, <1>9 DEF PendingIsImported, MakersHoldKeys, Making, RequestsNameCAs, NamesCA
<1>15. DecidedUnbound
  <2>1. endpoint.ca = None /\ endpoint.era = 0
    BY <1>0
  <2> QED
    BY <1>9, <2>1 DEF DecidedUnbound, Unbound, Retires, Making
<1>16. RootsAreOne
  <2>1. ASSUME NEW a \in RootCA PROVE a = 1
    <3>1. ~(a > made)
      BY <1>4 DEF RootCA, CA, NoCA
    <3> QED
      BY <1>3, <3>1 DEF RootCA, CATypeRoot, CATypeIssuing
  <2> QED
    BY <2>1 DEF RootsAreOne
<1>17. StatusIsRecorded
  <2>1. ASSUME NEW a \in CAs, ~(a > made) PROVE cas[a].status = "active" /\ cas[a].said = "created"
    BY <1>3, <2>1
  <2>2. ASSUME NEW a \in CAs, a > made PROVE cas[a].status = "absent" /\ cas[a].said = "nothing"
    BY <1>4, <2>2 DEF NoCA
  <2> QED
    BY <2>1, <2>2 DEF StatusIsRecorded
<1>18. /\ ImportersHoldKeys /\ JobNamesItsCA /\ OwnKeys /\ AllJudged
       /\ \A i \in Importers : importers[i].op # "cancel"
  BY <1>0, <1>11 DEF ImportersHoldKeys, ImporterHoldsKey, JobNamesItsCA, OwnKeys, OwnKey, AllJudged,
                     Judged
<1>19. KeyServesCA /\ ImportedKeyFits
  <2>1. ASSUME NEW a \in CAs, CA(a) PROVE KeyInfo(cas[a].key) /\ keys[cas[a].key].fits
    <3>1. ~(a > made)
      BY <1>4, <2>1 DEF CA, NoCA
    <3> QED
      BY <1>2, <1>3, <1>6, <3>1 DEF KeyInfo
  <2> QED
    BY <2>1 DEF KeyServesCA, ImportedKeyFits
<1>20. KeysOwned
  <2>1. ASSUME NEW k \in Keys, keys[k].state \in {"pending", "enabled"}
        PROVE  k \in CAs /\ CA(k) /\ cas[k].key = k
    <3>1. ~(k > made)
      BY <1>7, <2>1
    <3> QED
      BY <1>2, <1>3, <3>1 DEF CA
  <2> QED
    BY <2>1 DEF KeysOwned, Taken
<1>21. OneCAPerKey
  BY <1>3, <1>4 DEF OneCAPerKey, NoCA
<1>22. Crossings
  <2>1. ASSUME NEW a \in CAs, CA(a) PROVE cas[a].key # None
    <3>1. ~(a > made)
      BY <1>4, <2>1 DEF CA, NoCA
    <3> QED
      BY <1>3, <3>1
  <2> QED
    BY <1>0, <1>18, <2>1 DEF Crossings, Taken
<1> QED
  BY <1>10, <1>12, <1>13, <1>14, <1>15, <1>16, <1>17, <1>18, <1>19, <1>20, <1>21, <1>22 DEF IndInv

(* A set whose members are all equal has at most one.                         *)
LEMMA AtMostOne ==
  ASSUME NEW S, \A a, b \in S : a = b
  PROVE  Cardinality(S) <= 1
<1>1. CASE S = {}
  BY <1>1, FS_EmptySet
<1>2. CASE S # {}
  <2>1. PICK c \in S : TRUE
    BY <1>2
  <2>2. S = {c}
    OBVIOUS
  <2>3. Cardinality({c}) = 1
    BY FS_Singleton
  <2> QED
    BY <2>2, <2>3
<1> QED
  BY <1>1, <1>2

(* A request that takes the CA of an enabled endpoint out of service began   *)
(* before the endpoint was bound.                                            *)
LEMMA BoundStep ==
  ASSUME DecidedUnbound, RequestsNameCAs, AuthoritiesTypeOK, Kind
  PROVE  BoundIsKept
<1> SUFFICES ASSUME NEW a \in CAs, NEW r \in Requests,
                    requests[r].op # "none", requests'[r].op = "none",
                    requests[r].era = endpoint.era, endpoint.enabled, endpoint.ca = a,
                    cas[a].status = "active", requests[r].ca = a
             PROVE  cas'[a].status = "active"
  BY DEF BoundIsKept
<1>1. ~Retires(r)
  <2>1. ~checkEndpointBindings(a)
    BY Types DEF DecidedUnbound, checkEndpointBindings, EnabledSCEPEndpointCount,
                 EnabledACMEEndpointCount, EnabledESTEndpointCount
  <2> QED
    BY <2>1 DEF DecidedUnbound, Unbound
<1>2. ASSUME NEW q \in Requests, OnlyRequest(q) PROVE q = r
  BY <1>2 DEF OnlyRequest
<1>3. ASSUME NEW q \in Requests, MakingEnds(q) PROVE cas'[a].status = "active"
  <2>1. PICK b \in CAs : Inserted(q, b)
    BY <1>3 DEF MakingEnds
  <2>2. q = r /\ b # a /\ ~Rotating(r)
    BY <1>1, <1>2, <1>3, <2>1 DEF MakingEnds, Ended, Inserted, Added, Retires, Making
  <2> QED
    BY <2>1, <2>2 DEF Inserted
<1>4. ASSUME NEW q \in Requests, RetiringEnds(q) PROVE cas'[a].status = "active"
  <2>1. q = r /\ requests[r].op = "status" /\ requests[r].status = "active"
    BY <1>1, <1>2, <1>4 DEF RetiringEnds, Ended, Retires
  <2> QED
    BY <1>4, <2>1 DEF RetiringEnds, RowSet, Restated
<1>5. ASSUME UNCHANGED requests PROVE FALSE
  BY <1>5
<1>6. ASSUME NEW q \in Requests,
             \/ MakingBegins(q) \/ Signs(q) \/ MakingFails(q) \/ RetiringBegins(q) \/ KeyGoes(q)
             \/ KeyStays(q) \/ IsLost(q)
      PROVE  UNCHANGED cas
  BY <1>6 DEF MakingBegins, Signs, MakingFails, RetiringBegins, KeyGoes, KeyStays, IsLost
<1>7. ASSUME Rebinds \/ ImportedInserts \/ ImportedKeyChanges \/ KeysLeft PROVE UNCHANGED requests
  BY <1>7 DEF Rebinds, ImportedInserts, ImportedKeyChanges, KeysLeft
<1> QED
  BY <1>3, <1>4, <1>5, <1>6, <1>7 DEF Kind, ConsoleKind, KeysLeft

(* Whatever fails, no CA is left without its key or with another's, and no   *)
(* key without a CA, but for what is on the list of those left behind.       *)
THEOREM KeysFollow == ImportSpec => []KeysFollowCAs
<1>1. KeysOwned => KeysAccounted
  BY DEF KeysOwned, KeysAccounted, JobHas
<1>2. IndInv => KeysFollowCAs
  BY <1>1 DEF IndInv, KeysFollowCAs
<1> QED
  BY <1>2, IndInit, IndStep, PTL DEF ImportSpec

(* However polls, submissions and cancellations overlap, the CA they leave   *)
(* and the job belong together, and the key fits.                            *)
THEOREM ImportsAreWhole == ImportSpec => []ImportIsWhole
<1>1. IndInv => ImportIsWhole
  BY DEF IndInv, ImportIsWhole
<1> QED
  BY <1>1, IndInit, IndStep, PTL DEF ImportSpec

(* What a request decided about a CA is still so when it commits.            *)
THEOREM DecisionsStand == ImportSpec => DecisionsHold
<1>1. ASSUME IndInv, IndInv', [ImportNext]_importVars
      PROVE  BoundIsKept /\ OneLiveRoot' /\ StatusIsRecorded'
  <2>1. Kind
    BY <1>1, StepKinds DEF IndInv
  <2>2. BoundIsKept
    BY <1>1, <2>1, BoundStep DEF IndInv
  <2>3. \A a, b \in RootCA' : a = b
    BY <1>1 DEF IndInv, RootsAreOne
  <2>4. OneLiveRoot'
    BY <2>3, AtMostOne DEF OneLiveRoot
  <2> QED
    BY <1>1, <2>2, <2>4 DEF IndInv
<1> QED
  BY <1>1, IndInit, IndStep, PTL DEF ImportSpec, DecisionsHold

=============================================================================

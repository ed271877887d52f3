----------------------------- MODULE AcmeService -----------------------------
(* What AcmeOrder and AcmeAccount leave out of ACME: the endpoints themselves,*)
(* the external account credentials minted for them, the resources an account *)
(* may read, and revocation by an account or by a certificate's key.  Requests*)
(* authenticate in one step and act in a later one, while the console pauses  *)
(* and deletes endpoints and revokes credentials.  One issuing CA serves every*)
(* endpoint.                                                                  *)
EXTENDS Naturals, FiniteSets

CONSTANTS
    Posts,          \* ACME and console requests
    AcmeEndpoints,  \* acme_endpoint rows, numbered as they are created
    AcmeNames,
    Kids,           \* acme_eab_credential rows, numbered as they are minted
    Accounts,       \* acme_account rows
    Leaves,         \* certificates, each with the order that issued it
    LeafKeys,       \* keys of certificates and of embedded jwk signers
    Affairs,      \* what a behaviour may be about
    Unset           \* no account, key or name

ASSUME ServiceAssumption ==
    /\ AcmeEndpoints \subseteq Nat \ {0} /\ Kids \subseteq Nat \ {0} /\ Leaves \subseteq Nat \ {0}
    /\ Unset \notin Accounts \union LeafKeys \union AcmeNames
    /\ 1 \in AcmeEndpoints /\ 1 \in Kids

VARIABLES
    about,
    acme,           \* acme_endpoint
    kids,           \* acme_eab_credential
    accounts,       \* acme_account
    leaves,         \* certificate with its acme_order (carried: the key of the
                    \* certificate that the revoking request carried)
    posts           \* requests between two of their steps

serviceVars == <<about, acme, kids, accounts, leaves, posts>>

Resources == {"order", "authorization", "challenge", "certificate"}
Reasons == {"unspecified", "keyCompromise"}
NoPost == [at |-> "idle", ep |-> 0, name |-> Unset, account |-> Unset, key |-> Unset, carried |-> Unset,
           leaf |-> 0, reason |-> "unspecified"]

(* Types of endpoints, credentials, accounts, certificates and requests.   *)
ServiceTypeOK ==
    /\ about \in Affairs
    /\ acme \in [AcmeEndpoints -> [row : {"none", "live", "deleted"}, name : AcmeNames \union {Unset},
                                   enabled : BOOLEAN]]
    /\ \A e \in AcmeEndpoints : acme[e].enabled => acme[e].row = "live"
    /\ kids \in [Kids -> [state : {"none", "live", "revoked", "deleted"}, ep : AcmeEndpoints \union {0}]]
    /\ accounts \in [Accounts -> [state : {"none", "valid", "deactivated", "deleted"},
                                  ep : AcmeEndpoints \union {0}, kid : Kids \union {0}]]
    /\ leaves \in [Leaves -> [state : {"none", "issued", "revoked"}, owner : Accounts \union {Unset},
                              order : BOOLEAN, key : LeafKeys \union {Unset},
                              reason : Reasons \union {"none"}, by : {"nobody", "account", "key", "console"},
                              revoker : Accounts \union LeafKeys \union {Unset},
                              carried : LeafKeys \union {Unset}]]
    /\ posts \in [Posts ->
         [at : {"idle", "create", "rename", "remove", "mint", "withdraw", "register", "revoke", "flip"}
               \union Resources \union {"answered"},
          ep : AcmeEndpoints \union {0}, name : AcmeNames \union {Unset}, account : Accounts \union {Unset},
          key : LeafKeys \union {Unset}, carried : LeafKeys \union {Unset},
          leaf : Leaves \union Kids \union {0}, reason : Reasons]]

NoLeaf == [state |-> "none", owner |-> Unset, order |-> FALSE, key |-> Unset, reason |-> "none",
           by |-> "nobody", revoker |-> Unset, carried |-> Unset]

(* Names start with no endpoint, revocations with every account registered on *)
(* the first.                                                                 *)
ServiceInit ==
    /\ about \in Affairs
    /\ acme = [e \in AcmeEndpoints |->
         IF about = "names" THEN [row |-> "none", name |-> Unset, enabled |-> FALSE]
         ELSE [row |-> "live", name |-> Unset, enabled |-> TRUE]]
    /\ kids = [k \in Kids |-> IF about = "revocation" /\ k = 1 THEN [state |-> "live", ep |-> 1]
                              ELSE [state |-> "none", ep |-> 0]]
    /\ accounts = [u \in Accounts |-> IF about = "revocation" THEN [state |-> "valid", ep |-> 1, kid |-> 1]
                                      ELSE [state |-> "none", ep |-> 0, kid |-> 0]]
    /\ leaves = [l \in Leaves |-> NoLeaf]
    /\ posts = [p \in Posts |-> NoPost]

Lowest(S) == CHOOSE x \in S : \A y \in S : x <= y
Live(e) == acme[e].row = "live"
Ask(p, post) == posts' = [posts EXCEPT ![p] = post]
Unasked(p) == posts[p].at = "idle"
Finish(p) == Ask(p, NoPost)

----------------------------------------------------------------------------
(* The console.                                                              *)

Called(n) == \E e \in AcmeEndpoints : Live(e) /\ acme[e].name = n
Unminted == {e \in AcmeEndpoints : acme[e].row = "none" /\ \A p \in Posts : posts[p].ep # e}

(* The name is compared with the endpoints the request can see.               *)
createAcme(p, n) ==
    /\ about = "names" /\ Unasked(p) /\ ~Called(n) /\ Unminted # {}
    /\ Ask(p, [NoPost EXCEPT !.at = "create", !.ep = Lowest(Unminted), !.name = n])
    /\ UNCHANGED <<about, acme, kids, accounts, leaves>>

NameIndex(e, n) == \A f \in AcmeEndpoints \ {e} : Live(f) => acme[f].name # n

InsertAcme(p) ==
    /\ posts[p].at = "create" /\ Finish(p)
    /\ acme' = IF NameIndex(posts[p].ep, posts[p].name)
               THEN [acme EXCEPT ![posts[p].ep] = [row |-> "live", name |-> posts[p].name, enabled |-> FALSE]]
               ELSE acme
    /\ UNCHANGED <<about, kids, accounts, leaves>>

(* The forms of an endpoint find it first.                                    *)
acmeFromPath(p, e) == Unasked(p) /\ Live(e)

updateAcme(p, e, n) ==
    /\ about = "names" /\ acmeFromPath(p, e)
    /\ Ask(p, [NoPost EXCEPT !.at = "rename", !.ep = e, !.name = n])
    /\ UNCHANGED <<about, acme, kids, accounts, leaves>>

UpdateAcme(p) ==
    /\ posts[p].at = "rename" /\ Finish(p)
    /\ LET e == posts[p].ep
       IN acme' = IF Live(e) /\ NameIndex(e, posts[p].name) THEN [acme EXCEPT ![e].name = posts[p].name] ELSE acme
    /\ UNCHANGED <<about, kids, accounts, leaves>>

setAcmeEnabled(e, on) ==
    /\ Live(e) /\ acme[e].enabled # on /\ acme' = [acme EXCEPT ![e].enabled = on]
    /\ UNCHANGED <<about, kids, accounts, leaves, posts>>

removeAcme(p, e) ==
    /\ acmeFromPath(p, e) /\ Ask(p, [NoPost EXCEPT !.at = "remove", !.ep = e])
    /\ UNCHANGED <<about, acme, kids, accounts, leaves>>

(* Credentials, accounts and orders go by cascade, certificates stay.         *)
DeleteAcme(p) ==
    /\ posts[p].at = "remove" /\ Finish(p)
    /\ LET e == posts[p].ep
           gone == {u \in Accounts : accounts[u].ep = e}
       IN /\ acme' = [acme EXCEPT ![e] = [row |-> "deleted", name |-> Unset, enabled |-> FALSE]]
          /\ kids' = [k \in Kids |-> IF kids[k].ep = e THEN [kids[k] EXCEPT !.state = "deleted"] ELSE kids[k]]
          /\ accounts' = [u \in Accounts |-> IF u \in gone THEN [accounts[u] EXCEPT !.state = "deleted"]
                                             ELSE accounts[u]]
          /\ leaves' = [l \in Leaves |-> IF leaves[l].owner \in gone THEN [leaves[l] EXCEPT !.order = FALSE]
                                         ELSE leaves[l]]
    /\ UNCHANGED about

mintCredential(p, e) ==
    /\ about = "binding" /\ acmeFromPath(p, e) /\ Ask(p, [NoPost EXCEPT !.at = "mint", !.ep = e])
    /\ UNCHANGED <<about, acme, kids, accounts, leaves>>

(* Foreign keys: a row is not written for an endpoint that is gone.           *)
Referenced(e) == Live(e)

CreateCredential(p) ==
    LET free == {k \in Kids : kids[k].state = "none"} IN
    /\ posts[p].at = "mint" /\ free # {} /\ Finish(p)
    /\ kids' = IF Referenced(posts[p].ep) THEN [kids EXCEPT ![Lowest(free)] = [state |-> "live", ep |-> posts[p].ep]]
               ELSE kids
    /\ UNCHANGED <<about, acme, accounts, leaves>>

revokeCredential(p, k) ==
    /\ about # "names" /\ kids[k].state # "none" /\ acmeFromPath(p, kids[k].ep)
    /\ Ask(p, [NoPost EXCEPT !.at = "withdraw", !.ep = kids[k].ep, !.leaf = k])
    /\ UNCHANGED <<about, acme, kids, accounts, leaves>>

RevokeCredential(p) ==
    /\ posts[p].at = "withdraw" /\ Finish(p)
    /\ LET k == posts[p].leaf IN
       IF kids[k].state # "live" THEN UNCHANGED <<kids, accounts>>
       ELSE /\ kids' = [kids EXCEPT ![k].state = "revoked"]
            /\ accounts' = [u \in Accounts |->
                 IF accounts[u].kid = k /\ accounts[u].state = "valid"
                 THEN [accounts[u] EXCEPT !.state = "deactivated"] ELSE accounts[u]]
    /\ UNCHANGED <<about, acme, leaves>>

----------------------------------------------------------------------------
(* A client's request: one of kid and jwk names the signer.                  *)

public(p, e) == Unasked(p) /\ Live(e) /\ acme[e].enabled

AccountOf(e, u) == accounts[u].ep = e /\ accounts[u].state = "valid"

CredentialByKID(e, k) == kids[k].state # "none" /\ kids[k].ep = e

newAccount(p, e, u, k) ==
    /\ about = "binding" /\ public(p, e) /\ accounts[u].state = "none"
    /\ CredentialByKID(e, k) /\ kids[k].state = "live"
    /\ Ask(p, [NoPost EXCEPT !.at = "register", !.ep = e, !.account = u, !.leaf = k])
    /\ UNCHANGED <<about, acme, kids, accounts, leaves>>

(* The credential is stamped if it is still live, in the transaction that     *)
(* writes the account.                                                        *)
bindExternalAccount(p) ==
    /\ posts[p].at = "register" /\ Finish(p)
    /\ LET u == posts[p].account
           k == posts[p].leaf
       IN accounts' = IF kids[k].state = "live" /\ accounts[u].state = "none" /\ Referenced(posts[p].ep)
                      THEN [accounts EXCEPT ![u] = [state |-> "valid", ep |-> posts[p].ep, kid |-> k]]
                      ELSE accounts
    /\ UNCHANGED <<about, acme, kids, leaves>>

(* What AcmeOrder models: an account's order ends in a certificate.           *)
CompleteOrder(u, key) ==
    LET fresh == {l \in Leaves : leaves[l].state = "none"} IN
    /\ about = "revocation" /\ accounts[u].state = "valid" /\ fresh # {}
    /\ leaves' = [leaves EXCEPT ![Lowest(fresh)] = [NoLeaf EXCEPT !.state = "issued", !.owner = u,
                                                    !.order = TRUE, !.key = key]]
    /\ UNCHANGED <<about, acme, kids, accounts, posts>>

(* Reading is for accounts: the request must be signed under a kid.           *)
Authenticate(p, e, u, l, what) ==
    /\ about = "revocation" /\ public(p, e) /\ AccountOf(e, u) /\ leaves[l].state # "none"
    /\ Ask(p, [NoPost EXCEPT !.at = what, !.ep = e, !.account = u, !.leaf = l])
    /\ UNCHANGED <<about, acme, kids, accounts, leaves>>

Order(p) == leaves[posts[p].leaf].order /\ leaves[posts[p].leaf].owner = posts[p].account

(* A revoked certificate can still be downloaded.                             *)
Certificate(p) == Order(p) /\ leaves[posts[p].leaf].state \in {"issued", "revoked"}

dispatch(p, what, found) ==
    /\ posts[p].at = what
    /\ posts' = [posts EXCEPT ![p] = IF found THEN [@ EXCEPT !.at = "answered"] ELSE NoPost]
    /\ UNCHANGED <<about, acme, kids, accounts, leaves>>
order(p) == dispatch(p, "order", Order(p))
certificate(p) == dispatch(p, "certificate", Certificate(p))
authorization(p) == dispatch(p, "authorization", Order(p))
challenge(p) == dispatch(p, "challenge", Order(p))
EndPost(p) ==
    /\ posts[p].at # "idle" /\ Finish(p) /\ UNCHANGED <<about, acme, kids, accounts, leaves>>

----------------------------------------------------------------------------
(* Revocation.                                                               *)

(* Signed under a kid or by an embedded key.  The certificate is looked up by *)
(* the serial number of the one the request carries, and by nothing else.     *)
revokeCert(p, e, l, reason) ==
    /\ about = "revocation" /\ public(p, e) /\ leaves[l].state # "none"
    /\ \/ \E u \in Accounts :
            /\ AccountOf(e, u)
            /\ Ask(p, [NoPost EXCEPT !.at = "revoke", !.ep = e, !.account = u, !.leaf = l, !.reason = reason])
       \/ \E k, carried \in LeafKeys :
            Ask(p, [NoPost EXCEPT !.at = "revoke", !.ep = e, !.key = k, !.carried = carried, !.leaf = l,
                                  !.reason = reason])
    /\ UNCHANGED <<about, acme, kids, accounts, leaves>>

CertificateOrderedBy(u, l) == leaves[l].order /\ leaves[l].owner = u

(* The signer's key is compared with the carried certificate's.               *)
authorizeRevocation(p) ==
    LET l == posts[p].leaf IN
    IF posts[p].account # Unset THEN CertificateOrderedBy(posts[p].account, l)
    ELSE posts[p].key = posts[p].carried

Revoke(p) ==
    /\ posts[p].at = "revoke"
    /\ posts' = [posts EXCEPT ![p] =
         IF authorizeRevocation(p) /\ leaves[posts[p].leaf].state = "issued" THEN [@ EXCEPT !.at = "flip"]
         ELSE NoPost]
    /\ UNCHANGED <<about, acme, kids, accounts, leaves>>

(* Fault: the status that was read is trusted.                                *)
FaultStillIssued(l) == TRUE
StillIssued(l) == leaves[l].state = "issued"

(* One statement; a second revocation waits for the first and finds no row.   *)
RevokeCertificate(p) ==
    /\ posts[p].at = "flip" /\ Finish(p)
    /\ LET l == posts[p].leaf IN
       leaves' = IF ~StillIssued(l) THEN leaves
                 ELSE [leaves EXCEPT ![l] =
                   [@ EXCEPT !.state = "revoked", !.reason = posts[p].reason, !.carried = posts[p].carried,
                             !.by = IF posts[p].account # Unset THEN "account" ELSE "key",
                             !.revoker = IF posts[p].account # Unset THEN posts[p].account ELSE posts[p].key]]
    /\ UNCHANGED <<about, acme, kids, accounts>>

(* An administrator revokes it.                                               *)
consoleRevoke(l) ==
    /\ leaves[l].state = "issued"
    /\ leaves' = [leaves EXCEPT ![l] = [@ EXCEPT !.state = "revoked", !.reason = "unspecified", !.by = "console"]]
    /\ UNCHANGED <<about, acme, kids, accounts, posts>>

ServiceNext ==
    \/ \E p \in Posts :
         \/ InsertAcme(p) \/ UpdateAcme(p) \/ DeleteAcme(p) \/ CreateCredential(p) \/ RevokeCredential(p)
         \/ bindExternalAccount(p) \/ order(p) \/ certificate(p) \/ authorization(p) \/ challenge(p)
         \/ Revoke(p) \/ RevokeCertificate(p) \/ EndPost(p)
         \/ \E n \in AcmeNames : createAcme(p, n) \/ \E e \in AcmeEndpoints : updateAcme(p, e, n)
         \/ \E k \in Kids : revokeCredential(p, k)
         \/ \E e \in AcmeEndpoints :
              \/ removeAcme(p, e) \/ mintCredential(p, e)
              \/ \E u \in Accounts : \/ \E k \in Kids : newAccount(p, e, u, k)
                                     \/ \E l \in Leaves, what \in Resources : Authenticate(p, e, u, l, what)
              \/ \E l \in Leaves, reason \in Reasons : revokeCert(p, e, l, reason)
    \/ \E e \in AcmeEndpoints, on \in BOOLEAN : setAcmeEnabled(e, on)
    \/ \E u \in Accounts, key \in LeafKeys : CompleteOrder(u, key)
    \/ \E l \in Leaves : consoleRevoke(l)

ServiceSpec == ServiceInit /\ [][ServiceNext]_serviceVars

----------------------------------------------------------------------------
(* Properties.                                                               *)

(* However creations and renames overlap, no two endpoints share a name       *)
(* (InsertEndpoint and UpdatePolicy, repo.go).                                *)
AcmeNamesDiffer ==
    \A e, f \in AcmeEndpoints : Live(e) /\ Live(f) /\ e # f /\ acme[e].name # Unset => acme[e].name # acme[f].name

(* An account is bound by a credential minted for its own endpoint            *)
(* (CredentialByKID, repo.go).                                                *)
BoundWhereMinted ==
    \A u \in Accounts : accounts[u].state # "none" => kids[accounts[u].kid].ep = accounts[u].ep

(* Nothing outlives its endpoint, though it was under way when the endpoint   *)
(* was deleted.                                                               *)
NothingOutlives ==
    /\ \A k \in Kids : kids[k].state \in {"live", "revoked"} => Live(kids[k].ep)
    /\ \A u \in Accounts : accounts[u].state \in {"valid", "deactivated"} => Live(accounts[u].ep)
    /\ \A l \in Leaves : leaves[l].order => Live(accounts[leaves[l].owner].ep)

(* Whatever resource is asked for, an account is told of its own orders only. *)
ToldOnlyOwn ==
    \A p \in Posts : posts[p].at = "answered" => leaves[posts[p].leaf].owner = posts[p].account

(* An account revokes what it ordered.  A key revokes the certificate that    *)
(* holds it when that is what the request carried; what it carries is not     *)
(* compared with what was issued, although service.go:1118-1124 has the       *)
(* signer prove the certificate's own key (authorizeRevocation).              *)
RevokedByOwner ==
    \A l \in Leaves :
        /\ leaves[l].by = "account" => leaves[l].revoker = leaves[l].owner
        /\ leaves[l].by = "key" /\ leaves[l].carried = leaves[l].key => leaves[l].revoker = leaves[l].key

(* The first revocation stands, with its reason, whoever else was revoking.   *)
RevocationStands ==
    \A l \in Leaves : leaves[l].state = "revoked"
      => leaves'[l].state = "revoked" /\ leaves'[l].reason = leaves[l].reason
         /\ leaves'[l].by = leaves[l].by

(* What an account may see, change and leave behind ends with its own orders  *)
(* and its own endpoint, although requests authenticate before they act; a    *)
(* request signed by a key is tied to the certificate it carries              *)
(* (service.go, repo.go).                                                     *)
OwnersAndEndpointsHold ==
    [][/\ RevocationStands
       /\ RevokedByOwner'
       /\ ToldOnlyOwn'
       /\ NothingOutlives'
       /\ BoundWhereMinted'
       /\ AcmeNamesDiffer'
       /\ ServiceTypeOK']_serviceVars
=============================================================================

----------------------------- MODULE AcmeRequest -----------------------------
(* The signed envelope of ACME requests: what is parsed, in which order it is *)
(* checked, and which account and key it acts for.  Requests are written by   *)
(* clients; the network may deliver one twice, late, changed, or to another   *)
(* address than it was signed for.  A request is authenticated in one step    *)
(* and writes and commits in a later one, or not at all.                      *)
EXTENDS Naturals

CONSTANTS
    Places,         \* endpoints
    Numbers,        \* accounts, in the order they are made
    NonceValues     \* in the order they are handed out

KeyPairs == {"RSA", "EC", "short RSA"}
(* Of one key as JSON: with its members in another order, or with another     *)
(* base64url text that decodes to the same number.                            *)
Spellings == {"canonical", "reordered", "respelt"}
SignatureAlgorithms == {"RS256", "PS256", "ES256"}
(* What may be wrong with a request, or with its delivery.                    *)
Flaws == {"none", "altered", "unprotected header", "crit", "HS256", "ES256", "PS256", "both keys",
          "unbound", "bound elsewhere", "other secret", "other key bound",
          "other account named", "other old key named", "new key not proved"}

ASSUME RequestAssumption == Numbers \subseteq Nat \ {0} /\ NonceValues \subseteq Nat /\ 0 \notin Places

VARIABLES
    handed,         \* nonces handed out, each by one endpoint
    unspent,        \* acme_nonce
    sent,           \* requests clients have written
    registered,     \* acme_account
    open,           \* requests authenticated whose transactions are open
    acts            \* what was done on which request

requestVars == <<handed, unspent, sent, registered, open, acts>>

NotMade == [at |-> 0, key |-> "none", thumbprint |-> <<"none", "none">>, valid |-> FALSE]

RequestInit ==
    /\ handed = {} /\ unspent = {} /\ sent = {} /\ open = {} /\ acts = {}
    /\ registered = [n \in Numbers |-> NotMade]

----------------------------------------------------------------------------
(* Clients.                                                                  *)

NewNonce(e) ==
    \E v \in NonceValues :
        /\ \A u \in NonceValues : u < v <=> \E p \in Places : <<p, u>> \in handed
        /\ handed' = handed \union {<<e, v>>} /\ unspent' = unspent \union {<<e, v>>}
        /\ UNCHANGED <<sent, registered, open, acts>>

(* The url is an endpoint, what is asked of it and, for an account, which; the *)
(* key identification is an embedded key or an account of that endpoint.      *)
Registration(e, v, k, spelling) ==
    [op |-> "new-account", at |-> e, nonce |-> v, by |-> k, spelling |-> spelling, kid |-> 0, path |-> 0,
     new |-> "none"]
Update(e, v, k, n, path) ==
    [op |-> "account", at |-> e, nonce |-> v, by |-> k, spelling |-> "none", kid |-> n, path |-> path,
     new |-> "none"]
Change(e, v, k, n, new, spelling) ==
    [op |-> "key-change", at |-> e, nonce |-> v, by |-> k, spelling |-> spelling, kid |-> n, path |-> 0,
     new |-> new]

(* The accounts an endpoint has told its clients of.                          *)
Told(e) == {n \in Numbers : registered[n].at = e}
Registrations(e, v) == {Registration(e, v, k, s) : k \in {"RSA", "EC"}, s \in Spellings}
Updates(e, v) == {Update(e, v, k, n, path) : k \in {"RSA", "EC"}, n \in Told(e), path \in Told(e)}
Changes(e, v) == {Change(e, v, k, n, new, s) :
                    k \in {"RSA", "EC"}, n \in Told(e), new \in KeyPairs, s \in {"canonical", "respelt"}}
Writable(e, v) == Registrations(e, v) \union {Registration(e, v, "short RSA", "canonical")}
                  \union Updates(e, v) \union Changes(e, v)

(* A client writes one request with a nonce it was given.                     *)
Write(e, v) ==
    /\ \E p \in Places : <<p, v>> \in handed
    /\ \A r \in sent : r.nonce < v
    /\ \E m \in Writable(e, v) : sent' = sent \union {m}
    /\ UNCHANGED <<handed, unspent, registered, open, acts>>

----------------------------------------------------------------------------
(* Authentication.                                                           *)

parseJWS(f) == f \notin {"unprotected header", "crit"}

Alg(m, f) ==
    IF f \in {"HS256", "ES256", "PS256"} THEN f ELSE IF m.by = "EC" THEN "ES256" ELSE "RS256"

checkOuter(m, f, e, op) ==
    /\ Alg(m, f) \in SignatureAlgorithms /\ f # "both keys"
    /\ m.at = e /\ m.op = op

(* The row of a nonce is deleted by one transaction; others wait for it.      *)
consumeNonce(m, e) ==
    /\ <<e, m.nonce>> \in unspent
    /\ \A o \in open : o.at = e => o.request.nonce # m.nonce

parseJWK(k) == k # "short RSA"
hashFor(alg) == alg \in {"RS256", "ES256", "PS256"}

(* An RSA key takes any algorithm in the list, an EC key its own.             *)
verify(m, f, k) ==
    /\ f # "altered" /\ hashFor(Alg(m, f)) /\ k # "short RSA"
    /\ k = "EC" => Alg(m, f) = "ES256"
    /\ m.by = k

(* The members are hashed as they are spelt, in an order of its own.          *)
jwkThumbprint(k, spelling) == <<k, IF spelling = "respelt" THEN "respelt" ELSE "canonical">>

(* With an embedded key, or with that of an account of the endpoint.          *)
AuthenticateByKey(m, f, e, op) ==
    /\ parseJWS(f) /\ checkOuter(m, f, e, op) /\ consumeNonce(m, e)
    /\ m.kid = 0 /\ parseJWK(m.by) /\ verify(m, f, m.by)
accountFromKID(m, e) == m.kid \in Numbers /\ m.at = e
AuthenticateByAccount(m, f, e, op) ==
    /\ parseJWS(f) /\ checkOuter(m, f, e, op) /\ consumeNonce(m, e)
    /\ accountFromKID(m, e)
    /\ LET account == registered[m.kid]
       IN account.at = e /\ account.valid /\ parseJWK(account.key) /\ verify(m, f, account.key)

(* Fault: the nonce stays.                                                    *)
FaultConsumeNonceRow(m, e) == UNCHANGED unspent
ConsumeNonceRow(m, e) == unspent' = unspent \ {<<e, m.nonce>>}

(* A request that is refused leaves nothing behind, its nonce spent or not.   *)
(* found: a registration's key has its account; overtaken: the key of the     *)
(* account was changed since.                                                 *)
Accept(m, f, e, op, found) ==
    /\ open' = open \union {[request |-> m, altered |-> f = "altered", at |-> e, op |-> op,
                             found |-> found, overtaken |-> FALSE]}
    /\ UNCHANGED <<handed, unspent, sent, registered, acts>>

(* What it did was done with the key that the account then had.               *)
Commit(o, key) ==
    /\ ConsumeNonceRow(o.request, o.at)
    /\ acts' = acts \union {[request |-> o.request, altered |-> o.altered, at |-> o.at, op |-> o.op, key |-> key,
                             overtaken |-> o.overtaken, again |-> \E a \in acts : a.request = o.request]}
    /\ UNCHANGED <<handed, sent>>

GiveUp(o) == open' = open \ {o} /\ UNCHANGED <<handed, unspent, sent, registered, acts>>

----------------------------------------------------------------------------
(* Account operations.                                                       *)

verifyHMAC(f) == f # "other secret"
bindingHolds(f) ==
    f \notin {"unbound", "bound elsewhere", "other key bound"} /\ verifyHMAC(f)

ByThumbprint(e, thumbprint) == {n \in Numbers : registered[n].at = e /\ registered[n].thumbprint = thumbprint}

(* A key that is registered gets its account back, bound or not.              *)
NewAccount(m, f, e) ==
    /\ AuthenticateByKey(m, f, e, "new-account")
    /\ LET existing == ByThumbprint(e, jwkThumbprint(m.by, m.spelling))
       IN /\ existing = {} => bindingHolds(f)
          /\ \A n \in existing : registered[n].valid
          /\ Accept(m, f, e, "new-account", existing # {})

(* The index on endpoint and thumbprint refuses a second account.             *)
CreateAccount(o) ==
    /\ o.op = "new-account"
    /\ LET m == o.request
           thumbprint == jwkThumbprint(m.by, m.spelling)
       IN \/ o.found /\ UNCHANGED registered
          \/ /\ ~o.found /\ ByThumbprint(o.at, thumbprint) = {}
             /\ \E n \in Numbers :
                  /\ \A l \in Numbers : l < n <=> registered[l] # NotMade
                  /\ registered' = [registered EXCEPT ![n] =
                       [at |-> o.at, key |-> m.by, thumbprint |-> thumbprint, valid |-> TRUE]]
    /\ Commit(o, o.request.by) /\ open' = open \ {o}

(* The account that signs is the one the address names.                       *)
AccountRequest(m, f, e) ==
    /\ AuthenticateByAccount(m, f, e, "account") /\ m.kid = m.path
    /\ Accept(m, f, e, "account", TRUE)

(* The status that was read is written, or that it is deactivated.            *)
UpdateAccount(o, remains) ==
    /\ o.op = "account"
    /\ registered' = [registered EXCEPT ![o.request.kid].valid = remains]
    /\ Commit(o, registered[o.request.kid].key) /\ open' = open \ {o}

ProvenKey(m, f) ==
    /\ parseJWK(m.new) /\ f # "new key not proved"
    /\ f \notin {"other account named", "other old key named"}
KeyChange(m, f, e) ==
    /\ AuthenticateByAccount(m, f, e, "key-change") /\ ProvenKey(m, f)
    /\ jwkThumbprint(m.new, m.spelling) # registered[m.kid].thumbprint
    /\ Accept(m, f, e, "key-change", TRUE)

(* Whatever key the account has by now.                                       *)
RekeyAccount(o) ==
    /\ o.op = "key-change"
    /\ LET m == o.request
           thumbprint == jwkThumbprint(m.new, m.spelling)
       IN /\ ByThumbprint(o.at, thumbprint) \subseteq {m.kid}
          /\ registered' = [registered EXCEPT ![m.kid].key = m.new, ![m.kid].thumbprint = thumbprint]
          /\ open' = {IF p.request.kid = m.kid THEN [p EXCEPT !.overtaken = TRUE] ELSE p : p \in open \ {o}}
    /\ Commit(o, registered[o.request.kid].key)

(* Types of nonces, of requests under way and of the accounts.               *)
RequestTypeOK ==
    /\ unspent \subseteq handed /\ handed \subseteq Places \X NonceValues
    /\ \A o \in open : o.request \in sent /\ <<o.at, o.request.nonce>> \in unspent
    /\ \A n \in Numbers : registered[n].valid => registered[n].at \in Places
    /\ \A n, l \in Numbers : (registered[n] # NotMade /\ l < n) => registered[l] # NotMade
    /\ \A n \in Numbers : registered[n] # NotMade =>
         \E s \in Spellings : registered[n].thumbprint = jwkThumbprint(registered[n].key, s)

RequestNext ==
    \/ \E e \in Places : NewNonce(e) \/ \E v \in NonceValues : Write(e, v)
    \/ \E m \in sent, e \in Places : consumeNonce(m, e) /\ \E f \in Flaws :
         NewAccount(m, f, e) \/ AccountRequest(m, f, e) \/ KeyChange(m, f, e)
    \/ \E o \in open : \/ CreateAccount(o) \/ RekeyAccount(o) \/ GiveUp(o)
                       \/ \E remains \in BOOLEAN : UpdateAccount(o, remains)

RequestSpec == RequestInit /\ [][RequestNext]_requestVars

----------------------------------------------------------------------------
(* Properties.                                                               *)

(* However often and wherever it is delivered, a request is acted on once     *)
(* (acme/service.go:294).                                                     *)
ActsOnce == \A a \in acts : ~a.again

(* And only for the address it was signed for, unchanged, about the account   *)
(* the address names, and with the key the account has: not one it had before *)
(* or gets later, unless it is changed while the request is under way         *)
(* (acme/service.go:381, acme/jws.go:147, acme/handler.go:246).               *)
ActsAsSigned ==
    \A a \in acts :
        /\ a.at = a.request.at /\ a.op = a.request.op /\ ~a.altered
        /\ a.op = "account" => a.request.path = a.request.kid
        /\ a.key = a.request.by \/ a.overtaken

(* A key has one account at an endpoint, however its members are ordered and  *)
(* however registrations and key changes overlap: the lost reply to a         *)
(* registration costs nothing.  Only another spelling of the members          *)
(* themselves, which parseJWK reads as the same key, has an account of its    *)
(* own, although the comment says one key always has one thumbprint           *)
(* (acme/jws.go:342-365).                                                     *)
OneAccountPerKey ==
    \A n, l \in Numbers :
        /\ registered[n] # NotMade /\ registered[l] # NotMade /\ n # l
        /\ registered[n].at = registered[l].at /\ registered[n].key = registered[l].key
        => \E s, t \in Spellings :
             /\ (s = "respelt") # (t = "respelt")
             /\ registered[n].thumbprint = jwkThumbprint(registered[n].key, s)
             /\ registered[l].thumbprint = jwkThumbprint(registered[l].key, t)

(* No account is left with a key its requests cannot be verified with         *)
(* (acme/service.go:609).                                                     *)
AccountsStayUsable == \A n \in Numbers : registered[n].valid => parseJWK(registered[n].key)

(* Over a network that repeats, delays, changes and misdirects, the server    *)
(* does what the holder of the key asked for, once, and its accounts stay     *)
(* usable (jws.go, service.go).                                               *)
ActsAsAsked ==
    /\ ActsOnce
    /\ ActsAsSigned
    /\ OneAccountPerKey
    /\ AccountsStayUsable
    /\ RequestTypeOK
=============================================================================

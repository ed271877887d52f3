---------------------------- MODULE IntuneClient -----------------------------
(* The client of Intune: access tokens and service maps cached per tenant,    *)
(* read and written by concurrent calls that wait for Microsoft between the   *)
(* lookup and the store.  Microsoft, external, grants a tenant's consent in   *)
(* two steps, mints tokens that carry the roles of the moment, and publishes  *)
(* the SCEP service to tenants whose roles are in place.                      *)
EXTENDS Naturals, FiniteSets

CONSTANTS
    Callers, Tenants,
    Questions,      \* what a behaviour may be about: "roles" that change, tokens that
                    \* "lapse", or "tenants" apart
    Attempts,       \* of one verification
    CallTime,       \* the longest HTTP call
    Ttl, Margin,    \* life of a token, and how early it is dropped
    MaxTicks,
    NoTenant

Scopes == {"graph", "intune"}
Published == 0..MaxTicks

ASSUME ClientAssumption ==
    /\ CallTime \in Nat /\ Margin \in Nat /\ Ttl \in Nat /\ Attempts \in Nat \ {0}
    /\ MaxTicks \in Nat \ {0, 1}
    /\ 2 * CallTime <= Margin /\ Margin < Ttl
    /\ NoTenant \notin Tenants

VARIABLES
    question,
    tick,
    consent,        \* per tenant: how far it is, and since when
    tokens,         \* the token cache
    services,       \* the service cache
    dialogs         \* per caller: where the call is and what it holds

clientVars == <<question, tick, consent, tokens, services, dialogs>>

NoToken == [tenant |-> NoTenant, roles |-> FALSE, minted |-> 0, until |-> 0]
NoMap == [tenant |-> NoTenant, read |-> 0]
NoDialog == [at |-> "idle", what |-> "none", tenant |-> NoTenant, began |-> 0, sent |-> 0,
             attempt |-> 0, token |-> NoToken, map |-> NoMap, result |-> "none"]
Flights == {"minting", "minted", "discovering", "discovered", "posting"}

(* Types of the caches, of what Microsoft published and of the calls.      *)
ClientTypeOK ==
    /\ question \in Questions /\ tick \in Published
    /\ \A t \in Tenants : consent[t].is \in {"none", "created", "granted", "withdrawn"} /\ consent[t].since <= tick
    /\ \A t \in Tenants, s \in Scopes : tokens[<<t, s>>].minted <= tick
    /\ \A p \in Callers :
         LET d == dialogs[p]
         IN /\ d.at \in Flights \union {"idle", "services", "token"}
            /\ d.at # "idle" => d.tenant \in Tenants
            /\ d.at \in Flights => d.sent <= tick /\ tick <= d.sent + CallTime
            /\ d.at \in {"discovering", "posting"} => d.token # NoToken
            /\ d.attempt \in 0..Attempts

ClientInit ==
    /\ question \in Questions /\ tick = 0
    /\ consent = [t \in Tenants |-> [is |-> IF question = "roles" THEN "none" ELSE "granted", since |-> 0]]
    /\ tokens = [k \in Tenants \X Scopes |-> NoToken]
    /\ services = [t \in Tenants |-> NoMap]
    /\ dialogs = [p \in Callers |-> NoDialog]

Asked == IF question = "tenants" THEN Tenants ELSE {CHOOSE t \in Tenants : TRUE}
Latest == CASE question = "tenants" -> 0 [] question = "roles" -> 2 [] OTHER -> MaxTicks

----------------------------------------------------------------------------
(* Microsoft and the clock.                                                  *)

(* Steps between calls take no time; a call times out.                        *)
Elapse ==
    /\ tick < Latest /\ tick' = tick + 1
    /\ \A p \in Callers : \/ dialogs[p].at = "idle"
                          \/ dialogs[p].at \in Flights /\ tick < dialogs[p].sent + CallTime
    /\ UNCHANGED <<question, consent, tokens, services, dialogs>>

(* The administrator consents, the roles follow, and both may be withdrawn.   *)
Consent(t, is) ==
    /\ question = "roles" /\ t \in Asked
    /\ <<consent[t].is, is>> \in {<<"none", "created">>, <<"created", "granted">>, <<"granted", "withdrawn">>}
    /\ consent' = [consent EXCEPT ![t] = [is |-> is, since |-> tick]]
    /\ UNCHANGED <<question, tick, tokens, services, dialogs>>

----------------------------------------------------------------------------
(* The caches.                                                               *)

Key(t, scope) == <<t, scope>>

Cached(t, scope) == tokens[Key(t, scope)] # NoToken /\ tick < tokens[Key(t, scope)].until

Until == tick + Ttl - Margin

forgetServices(t) == services' = [services EXCEPT ![t] = NoMap]

(* Fault: the tokens stay.                                                    *)
FaultForgetTenant(t) == forgetServices(t) /\ UNCHANGED tokens
forgetTenant(t) ==
    /\ forgetServices(t)
    /\ tokens' = [k \in DOMAIN tokens |-> IF k[1] = t THEN NoToken ELSE tokens[k]]

----------------------------------------------------------------------------
(* Calls.                                                                    *)

At(p, at) == dialogs[p].at = at
Move(p, d) == dialogs' = [dialogs EXCEPT ![p] = d]
(* A call is over; a verification knows how often it has tried.               *)
Close(p, result) ==
    Move(p, IF dialogs[p].what = "post" THEN NoDialog
            ELSE [NoDialog EXCEPT !.what = "check", !.result = result, !.tenant = dialogs[p].tenant,
                                  !.attempt = IF result = "ok" THEN Attempts ELSE dialogs[p].attempt])
Same == UNCHANGED <<question, tick, consent>>
Fresh(what, t, n) ==
    [NoDialog EXCEPT !.at = "services", !.what = what, !.tenant = t, !.attempt = n,
                    !.began = IF what = "check" THEN tick ELSE 0]

CheckTenant(p, t, n) == Move(p, Fresh("check", t, n)) /\ forgetTenant(t)

(* A verification tries again, a bounded number of times, unless it has run   *)
(* out of time.                                                               *)
VerifyTenant(p, t) ==
    /\ At(p, "idle") /\ t \in Asked /\ CheckTenant(p, t, 1) /\ Same
VerifyAgain(p) ==
    /\ At(p, "idle") /\ dialogs[p].what = "check" /\ dialogs[p].result \in {"refused", "failed"}
    /\ dialogs[p].attempt < Attempts
    /\ CheckTenant(p, dialogs[p].tenant, dialogs[p].attempt + 1) /\ Same

(* Validate, the notifications and both revocation calls.                     *)
postTo(p, t) ==
    /\ At(p, "idle") /\ t \in Asked /\ Move(p, Fresh("post", t, 0))
    /\ UNCHANGED <<tokens, services>> /\ Same

(* Where a call goes once it has the address of the service.                  *)
Addressed(p, map) ==
    IF dialogs[p].what = "check"
    THEN Close(p, "ok")
    ELSE Move(p, [dialogs[p] EXCEPT !.at = "token", !.map = map, !.token = NoToken, !.sent = 0])

serviceEndpoint(p) ==
    /\ At(p, "services")
    /\ IF services[dialogs[p].tenant] # NoMap THEN Addressed(p, services[dialogs[p].tenant])
       ELSE Move(p, [dialogs[p] EXCEPT !.at = "token"])
    /\ UNCHANGED <<tokens, services>> /\ Same

Scope(p) == IF dialogs[p].map = NoMap THEN "graph" ELSE "intune"
Onward(p) == IF dialogs[p].map = NoMap THEN "discovering" ELSE "posting"

token(p) ==
    /\ At(p, "token")
    /\ LET k == Key(dialogs[p].tenant, Scope(p))
       IN Move(p, IF Cached(dialogs[p].tenant, Scope(p))
                  THEN [dialogs[p] EXCEPT !.at = Onward(p), !.token = tokens[k], !.sent = tick]
                  ELSE [dialogs[p] EXCEPT !.at = "minting", !.sent = tick])
    /\ UNCHANGED <<tokens, services>> /\ Same

Mint(p) ==
    /\ At(p, "minting")
    /\ LET t == dialogs[p].tenant
       IN IF consent[t].is \in {"none", "withdrawn"} THEN Close(p, "refused")
          ELSE Move(p, [dialogs[p] EXCEPT !.at = "minted",
                   !.token = [tenant |-> t, roles |-> consent[t].is = "granted", minted |-> tick, until |-> 0]])
    /\ UNCHANGED <<tokens, services>> /\ Same
storeToken(p) ==
    /\ At(p, "minted")
    /\ LET kept == [dialogs[p].token EXCEPT !.until = Until]
       IN /\ tokens' = [tokens EXCEPT ![Key(dialogs[p].tenant, Scope(p))] = kept]
          /\ Move(p, [dialogs[p] EXCEPT !.at = Onward(p), !.token = kept, !.sent = tick])
    /\ UNCHANGED services /\ Same

(* A token without roles, or a tenant without them now, is refused, or is     *)
(* published a map without the service, which takes the place of the cached.  *)
Discover(p) ==
    /\ At(p, "discovering")
    /\ LET t == dialogs[p].token.tenant
       IN IF dialogs[p].token.roles /\ consent[t].is = "granted"
          THEN /\ Move(p, [dialogs[p] EXCEPT !.at = "discovered", !.map = [tenant |-> t, read |-> tick]])
               /\ UNCHANGED services
          ELSE Close(p, "refused") /\ (UNCHANGED services \/ forgetServices(dialogs[p].tenant))
    /\ UNCHANGED tokens /\ Same
storeServices(p) ==
    /\ At(p, "discovered")
    /\ services' = [services EXCEPT ![dialogs[p].tenant] = dialogs[p].map]
    /\ Addressed(p, dialogs[p].map)
    /\ UNCHANGED tokens /\ Same

scepPost(p) ==
    /\ At(p, "posting")
    /\ Close(p, "ok") /\ UNCHANGED <<tokens, services>> /\ Same
PostFails(p) ==
    /\ At(p, "posting")
    /\ Close(p, "failed") /\ forgetServices(dialogs[p].tenant) /\ UNCHANGED tokens /\ Same
(* A call times out or its reply does not arrive; nothing is stored.          *)
CallFails(p) ==
    /\ dialogs[p].at \in Flights \ {"posting"}
    /\ Close(p, "failed") /\ UNCHANGED <<tokens, services>> /\ Same

ClientNext ==
    \/ Elapse
    \/ \E t \in Tenants : \E is \in {"created", "granted", "withdrawn"} : Consent(t, is)
    \/ \E p \in Callers :
         \/ \E t \in Tenants : VerifyTenant(p, t) \/ postTo(p, t)
         \/ VerifyAgain(p) \/ serviceEndpoint(p) \/ token(p) \/ Mint(p) \/ storeToken(p)
         \/ Discover(p) \/ storeServices(p) \/ scepPost(p) \/ PostFails(p) \/ CallFails(p)

ClientSpec == ClientInit /\ [][ClientNext]_clientVars

----------------------------------------------------------------------------
(* Properties.                                                               *)

(* No token lapses while a call that carries it is under way, although it was *)
(* minted before it was stored and may have been cached for long              *)
(* (scep/intune.go:178).                                                      *)
TokenOutlivesCall ==
    \A p \in Callers : dialogs[p].at \in {"discovering", "posting"} => tick < dialogs[p].token.minted + Ttl

(* A call of one tenant carries its tokens and goes to its services, never    *)
(* another's (scep/intune.go:114).                                            *)
TenantsApart ==
    \A p \in Callers :
        LET d == dialogs[p]
        IN d.token.tenant \in {NoTenant, d.tenant} /\ d.map.tenant \in {NoTenant, d.tenant}

Decided(p, result) ==
    dialogs[p].at # "idle" /\ dialogs[p].what = "check" /\ dialogs'[p].result = result

(* A verification that succeeds rests on what Microsoft published no longer   *)
(* ago than a call under way when it began, whatever others cached            *)
(* (scep/intune.go:278).                                                      *)
CheckedAfresh ==
    \A p \in Callers :
       Decided(p, "ok") => dialogs[p].began <= services'[dialogs[p].tenant].read + CallTime

(* One that is refused was made before the roles were in place, or within a   *)
(* call of it: a token without roles does not outlive the check that drops it *)
(* (scep/intune.go:258).                                                      *)
NoStaleRefusal ==
    \A p \in Callers :
       (Decided(p, "refused") /\ consent[dialogs[p].tenant].is = "granted") =>
           dialogs[p].began <= consent[dialogs[p].tenant].since + CallTime

(* What is cached saves calls and changes no answer: no call fails by an old  *)
(* token, no verification rests on an old one, and no tenant on the other     *)
(* (intune.go).                                                               *)
CachesAreHonest ==
    [][/\ CheckedAfresh
       /\ NoStaleRefusal
       /\ TokenOutlivesCall'
       /\ TenantsApart'
       /\ ClientTypeOK']_clientVars
=============================================================================

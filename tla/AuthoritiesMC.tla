---------------------------- MODULE AuthoritiesMC ----------------------------
(* The certificate authorities, what EST issues from them, the policy of      *)
(* names, usages and dates, the Intune pass that revokes and the alerts about *)
(* what expires, for TLC: as in ConsoleMC, each behaviour is about one of     *)
(* these parts, chosen in the initial state, and leaves the others alone.     *)
EXTENDS CaImport, EstEnrollment, IntuneSync, ExpiryAlerts, IssuancePolicy, TLC

CONSTANTS x1, x2, y1, y2, z1

(* Two pairs that may be exchanged, shared by the parts.                      *)
TwoX == {x1, x2}
TwoY == {y1, y2}
OneZ == {z1}

CAOperations == {{"create", "delete"}, {"rotate", "delete"}, {"rotate", "status"}, {"bind", "rotate"},
                 {"bind", "status"}, {"bind", "delete"}, {"import", "delete"}}
EstTopics == {"names", "subjects", "keys", "closing"}
PolicyAspects == {"usages", "names", "dates"}
FourUsages == {"client_auth", "server_auth", "ocsp_signing", "any"}
TwoTexts == {"host", "wildcard"}
(* One text in two forms, a wildcard, and an entry that is not read.          *)
FourNamed == {[form |-> "dns", text |-> "host"], [form |-> "upn", text |-> "host"],
              [form |-> "dns", text |-> "wildcard"], [form |-> "unread", text |-> "host"]}
(* Subjects that say what they hold, and one that reads as another.           *)
FourSubjects == {[shown |-> c, common |-> c] : c \in TwoTexts \union {Nameless}}
                \union {[shown |-> "host", common |-> Nameless]}
AllParts == {"authorities", "est", "sync", "expiry", "policy"}

CONSTANT Parts
VARIABLE part

partsVars == <<part, importVars, estVars, syncVars, expiryVars, policyVars>>

Init ==
    /\ part \in Parts
    /\ ImportInit /\ (part # "authorities" => menu = {"bind", "rotate"})
    /\ EstInit /\ (part # "est" => topic = "names")
    /\ SyncInit /\ (part # "sync" => \A s \in Serials : certs[s].owner = Foreign)
    /\ ExpiryInit /\ (part # "expiry" => organization.administrators = {})
    /\ PolicyInit /\ (part # "policy" => aspect = "usages")

Next ==
    /\ UNCHANGED part
    /\ \/ part = "authorities" /\ ImportNext /\ UNCHANGED <<estVars, syncVars, expiryVars, policyVars>>
       \/ part = "est" /\ EstNext /\ UNCHANGED <<importVars, syncVars, expiryVars, policyVars>>
       \/ part = "sync" /\ SyncNext /\ UNCHANGED <<importVars, estVars, expiryVars, policyVars>>
       \/ part = "expiry" /\ ExpiryNext /\ UNCHANGED <<importVars, estVars, syncVars, policyVars>>
       \/ part = "policy" /\ PolicyNext /\ UNCHANGED <<importVars, estVars, syncVars, expiryVars>>

Spec == Init /\ [][Next]_partsVars

Interchangeable == Permutations(TwoX) \union Permutations(TwoY)
=============================================================================

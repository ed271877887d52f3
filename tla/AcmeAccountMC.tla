--------------------------- MODULE AcmeAccountMC ---------------------------
(* Instances of AcmeAccount for TLC.                                         *)
EXTENDS AcmeAccount, TLC

CONSTANTS r1, r2, n1, n2, k1, k2, a1, a2, e1, e2

BothRequests == {r1, r2}
TwoNonces == {n1, n2}
TwoKeys == {k1, k2}
OneAccount == {a1}
BothAccounts == {a1, a2}
OneCred == {e1}
BothCreds == {e1, e2}

Everything == {"new-account", "update", "deactivate", "key-change"}

(* Everything but the credentials, of which some are one-shot.               *)
Interchangeable == Permutations(Requests) \union Permutations(Nonces)
                   \union Permutations(Keys) \union Permutations(Accounts)
=============================================================================

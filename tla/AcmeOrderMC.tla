---------------------------- MODULE AcmeOrderMC ----------------------------
(* Instances of AcmeOrder for TLC.                                           *)
EXTENDS AcmeOrder, TLC

CONSTANTS r1, r2, o1, o2, a1, a2, c1, c2, c3

OneOrder == {o1}
TwoOrders == {o1, o2}
BothRequests == {r1, r2}
OneAccount == {a1}
BothAccounts == {a1, a2}
TwoCerts == {c1, c2}
ThreeCerts == {c1, c2, c3}

(* Requests, orders, accounts and serials are interchangeable.               *)
Interchangeable == Permutations(Requests) \union Permutations(Orders)
                   \union Permutations(Accounts) \union Permutations(Certs)
=============================================================================

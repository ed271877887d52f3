-------------------------- MODULE ScepEnrollmentMC --------------------------
(* Instances of ScepEnrollment for TLC.                                      *)
EXTENDS ScepEnrollment, TLC

CONSTANTS r1, r2, t1, t2, s1, s2, k1, k2, w1, w2, c1, c2, c3

BothRequests == {r1, r2}
OneTx == {t1}
TwoTxs == {t1, t2}
OneCSR == {s1}
OneKey == {k1}
TwoKeys == {k1, k2}
Nobody == {}
SharedSecret == {"static"}
OneChallenge == {w1}
OneCert == {c1}
TwoCerts == {c1, c2}
ThreeCerts == {c1, c2, c3}

Interchangeable == Permutations(Requests) \union Permutations(Txs) \union Permutations(CSRs)
                   \union Permutations(Keys) \union Permutations(Certs \ Foreign)
=============================================================================

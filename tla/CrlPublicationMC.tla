-------------------------- MODULE CrlPublicationMC --------------------------
(* Instances of CrlPublication for TLC.                                      *)
EXTENDS CrlPublication, TLC

CONSTANTS c1, c2, p1, p2, p3, p4, p5, o1

Nobody == {}
OneCert == {c1}
TwoCerts == {c1, c2}
OneAdmin == {p1}
OneSync == {p3}
OneWorker == {p4}
OneFetch == {p5}
OneResponder == {o1}

Interchangeable == Permutations(Certs) \union Permutations(Admins)
                   \union Permutations(Responders)
=============================================================================

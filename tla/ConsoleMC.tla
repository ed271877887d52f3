------------------------------ MODULE ConsoleMC ------------------------------
(* The console's independent parts for TLC: each behaviour is about one of    *)
(* them, chosen in the initial state, and leaves the others where they start. *)
EXTENDS SignIn, Team, RateLimiter, ConnectionPool, TLC

CONSTANTS a1, a2, b1, b2, w1, d1, d2, d3

(* The parts share their model values, so that one small group of             *)
(* permutations serves them all.                                              *)
TwoA == {a1, a2}
TwoB == {b1, b2}
OnePasskey == {w1}
ThreeCallers == {d1, d2, d3}
OneNested == {w1}
FourServed == {d1, d2, d3, w1}

(* Sign-ins and resets against an enrolment, against each other, against      *)
(* passkeys, against the panel.                                              *)
Resets == {"enroll", "recovery"}
SignInMenus == {Resets, {"enroll", "totp"}, {"totp", "recovery"}, {"passkey", "recovery"},
                {"totp", "passkey"}, {"passkey", "keys"}, {"adding"},
                {"removing"}, {"recovery", "removing"}, {"totp", "removing"}}

(* Where no sign-in compares steps, every code is of the first one.           *)
OneStep == now' = now /\ \A r \in Requests : req'[r].step <= now
AllParts == {"sign-in", "team", "limiter", "pool"}

CONSTANT Parts
VARIABLE part

consoleVars == <<part, signInVars, teamVars, limiterVars, poolVars>>

Init ==
    /\ part \in Parts
    /\ SignInInit
    /\ part # "sign-in" => menu = Resets /\ Enrolled = {}
    /\ TeamInit /\ (part # "team" => theme = "setup")
    /\ LimiterInit /\ PoolInit

Next ==
    /\ UNCHANGED part
    /\ \/ /\ part = "sign-in" /\ SignInNext /\ (menu = Resets => OneStep)
          /\ UNCHANGED <<teamVars, limiterVars, poolVars>>
       \/ part = "team" /\ TeamNext /\ UNCHANGED <<signInVars, limiterVars, poolVars>>
       \/ part = "limiter" /\ LimiterNext /\ UNCHANGED <<signInVars, teamVars, poolVars>>
       \/ part = "pool" /\ PoolNext /\ UNCHANGED <<signInVars, teamVars, limiterVars>>

Spec == Init /\ [][Next]_consoleVars

Interchangeable == Permutations(TwoA) \union Permutations(TwoB)
=============================================================================

----------------------------- MODULE RateLimiter -----------------------------
(* The per-process fixed-window limiter in front of every public handler.     *)
(* Allow runs under a mutex, so one call is one step; time moves between      *)
(* calls, in units that divide the window and the sweep interval.             *)
EXTENDS Naturals, FiniteSets

CONSTANTS
    Callers,        \* keys: addresses, endpoints, hashes of emails
    Limit,          \* requests per key and window
    Window,         \* time.Minute
    SweepInterval,
    MaxBuckets,     \* maxRateBuckets
    LastMoment      \* bound: the time explored

ASSUME LimiterAssumption ==
    /\ Limit \in Nat \ {0} /\ Window \in Nat \ {0} /\ SweepInterval \in Nat \ {0}
    /\ MaxBuckets \in Nat \ {0} /\ LastMoment \in Nat /\ LastMoment >= Window

VARIABLES
    clock,
    buckets,        \* per tracked key: start of its window and count
    lastSweep,
    admitted,       \* what each key was admitted within the last window
    refused         \* the last key the map had no room for, and what filled it

limiterVars == <<clock, buckets, lastSweep, admitted, refused>>

Untracked == [start |-> 0, count |-> 0]
tracked == {k \in Callers : buckets[k].count > 0}
Nothing == [key |-> {}, starts |-> {}]
Rolled(b) == clock - b.start >= Window

(* Types: no window starts in the future.                                  *)
LimiterTypeOK ==
    /\ clock \in Window..LastMoment /\ lastSweep \in 0..clock
    /\ buckets \in [Callers -> [start : 0..clock, count : Nat]]
    /\ admitted \in [Callers -> SUBSET [at : Window..clock, nth : Nat \ {0}]]
    /\ refused \in [key : SUBSET Callers, starts : SUBSET (0..clock)]

(* The process has been up for a while; the map is empty.                     *)
LimiterInit ==
    /\ clock = Window /\ lastSweep = 0 /\ refused = Nothing
    /\ buckets = [k \in Callers |-> Untracked]
    /\ admitted = [k \in Callers |-> {}]

----------------------------------------------------------------------------
Full == Cardinality(tracked) >= MaxBuckets
SweepDue == Full /\ clock - lastSweep >= SweepInterval
(* Fault: the sweep spares nobody.                                            *)
FaultSwept == [k \in Callers |-> Untracked]
Swept == [k \in Callers |-> IF Rolled(buckets[k]) THEN Untracked ELSE buckets[k]]

Opened == [start |-> clock, count |-> 1]

Refuses(k, held) == k \notin held /\ Cardinality(held) >= MaxBuckets

(* An admission is told from the others of its moment by their number.        *)
Admission(k) == [at |-> clock, nth |-> 1 + Cardinality({a \in admitted[k] : a.at = clock})]

(* A tracked key keeps its budget; a new one is refused while the map is full *)
(* after the sweep, if one was due.                                           *)
Allow(k) ==
    LET map == IF SweepDue THEN Swept ELSE buckets
        held == {j \in Callers : map[j].count > 0}
        b == IF Rolled(map[k]) \/ k \notin held THEN Opened
             ELSE [map[k] EXCEPT !.count = @ + 1]
    IN
    /\ lastSweep' = IF SweepDue THEN clock ELSE lastSweep
    /\ IF Refuses(k, held)
       THEN /\ buckets' = map /\ UNCHANGED admitted
            /\ refused' = [key |-> {k}, starts |-> {map[j].start : j \in held}]
       ELSE /\ buckets' = [map EXCEPT ![k] = b] /\ refused' = Nothing
            /\ admitted' = IF b.count <= Limit THEN [admitted EXCEPT ![k] = @ \union {Admission(k)}]
                           ELSE admitted
    /\ UNCHANGED clock

Elapse ==
    /\ clock < LastMoment /\ clock' = clock + 1 /\ refused' = Nothing
    /\ admitted' = [k \in Callers |-> {a \in admitted[k] : clock + 1 - a.at < Window}]
    /\ UNCHANGED <<buckets, lastSweep>>

(* A call that would do no more than raise a count beyond the limit is left   *)
(* out.                                                                      *)
Tells(k) == buckets[k].count <= Limit \/ Rolled(buckets[k]) \/ SweepDue
LimiterNext == Elapse \/ \E k \in Callers : Tells(k) /\ Allow(k)

LimiterSpec == LimiterInit /\ [][LimiterNext]_limiterVars

----------------------------------------------------------------------------
(* No stretch of one window's length admits more than two budgets of a key,   *)
(* whatever was swept and re-created in it.                                   *)
BudgetHolds == \A k \in Callers : Cardinality(admitted[k]) <= 2 * Limit

(* The map never outgrows its cap: a flood of fresh keys cannot grow it.      *)
BucketsBounded == Cardinality(tracked) <= MaxBuckets

(* "Keys already tracked keep their budget": a key inside its window is never *)
(* turned away for lack of room, however many callers flood the map.          *)
TrackedKeepBudget ==
    \A k \in tracked : k \in refused'.key => Rolled(buckets[k])

(* A new key is refused only under a flood: each bucket it finds was opened   *)
(* within a window and one sweep interval.  ratelimit.go says "every tracked  *)
(* key is inside its current window", which is so after a sweep.              *)
RefusedUnderFlood == \A start \in refused.starts : clock - start < Window + SweepInterval

(* A flood of fresh keys costs neither memory nor the budgets of the callers  *)
(* that are known, and no caller gains a budget by it (ratelimit.go).         *)
BudgetsHoldUnderFlood ==
    [][/\ TrackedKeepBudget
       /\ BudgetHolds'
       /\ BucketsBounded'
       /\ RefusedUnderFlood'
       /\ LimiterTypeOK']_limiterVars
=============================================================================

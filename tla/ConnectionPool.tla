---------------------------- MODULE ConnectionPool ----------------------------
(* The bounded pool of database connections.  A console request holds one for *)
(* its whole duration; a sign-in page opened within a session asks for a      *)
(* second one (AuthFlow) while it holds the first.  Waiting has no timeout.   *)
EXTENDS Naturals, FiniteSets

CONSTANTS
    Served,         \* requests, each of them once
    Nested,         \* those that run a sign-in page within a session
    MaxOpenConns

ASSUME PoolAssumption == /\ IsFiniteSet(Served) /\ Nested \subseteq Served
                         /\ MaxOpenConns \in Nat \ {0}

VARIABLES
    held,           \* connections each request holds
    over            \* requests that have given theirs back

poolVars == <<held, over>>

(* Fault: every page asks twice.                                              *)
FaultNeeds(r) == IF r \in Served THEN 2 ELSE 1
Needs(r) == IF r \in Nested THEN 2 ELSE 1
Holding == {r \in Served : held[r] > 0}
HoldingTwo == {r \in Served : held[r] = 2}
InUse == Cardinality(Holding) + Cardinality(HoldingTwo)

(* Types: no request holds more than two connections.                      *)
PoolTypeOK == held \in [Served -> 0..2] /\ over \subseteq Served

PoolInit == held = [r \in Served |-> 0] /\ over = {}

Available == InUse < MaxOpenConns

(* BeginTx blocks until the pool has a connection to give.                    *)
BeginTx(r) ==
    /\ r \notin over /\ held[r] < Needs(r) /\ Available
    /\ held' = [held EXCEPT ![r] = @ + 1] /\ UNCHANGED over

(* The handler returns: the transactions end, the connections go back.        *)
FinishRequest(r) ==
    /\ r \notin over /\ held[r] = Needs(r)
    /\ held' = [held EXCEPT ![r] = 0] /\ over' = over \union {r}

PoolNext == \E r \in Served : BeginTx(r) \/ FinishRequest(r)

PoolSpec == PoolInit /\ [][PoolNext]_poolVars

----------------------------------------------------------------------------
(* SetMaxOpenConns: the database never sees more connections than the bound.  *)
PoolBounded == InUse <= MaxOpenConns

(* As long as fewer nested requests than connections exist, the requests of   *)
(* the pool cannot all wait for each other: someone has all it needs, or a    *)
(* connection is free.  Nothing in the code keeps the nested ones that few.   *)
SomeoneProceeds ==
    Cardinality(Nested) < MaxOpenConns /\ over # Served =>
        InUse < MaxOpenConns \/ \E r \in Served \ over : held[r] = Needs(r)

(* Within its bound, and while nested requests are few, the pool does not     *)
(* stop for good (database.go, AuthFlow of repo.go).                          *)
PoolFlows ==
    /\ SomeoneProceeds
    /\ PoolBounded
    /\ PoolTypeOK
=============================================================================

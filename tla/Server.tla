------------------------------- MODULE Server --------------------------------
(* The life of the process: migrations, the checks before it serves, its      *)
(* workers and its shutdown.  A deployment may start a replacement while the  *)
(* old process still runs, and either may be killed at any point.             *)
EXTENDS Naturals, FiniteSets

CONSTANTS
    Instances,
    Files,          \* migrations, in the order of their names
    Builds,         \* the sets of migrations that builds carry
    Unguarded,      \* migrations that add a table without row level security
    Grace           \* how long shutdown waits for requests

ASSUME ServerAssumption ==
    /\ Files \subseteq Nat /\ \A b \in Builds : b \subseteq Files
    /\ Unguarded \subseteq Files /\ Grace \in Nat

VARIABLES
    schema,         \* migrations whose statements are in effect
    recorded,       \* the migrations table
    lockTable,      \* whether _lock exists
    instances,
    abandoned       \* how a process ended whose transaction the database still has

serverVars == <<schema, recorded, lockTable, instances, abandoned>>

NotRunning == [at |-> "off", build |-> {}, toRun |-> {}, stopping |-> FALSE, left |-> 0,
               requests |-> FALSE, unit |-> "none", late |-> FALSE]
Migrating == {"migrating", "executed"}

(* Types of the schema, the lock table and the instances.                     *)
ServerTypeOK ==
    /\ schema \subseteq Files /\ recorded \subseteq Files /\ lockTable \in BOOLEAN
    /\ \A i \in Instances :
         LET n == instances[i]
         IN /\ n.at \in Migrating \union {"off", "reading", "locking", "checking", "serving", "draining", "waiting"}
            /\ n.toRun \subseteq n.build /\ n.left <= Grace
            /\ n.at \in Migrating => lockTable
            /\ n.at \notin {"serving", "draining", "waiting"} => ~n.requests /\ n.unit = "none"
            /\ n.at \in {"draining", "waiting"} => n.stopping
    /\ abandoned \in [Instances -> {"nothing", "killed", "stopped", "cut off"}]

ServerInit ==
    /\ schema = {} /\ recorded = {} /\ lockTable = FALSE
    /\ instances = [i \in Instances |-> NotRunning] /\ abandoned = [i \in Instances |-> "nothing"]

Is(i, at) == instances[i].at = at
Become(i, n) == instances' = [instances EXCEPT ![i] = n]
Onto(i, at) == Become(i, [instances[i] EXCEPT !.at = at])
Tables == <<schema, recorded, lockTable, abandoned>>

----------------------------------------------------------------------------
(* Migrations.                                                               *)

Migrations(i, build) ==
    /\ Is(i, "off") /\ Become(i, [NotRunning EXCEPT !.at = "reading", !.build = build])
    /\ UNCHANGED Tables

(* What is applied is read before the lock is taken.                          *)
ReadApplied(i) ==
    /\ Is(i, "reading")
    /\ LET toRun == instances[i].build \ recorded
       IN Become(i, [instances[i] EXCEPT !.toRun = toRun, !.at = IF toRun = {} THEN "checking" ELSE "locking"])
    /\ UNCHANGED Tables

(* Fault: the table may exist already.                                        *)
FaultCreateLock(i) ==
    /\ Is(i, "locking") /\ lockTable' = TRUE /\ Onto(i, "migrating")
    /\ UNCHANGED <<schema, recorded, abandoned>>
(* A table that exists ends the process, whoever left it.                     *)
CreateLock(i) ==
    /\ Is(i, "locking") /\ lockTable' = TRUE
    /\ IF lockTable THEN Become(i, NotRunning) ELSE Onto(i, "migrating")
    /\ UNCHANGED <<schema, recorded, abandoned>>

File(i) == CHOOSE m \in instances[i].toRun : \A o \in instances[i].toRun : m <= o

(* Statements that were run before fail, and with them the process.           *)
migrate(i) ==
    /\ Is(i, "migrating") /\ instances[i].toRun # {}
    /\ IF File(i) \in schema THEN lockTable' = FALSE /\ Become(i, NotRunning)
       ELSE Onto(i, "executed") /\ UNCHANGED lockTable
    /\ UNCHANGED <<schema, recorded, abandoned>>

MigrationCommits(i) ==
    /\ Is(i, "executed") /\ File(i) \notin recorded
    /\ schema' = schema \union {File(i)} /\ recorded' = recorded \union {File(i)}
    /\ Become(i, [instances[i] EXCEPT !.toRun = @ \ {File(i)}, !.at = "migrating"])
    /\ UNCHANGED <<lockTable, abandoned>>

DropLock(i) ==
    /\ Is(i, "migrating") /\ instances[i].toRun = {}
    /\ lockTable' = FALSE /\ Onto(i, "checking")
    /\ UNCHANGED <<schema, recorded, abandoned>>

(* A statement or COMMIT fails; the deferred DROP runs.                       *)
MigrationFails(i) ==
    /\ instances[i].at \in Migrating
    /\ lockTable' = FALSE /\ Become(i, NotRunning)
    /\ UNCHANGED <<schema, recorded, abandoned>>

(* What a process leaves behind when it ends: the transaction of a sweep, or  *)
(* of a request.                                                              *)
Leave(i, how) ==
    abandoned' = IF how = "nothing" THEN abandoned ELSE [abandoned EXCEPT ![i] = how]

(* Killed: nothing deferred runs.                                             *)
Killed(i) ==
    /\ ~Is(i, "off") /\ Become(i, NotRunning)
    /\ Leave(i, IF instances[i].unit # "none" \/ instances[i].requests THEN "killed" ELSE "nothing")
    /\ UNCHANGED <<schema, recorded, lockTable>>

(* The database finds the connection gone.                                    *)
SessionEnds(i) ==
    /\ abandoned[i] # "nothing" /\ abandoned' = [abandoned EXCEPT ![i] = "nothing"]
    /\ UNCHANGED <<schema, recorded, lockTable, instances>>

----------------------------------------------------------------------------
(* Serving.                                                                  *)

AssertRLSEnforced(i) == Is(i, "checking") /\ schema \intersect Unguarded = {}

serve(i) ==
    /\ IF AssertRLSEnforced(i) THEN Onto(i, "serving")
       ELSE Is(i, "checking") /\ Become(i, NotRunning)
    /\ UNCHANGED Tables

TakeRequest(i) ==
    /\ Is(i, "serving") /\ Become(i, [instances[i] EXCEPT !.requests = TRUE])
    /\ UNCHANGED Tables
AnswerRequests(i) ==
    /\ instances[i].requests /\ Become(i, [instances[i] EXCEPT !.requests = FALSE])
    /\ UNCHANGED Tables

Working(i) == instances[i].at \in {"serving", "draining", "waiting"}

(* Fault: a sweep has a context of its own.                                   *)
FaultCancelled(i) == FALSE
(* The context of the sweeps is cancelled by the signal.                      *)
Cancelled(i) == instances[i].stopping

(* A transaction cannot be begun in a cancelled context.                      *)
BeginUnit(i) ==
    IF Cancelled(i) THEN instances[i] ELSE [instances[i] EXCEPT !.unit = "open"]

(* A tick may win over a cancellation that is there as well.                  *)
runOnce(i) ==
    /\ Working(i) /\ instances[i].unit = "none"
    /\ Become(i, BeginUnit(i)) /\ UNCHANGED Tables

(* COMMIT is sent unless the context is cancelled by then; once sent, it is   *)
(* not called back.                                                           *)
CommitUnit(i) ==
    /\ Working(i) /\ instances[i].unit = "open" /\ ~Cancelled(i)
    /\ Become(i, [instances[i] EXCEPT !.unit = "committing", !.late = @ \/ instances[i].stopping])
    /\ UNCHANGED Tables

(* It is committed, or rolled back by an error, a panic or the cancellation.  *)
EndUnit(i) ==
    /\ Working(i) /\ instances[i].unit # "none"
    /\ Become(i, [instances[i] EXCEPT !.unit = "none"])
    /\ UNCHANGED Tables

Signal(i) ==
    /\ Is(i, "serving")
    /\ Become(i, [instances[i] EXCEPT !.at = "draining", !.stopping = TRUE, !.left = Grace])
    /\ UNCHANGED Tables

(* Time passes for requests that are not answered yet.                        *)
Drain(i) ==
    /\ Is(i, "draining") /\ instances[i].requests /\ instances[i].left > 0
    /\ Become(i, [instances[i] EXCEPT !.left = @ - 1])
    /\ UNCHANGED Tables

(* Requests are answered, or the grace is over: their connections are closed, *)
(* and nobody waits for their handlers.                                       *)
Shutdown(i) ==
    /\ Is(i, "draining") /\ (~instances[i].requests \/ instances[i].left = 0)
    /\ Onto(i, "waiting") /\ UNCHANGED Tables

WorkersWait(i) == instances[i].unit = "none"
Stop(i) ==
    /\ Is(i, "waiting") /\ WorkersWait(i) /\ Become(i, NotRunning)
    /\ Leave(i, IF instances[i].unit # "none" THEN "stopped"
                ELSE IF instances[i].requests THEN "cut off" ELSE "nothing")
    /\ UNCHANGED <<schema, recorded, lockTable>>

ServerNext ==
    \E i \in Instances :
        \/ \E build \in Builds : Migrations(i, build)
        \/ ReadApplied(i) \/ CreateLock(i) \/ migrate(i) \/ MigrationCommits(i) \/ DropLock(i)
        \/ MigrationFails(i) \/ Killed(i) \/ SessionEnds(i)
        \/ serve(i) \/ TakeRequest(i) \/ AnswerRequests(i) \/ runOnce(i) \/ CommitUnit(i) \/ EndUnit(i)
        \/ Signal(i) \/ Drain(i) \/ Shutdown(i) \/ Stop(i)

ServerSpec == ServerInit /\ [][ServerNext]_serverVars

----------------------------------------------------------------------------
(* Properties.                                                               *)

(* Two processes that start together do not migrate together, although each   *)
(* decided what to run before it had the lock (database/database.go:103).     *)
OneMigrates == Cardinality({i \in Instances : instances[i].at \in Migrating}) <= 1

(* A process serves with every migration of its build in effect, and none of  *)
(* them leaves a table unprotected (database/rls.go:33).                      *)
ServesMigrated ==
    \A i \in Instances :
        instances[i].at = "serving" =>
            instances[i].build \subseteq schema /\ instances[i].build \intersect Unguarded = {}

(* No sweep sends a COMMIT after the signal, wherever the signal finds it; a  *)
(* process that stops has left no transaction of a sweep open; and shutdown   *)
(* goes on without a request only when its grace is over, however long the    *)
(* sweeps take then (worker/worker.go:25, main.go:364, main.go:432).          *)
NothingAfterSignal ==
    \A i \in Instances :
        /\ ~instances[i].late
        /\ abandoned[i] # "stopped"
        /\ instances[i].at = "waiting" /\ instances[i].requests => instances[i].left = 0

(* A process is migrated before it serves, and done when it stops, whichever  *)
(* other starts, serves or dies beside it (database.go, rls.go, worker.go,    *)
(* main.go).                                                                  *)
StartsAndStopsWhole ==
    /\ OneMigrates
    /\ ServesMigrated
    /\ NothingAfterSignal
    /\ ServerTypeOK
=============================================================================

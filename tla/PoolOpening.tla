------------------------------ MODULE PoolOpening ------------------------------
(***************************************************************************)
(* How an api process opens its connections to the database (postgres.py:  *)
(* PoolOpener, apply_boot_schema, and the stores' open() and               *)
(* _ensure_pool()).  Each store caches its own pool, once the boot schema  *)
(* is applied; opens of one process are serialized and share the verdict   *)
(* of a failed one for OPEN_TIMEOUT_SECONDS; applies of all processes are  *)
(* serialized by an advisory lock of the database.                         *)
(*                                                                         *)
(* A caller holds its store's _pool_lock from EnterStore to its answer,    *)
(* and the verdict's lock from EnterVerdict.                               *)
(***************************************************************************)
EXTENDS Naturals, FiniteSets

CONSTANTS
  Callers,         \* threads, as records of their process and store; one of each process boots it
  SchemaAttempts,  \* SCHEMA_LOCK_ATTEMPTS
  MaxCalls,        \* bound: calls of one thread that find no pool
  MaxChanges       \* bound: times the database's condition changes or a process dies

NoThread == [process |-> "none"]

ASSUME PoolBounds ==
  /\ \A c \in Callers : c.store \in {"conversations", "users"} /\ c.boots \in BOOLEAN
  /\ NoThread \notin Callers
  /\ SchemaAttempts \in Nat \ {0} /\ MaxCalls \in Nat /\ MaxChanges \in Nat

VARIABLES
  process,     \* booting, serving, or dead
  pool,        \* whether a process's store has cached its pool
  at,          \* where a thread is in its call
  attempt,     \* which attempt at the schema it is on
  severed,     \* whether its connection is gone
  verdict,     \* PoolOpener._verdicts: a failure under OPEN_TIMEOUT_SECONDS old
  failures,    \* how many opens failed in that time
  schemaLock,  \* the thread whose session holds the advisory lock
  database,    \* up; a table locked by somebody's transaction; the schema rejected
  applied,     \* the stores whose DDL the database has
  poolCalls, changes

poolVars == <<process, pool, at, attempt, severed, verdict, failures, schemaLock, database,
              applied, poolCalls, changes>>

Processes == {c.process : c \in Callers}
PoolStores == {"conversations", "users"}

Sound == [up |-> TRUE, locked |-> FALSE, rejects |-> FALSE]

PoolInit ==
  /\ process = [p \in Processes |-> "booting"]
  /\ pool = [p \in Processes |-> {}]
  /\ at = [c \in Callers |-> "idle"] /\ attempt = [c \in Callers |-> 0]
  /\ severed = [c \in Callers |-> FALSE]
  /\ verdict = [p \in Processes |-> "none"] /\ failures = [p \in Processes |-> 0]
  /\ schemaLock = NoThread /\ database = Sound /\ applied = {}
  /\ poolCalls = [c \in Callers |-> 0] /\ changes = 0

-----------------------------------------------------------------------------
(* A call and how it ends.                                                  *)

HoldsVerdict(c) == at[c] \in {"connect", "lockSchema", "apply", "backoff", "strip"}
HoldsStore(c) == HoldsVerdict(c) \/ at[c] = "verdict"
Connected(c) == at[c] \in {"lockSchema", "apply"}

\* What dies with a process: its threads, its pools, and the session of the thread that held
\* the advisory lock.
Died(p) ==
  /\ process' = [process EXCEPT ![p] = "dead"]
  /\ pool' = [pool EXCEPT ![p] = {}]
  /\ at' = [c \in Callers |-> IF c.process = p THEN "idle" ELSE at[c]]
  /\ verdict' = [verdict EXCEPT ![p] = "none"] /\ failures' = [failures EXCEPT ![p] = 0]
  /\ schemaLock' = IF schemaLock.process = p THEN NoThread ELSE schemaLock

\* is_database_unavailable: an outage or a lock timeout is shared, a rejected schema is not.
Remembered(why) == why \in {"unreachable", "locked"}

\* open() raised: a boot that finds its schema rejected or locked out exits, any other call
\* raises, or is logged.  The thread's connection was closed, and its advisory lock with it.
OpenFails(c, why) ==
  IF c.boots /\ process[c.process] = "booting" /\ why \in {"rejected", "locked"}
  THEN Died(c.process)
  ELSE /\ at' = [at EXCEPT ![c] = "idle"]
       /\ verdict' = IF Remembered(why) THEN [verdict EXCEPT ![c.process] = why] ELSE verdict
       /\ failures' = IF why = "rejected" THEN failures
                      ELSE [failures EXCEPT ![c.process] = @ + 1]
       /\ schemaLock' = IF schemaLock = c THEN NoThread ELSE schemaLock
       /\ process' = IF c.boots THEN [process EXCEPT ![c.process] = "serving"] ELSE process
       /\ UNCHANGED pool

\* The call returns a pool, or raises what an earlier call found.
Returns(c) ==
  /\ at' = [at EXCEPT ![c] = "idle"]
  /\ process' = IF c.boots THEN [process EXCEPT ![c.process] = "serving"] ELSE process

\* _ensure_pool() without a pool: at boot open() of the conversation store calls it, then
\* requests do.
CallStore(c) ==
  /\ at[c] = "idle" /\ poolCalls[c] < MaxCalls /\ c.store \notin pool[c.process]
  /\ process[c.process] = IF c.boots THEN "booting" ELSE "serving"
  /\ at' = [at EXCEPT ![c] = "store"]
  /\ poolCalls' = [poolCalls EXCEPT ![c] = @ + 1]
  /\ UNCHANGED <<process, pool, attempt, severed, verdict, failures, schemaLock, database, applied,
                 changes>>

\* _pool_lock is the thread's: another may have opened the pool meanwhile.
EnterStore(c) ==
  /\ at[c] = "store"
  /\ \A d \in Callers : d.process = c.process /\ d.store = c.store => ~HoldsStore(d)
  /\ IF c.store \in pool[c.process]
     THEN Returns(c)
     ELSE at' = [at EXCEPT ![c] = "verdict"] /\ UNCHANGED process
  /\ UNCHANGED <<pool, attempt, severed, verdict, failures, schemaLock, database, applied, poolCalls,
                 changes>>

\* The verdict's lock is the thread's.  A fresh failure answers at once.
EnterVerdict(c) ==
  /\ at[c] = "verdict"
  /\ \A d \in Callers : d.process = c.process => ~HoldsVerdict(d)
  /\ IF verdict[c.process] # "none"
     THEN IF c.boots /\ verdict[c.process] = "locked"
          THEN Died(c.process)
          ELSE Returns(c) /\ UNCHANGED <<pool, verdict, failures, schemaLock>>
     ELSE /\ at' = [at EXCEPT ![c] = "connect"]
          /\ UNCHANGED <<process, pool, verdict, failures, schemaLock>>
  /\ UNCHANGED <<attempt, severed, database, applied, poolCalls, changes>>

ConnectPool(c) ==
  /\ at[c] = "connect"
  /\ IF database.up
     THEN /\ at' = [at EXCEPT ![c] = "lockSchema"]
          /\ attempt' = [attempt EXCEPT ![c] = 1] /\ severed' = [severed EXCEPT ![c] = FALSE]
          /\ UNCHANGED <<process, pool, verdict, failures, schemaLock>>
     ELSE OpenFails(c, "unreachable") /\ UNCHANGED <<attempt, severed>>
  /\ UNCHANGED <<database, applied, poolCalls, changes>>

-----------------------------------------------------------------------------
(* apply_boot_schema                                                        *)

\* lock_schema() waits for other processes' applies, without a bound of its own.
LockSchema(c) ==
  /\ at[c] = "lockSchema"
  /\ IF severed[c]
     THEN OpenFails(c, "unreachable")
     ELSE /\ schemaLock = NoThread /\ schemaLock' = c
          /\ at' = [at EXCEPT ![c] = "apply"]
          /\ UNCHANGED <<process, pool, verdict, failures>>
  /\ UNCHANGED <<attempt, severed, database, applied, poolCalls, changes>>

\* Done: the schema lock is released and the pool is cached, for the user store after its
\* legacy names are stripped.
Applied(c) ==
  /\ applied' = applied \cup {"conversations", c.store}
  /\ schemaLock' = NoThread
  /\ IF c.store = "users"
     THEN at' = [at EXCEPT ![c] = "strip"] /\ UNCHANGED <<process, pool>>
     ELSE Returns(c) /\ pool' = [pool EXCEPT ![c.process] = @ \cup {c.store}]
  /\ UNCHANGED <<attempt, verdict, failures>>

\* SCHEMA_LOCK_TIMEOUT_MS passed on somebody else's table lock: the attempt's connection is
\* closed, and the last attempt's failure is the call's.
LockTimeout(c) ==
  IF attempt[c] = SchemaAttempts THEN OpenFails(c, "locked") /\ UNCHANGED attempt
  ELSE /\ at' = [at EXCEPT ![c] = "backoff"] /\ attempt' = [attempt EXCEPT ![c] = @ + 1]
       /\ schemaLock' = NoThread
       /\ UNCHANGED <<process, pool, verdict, failures>>

Apply(c) ==
  /\ at[c] = "apply"
  /\ \/ severed[c] /\ OpenFails(c, "unreachable") /\ UNCHANGED <<attempt, applied>>
     \/ ~severed[c] /\ database.rejects /\ OpenFails(c, "rejected") /\ UNCHANGED <<attempt, applied>>
     \/ ~severed[c] /\ ~database.rejects /\ database.locked /\ LockTimeout(c) /\ UNCHANGED applied
     \/ ~severed[c] /\ ~database.rejects /\ ~database.locked /\ Applied(c)
  /\ UNCHANGED <<severed, database, poolCalls, changes>>

\* The next attempt borrows another connection.
NextAttempt(c) ==
  /\ at[c] = "backoff"
  /\ IF database.up
     THEN /\ at' = [at EXCEPT ![c] = "lockSchema"] /\ severed' = [severed EXCEPT ![c] = FALSE]
          /\ UNCHANGED <<process, pool, verdict, failures, schemaLock>>
     ELSE OpenFails(c, "unreachable") /\ UNCHANGED severed
  /\ UNCHANGED <<attempt, database, applied, poolCalls, changes>>

\* _strip_padded_usernames, a repair that only an outage stops
Strip(c) ==
  /\ at[c] = "strip"
  /\ IF database.up
     THEN /\ Returns(c) /\ pool' = [pool EXCEPT ![c.process] = @ \cup {c.store}]
          /\ UNCHANGED <<verdict, failures, schemaLock>>
     ELSE OpenFails(c, "unreachable")
  /\ UNCHANGED <<attempt, severed, database, applied, poolCalls, changes>>

-----------------------------------------------------------------------------
(* The rest of the world.                                                   *)

\* OPEN_TIMEOUT_SECONDS since the failure.
VerdictExpires(p) ==
  /\ failures[p] > 0
  /\ verdict' = [verdict EXCEPT ![p] = "none"] /\ failures' = [failures EXCEPT ![p] = 0]
  /\ UNCHANGED <<process, pool, at, attempt, severed, schemaLock, database, applied, poolCalls,
                 changes>>

\* The database goes, with every session on it, or comes back; a transaction takes or frees a
\* table; data that the schema trips over is written or repaired.
DatabaseChanges(field) ==
  /\ changes < MaxChanges /\ changes' = changes + 1
  /\ database' = [database EXCEPT ![field] = ~@]
  /\ IF field = "up" /\ database.up
     THEN severed' = [c \in Callers |-> severed[c] \/ Connected(c)] /\ schemaLock' = NoThread
     ELSE UNCHANGED <<severed, schemaLock>>
  /\ UNCHANGED <<process, pool, at, attempt, verdict, failures, applied, poolCalls>>

Crash(p) ==
  /\ process[p] # "dead" /\ changes < MaxChanges /\ changes' = changes + 1
  /\ Died(p)
  /\ UNCHANGED <<attempt, severed, database, applied, poolCalls>>

\* The pod is started again.
Boot(p) ==
  /\ process[p] = "dead"
  /\ process' = [process EXCEPT ![p] = "booting"]
  /\ UNCHANGED <<pool, at, attempt, severed, verdict, failures, schemaLock, database, applied,
                 poolCalls, changes>>

Opening(c) == \/ EnterStore(c) \/ EnterVerdict(c) \/ ConnectPool(c) \/ LockSchema(c) \/ Apply(c)
              \/ NextAttempt(c) \/ Strip(c)

PoolNext == \/ \E c \in Callers : CallStore(c) \/ Opening(c)
            \/ \E p \in Processes : VerdictExpires(p) \/ Crash(p) \/ Boot(p)
            \/ \E field \in {"up", "locked", "rejects"} : DatabaseChanges(field)

\* Threads run, and the waits of the code are bounded.  Nobody need call, and the database need
\* not come back.
PoolFairness == \A c \in Callers : WF_poolVars(Opening(c))

-----------------------------------------------------------------------------

\* A pool is cached only over a database that took the store's whole schema, and callers that
\* queued behind a failing open share its failure: one window costs one bounded open.
SchemaFirst ==
  \A p \in Processes : pool[p] \subseteq applied /\ failures[p] <= 1

\* The advisory lock is held by one live apply and by nothing that ended: not by an attempt that
\* timed out, lost its connection or died with its process.
LockIsLive ==
  \A c \in Callers : at[c] = "apply" /\ ~severed[c] <=> schemaLock = c

\* Every call is answered, with a pool or an error: the locks of the stores, of the verdict and of
\* the database are taken in one order, and no wait for a table goes on for ever.
CallsAnswered == <>[]\A c \in Callers : at[c] = "idle"

\* Opening the database is safe and ends.
PoolsOpen == [](SchemaFirst /\ LockIsLive) /\ CallsAnswered
=============================================================================

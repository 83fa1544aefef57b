------------------------------- MODULE FairTurns -------------------------------
(***************************************************************************)
(* The pool that parses and merges captions for every user (meetings.py:   *)
(* FairPool).  Each user's jobs wait in a queue of their own, and a free   *)
(* thread takes the next job of the user at the front of the line, who     *)
(* then goes to the back.  Callers on the event loop and workers that end  *)
(* a job all run _next; only what it does under the lock is atomic.        *)
(***************************************************************************)
EXTENDS Naturals, Sequences, FiniteSets

CONSTANTS
  PoolUsers,
  PoolThreads,  \* workers of the pool
  MaxJobs,      \* bound: jobs of one user
  MaxCancels    \* bound: callers cancelled

ASSUME TurnBounds == PoolThreads \in Nat \ {0} /\ MaxJobs \in Nat /\ MaxCancels \in Nat

VARIABLES
  line,     \* the users with waiting jobs, the next to be served first
  queueOf,  \* user -> their waiting jobs
  askedBy,  \* user -> jobs asked for so far
  running,  \* the jobs given to a thread; _busy counts them
  future,   \* job -> what its caller has: none, pending, settled, or cancelled
  nexts,    \* how many calls of _next are in progress
  passed,   \* waiting job -> how many jobs of each user started since it was asked for
  ahead,    \* waiting job -> how many of its own user's waited before it
  poolUp,   \* the executor takes jobs: the process is not exiting
  cancels

turnVars == <<line, queueOf, askedBy, running, future, nexts, passed, ahead, poolUp, cancels>>

TurnJobs == PoolUsers \X (1..MaxJobs)
Waiting(j) == \E i \in 1..Len(queueOf[j[1]]) : queueOf[j[1]][i] = j[2]
Unpassed == [u \in PoolUsers |-> 0]

TurnsInit ==
  /\ line = <<>> /\ queueOf = [u \in PoolUsers |-> <<>>] /\ askedBy = [u \in PoolUsers |-> 0]
  /\ running = {} /\ future = [j \in TurnJobs |-> "none"] /\ nexts = 0
  /\ passed = [j \in TurnJobs |-> Unpassed] /\ ahead = [j \in TurnJobs |-> 0]
  /\ poolUp = TRUE /\ cancels = 0

-----------------------------------------------------------------------------

\* run(): the job joins its user's queue, who joins the line if they are not in it.
Run(u) ==
  LET j == <<u, askedBy[u] + 1>> IN
  /\ askedBy[u] < MaxJobs /\ askedBy' = [askedBy EXCEPT ![u] = @ + 1]
  /\ queueOf' = [queueOf EXCEPT ![u] = Append(@, askedBy[u] + 1)]
  /\ line' = IF queueOf[u] = <<>> THEN Append(line, u) ELSE line
  /\ future' = [future EXCEPT ![j] = "pending"]
  /\ ahead' = [ahead EXCEPT ![j] = Len(queueOf[u])]
  /\ nexts' = nexts + 1
  /\ UNCHANGED <<running, passed, poolUp, cancels>>

\* The caller's task is cancelled: its socket closed.
CancelRun(j) ==
  /\ future[j] = "pending" /\ cancels < MaxCancels
  /\ future' = [future EXCEPT ![j] = "cancelled"] /\ cancels' = cancels + 1
  /\ UNCHANGED <<line, queueOf, askedBy, running, nexts, passed, ahead, poolUp>>

\* Mutant: a user with more jobs stays at the front.
LineAfterStaying(u) == IF Len(queueOf[u]) > 1 THEN line ELSE Tail(line)

\* The user served goes to the back of the line, or leaves it.
LineAfter(u) == IF Len(queueOf[u]) > 1 THEN Append(Tail(line), u) ELSE Tail(line)

\* A job of u starts: those that still wait have been passed once more.
Passes(u, j) ==
  passed' = [k \in TurnJobs |-> IF k = j THEN Unpassed
                            ELSE IF Waiting(k) THEN [passed[k] EXCEPT ![u] = @ + 1] ELSE passed[k]]

\* _next() with a thread free and a job waiting: the job is taken, and dropped if nobody waits
\* for it any more, or given to the thread; an executor that is shut down fails it.
TakeTurn ==
  LET u == Head(line)
      j == <<u, Head(queueOf[u])>>
  IN /\ nexts > 0 /\ line # <<>> /\ Cardinality(running) < PoolThreads
     /\ line' = LineAfter(u) /\ queueOf' = [queueOf EXCEPT ![u] = Tail(@)]
     /\ ahead' = [ahead EXCEPT ![j] = 0]
     /\ IF future[j] = "cancelled"
        THEN passed' = [passed EXCEPT ![j] = Unpassed] /\ UNCHANGED <<running, future>>
        ELSE /\ Passes(u, j)
             /\ running' = IF poolUp THEN running \cup {j} ELSE running
             /\ future' = IF poolUp THEN future ELSE [future EXCEPT ![j] = "settled"]
     /\ UNCHANGED <<askedBy, nexts, poolUp, cancels>>

\* _next() with nothing to do returns.
NextReturns ==
  /\ nexts > 0 /\ (line = <<>> \/ Cardinality(running) >= PoolThreads)
  /\ nexts' = nexts - 1
  /\ UNCHANGED <<line, queueOf, askedBy, running, future, passed, ahead, poolUp, cancels>>

\* _call(): the work returned or raised, a caller that still waits has it, and the thread is free
\* for the next job.
JobEnds(j) ==
  /\ j \in running /\ running' = running \ {j}
  /\ future' = IF future[j] = "pending" THEN [future EXCEPT ![j] = "settled"] ELSE future
  /\ nexts' = nexts + 1
  /\ UNCHANGED <<line, queueOf, askedBy, passed, ahead, poolUp, cancels>>

\* The process exits.
PoolShutDown ==
  /\ poolUp /\ poolUp' = FALSE
  /\ UNCHANGED <<line, queueOf, askedBy, running, future, nexts, passed, ahead, cancels>>

TurnsNext ==
  \/ \E u \in PoolUsers : Run(u)
  \/ \E j \in TurnJobs : CancelRun(j) \/ JobEnds(j)
  \/ TakeTurn \/ NextReturns \/ PoolShutDown

\* _next() goes on and the work of a job ends.
TurnsFairness == /\ WF_turnVars(TakeTurn) /\ WF_turnVars(NextReturns)
                 /\ \A j \in TurnJobs : WF_turnVars(JobEnds(j))

-----------------------------------------------------------------------------

\* A waiting job is passed by at most one job of each other user, and by one more for each job its
\* own user had before it: nobody's queue is long at another's cost.
NobodyPassedOver ==
  \A j \in TurnJobs : Waiting(j) => \A v \in PoolUsers \ {j[1]} : passed[j][v] <= ahead[j] + 1

\* No thread is left idle while a job waits.
NoThreadIdles ==
  line # <<>> /\ Cardinality(running) < PoolThreads => nexts > 0

\* Every caller has an answer, the error of a pool that is shut down included.
RunsSettle == <>[]\A j \in TurnJobs : future[j] # "pending"

\* Users take turns, and every job is done.
TurnsAreFair == [](NobodyPassedOver /\ NoThreadIdles) /\ RunsSettle
=============================================================================

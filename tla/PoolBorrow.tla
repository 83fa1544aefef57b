------------------------------ MODULE PoolBorrow ------------------------------
(***************************************************************************)
(* Borrowing from the guarded pool (postgres.py: _guard, _Watchdog,        *)
(* check_connection).  A thread takes an idle connection, checks it, works *)
(* on it under a watchdog that severs it after QUERY_TIMEOUT_SECONDS, and  *)
(* puts it back, where the next thread finds it.  The server may drop      *)
(* every connection, or hang: then nothing it was asked ever returns.      *)
(*                                                                         *)
(* Times are abstract: a timer that runs may fire at any step, and a wait  *)
(* for a connection may run out at any step (the breaker `unreachable`,    *)
(* which shortens it, is not modelled).                                    *)
(***************************************************************************)
EXTENDS Naturals, FiniteSets

CONSTANTS
  Borrowers,  \* threads
  PoolConns,  \* connections of the pool
  Nobody,
  MaxBorrows,    \* bound: borrows of one thread
  MaxPoolUpsets  \* bound: times the server drops, hangs or recovers

ASSUME BorrowBounds ==
  /\ Borrowers \cap PoolConns = {} /\ Nobody \notin Borrowers \cup PoolConns
  /\ MaxBorrows \in Nat /\ MaxPoolUpsets \in Nat

VARIABLES
  step,          \* where a thread is: idle, waits, checks, works, disarmed
  connOf,        \* the connection a thread has, or Nobody
  idle,          \* the pool's idle connections
  drained,       \* those that pool.check() has taken out to check
  missing,       \* those closed and not replaced yet
  shutByServer,  \* the connections that the server shut
  cutOff,        \* the borrows whose connection a watchdog shut
  armed,         \* the borrows whose watchdog's timer runs: not done
  firing,        \* the watchdogs that found themselves not done, under their lock
  server,        \* up, down or hung
  borrows, upsets

borrowVars == <<step, connOf, idle, drained, missing, shutByServer, cutOff, armed, firing, server, borrows, upsets>>

BorrowInit ==
  /\ step = [b \in Borrowers |-> "idle"] /\ connOf = [b \in Borrowers |-> Nobody]
  /\ idle = PoolConns /\ drained = {} /\ missing = {}
  /\ shutByServer = {} /\ cutOff = {} /\ armed = {} /\ firing = {}
  /\ server = "up"
  /\ borrows = [b \in Borrowers |-> 0] /\ upsets = 0

\* A thread's current borrow, of its connection.
BorrowOf(b) == [by |-> b, n |-> borrows[b], conn |-> connOf[b]]

Severed(c) == \E w \in cutOff : w.conn = c
Shut(c) == c \in shutByServer \/ Severed(c)
Alive(c) == server = "up" /\ ~Shut(c)

-----------------------------------------------------------------------------
(* getconn                                                                  *)

Borrow(b) ==
  /\ step[b] = "idle" /\ borrows[b] < MaxBorrows
  /\ step' = [step EXCEPT ![b] = "waits"] /\ borrows' = [borrows EXCEPT ![b] = @ + 1]
  /\ UNCHANGED <<connOf, idle, drained, missing, shutByServer, cutOff, armed, firing, server, upsets>>

TakeConn(b, c) ==
  /\ step[b] = "waits" /\ c \in idle
  /\ step' = [step EXCEPT ![b] = "checks"]
  /\ connOf' = [connOf EXCEPT ![b] = c] /\ idle' = idle \ {c}
  /\ UNCHANGED <<drained, missing, shutByServer, cutOff, armed, firing, server, borrows, upsets>>

\* PoolTimeout
GiveUpWaiting(b) ==
  /\ step[b] = "waits"
  /\ step' = [step EXCEPT ![b] = "idle"]
  /\ UNCHANGED <<connOf, idle, drained, missing, shutByServer, cutOff, armed, firing, server, borrows, upsets>>

\* The check passed: the connection is lent, under a watchdog.
CheckPasses(b) ==
  /\ step[b] = "checks" /\ Alive(connOf[b])
  /\ step' = [step EXCEPT ![b] = "works"] /\ armed' = armed \cup {BorrowOf(b)}
  /\ UNCHANGED <<connOf, idle, drained, missing, shutByServer, cutOff, firing, server, borrows, upsets>>

\* The check failed: the connection is discarded.  If it failed fast the others are suspect too,
\* and all idle ones are taken out to be checked; one that ran into its bound means a hung
\* server, where more checks would only cost more time.
CheckFails(b) ==
  /\ step[b] = "checks" /\ ~Alive(connOf[b])
  /\ step' = [step EXCEPT ![b] = "waits"]
  /\ missing' = missing \cup {connOf[b]} /\ connOf' = [connOf EXCEPT ![b] = Nobody]
  /\ IF server = "hung" /\ ~Shut(connOf[b])
     THEN UNCHANGED <<idle, drained>>
     ELSE drained' = drained \cup idle /\ idle' = {}
  /\ UNCHANGED <<shutByServer, cutOff, armed, firing, server, borrows, upsets>>

\* A connection of the drain is put back if it passes, and discarded otherwise.
DrainCheck(c) ==
  /\ c \in drained /\ drained' = drained \ {c}
  /\ IF Alive(c) THEN idle' = idle \cup {c} /\ UNCHANGED missing
                 ELSE missing' = missing \cup {c} /\ UNCHANGED idle
  /\ UNCHANGED <<step, connOf, shutByServer, cutOff, armed, firing, server, borrows, upsets>>

\* The pool's worker replaces a discarded connection, once the server lets it.
Replace(c) ==
  /\ c \in missing /\ server = "up"
  /\ missing' = missing \ {c} /\ idle' = idle \cup {c}
  /\ shutByServer' = shutByServer \ {c} /\ cutOff' = {w \in cutOff : w.conn # c}
  /\ UNCHANGED <<step, connOf, drained, armed, firing, server, borrows, upsets>>

-----------------------------------------------------------------------------
(* The watchdog, and putconn                                                *)

\* The timer ran out.  From here to the severing it holds the watchdog's lock.
WatchdogFires(w) ==
  /\ w \in armed
  /\ armed' = armed \ {w} /\ firing' = firing \cup {w}
  /\ UNCHANGED <<step, connOf, idle, drained, missing, shutByServer, cutOff, server, borrows, upsets>>

Sever(w) ==
  /\ w \in firing /\ firing' = firing \ {w}
  /\ cutOff' = cutOff \cup {w}
  /\ UNCHANGED <<step, connOf, idle, drained, missing, shutByServer, armed, server, borrows, upsets>>

\* Mutant: disarm() only cancels the timer.
DisarmsAtOnce(w) == TRUE

\* disarm() waits for the watchdog's lock.
MayDisarm(w) == w \notin firing

\* The work is over: the query returned, or failed because the connection is gone.  On a hung
\* server it does neither.
Disarm(b) ==
  /\ step[b] = "works" /\ (server # "hung" \/ Shut(connOf[b]))
  /\ MayDisarm(BorrowOf(b))
  /\ armed' = armed \ {BorrowOf(b)}
  /\ step' = [step EXCEPT ![b] = "disarmed"]
  /\ UNCHANGED <<connOf, idle, drained, missing, shutByServer, cutOff, firing, server, borrows, upsets>>

\* The pool keeps a connection that it does not know to be broken: one that lost its socket after
\* its last query looks like any other.
PutBack(b) ==
  /\ step[b] = "disarmed" /\ step' = [step EXCEPT ![b] = "idle"]
  /\ connOf' = [connOf EXCEPT ![b] = Nobody]
  /\ \/ idle' = idle \cup {connOf[b]} /\ UNCHANGED missing
     \/ Shut(connOf[b]) /\ missing' = missing \cup {connOf[b]} /\ UNCHANGED idle
  /\ UNCHANGED <<drained, shutByServer, cutOff, armed, firing, server, borrows, upsets>>

-----------------------------------------------------------------------------

\* The server goes, with every connection, stops answering, or is well again.
ServerUpset(to) ==
  /\ upsets < MaxPoolUpsets /\ upsets' = upsets + 1
  /\ to # server /\ server' = to
  /\ shutByServer' = IF to = "down" THEN PoolConns \ missing ELSE shutByServer
  /\ UNCHANGED <<step, connOf, idle, drained, missing, cutOff, armed, firing, borrows>>

BorrowStep(b) == CheckPasses(b) \/ CheckFails(b) \/ Disarm(b) \/ PutBack(b)

BorrowNext ==
  \/ \E b \in Borrowers : Borrow(b) \/ GiveUpWaiting(b) \/ BorrowStep(b) \/ \E c \in PoolConns : TakeConn(b, c)
  \/ \E c \in PoolConns : DrainCheck(c) \/ Replace(c)
  \/ \E w \in armed : WatchdogFires(w)
  \/ \E w \in firing : Sever(w)
  \/ \E to \in {"up", "down", "hung"} : ServerUpset(to)

\* Threads run, timers run out and the pool's waits are bounded.  The server need not recover.
BorrowFairness ==
  /\ \A b \in Borrowers : WF_borrowVars(BorrowStep(b)) /\ WF_borrowVars(GiveUpWaiting(b))
  /\ WF_borrowVars(\E w \in armed : WatchdogFires(w)) /\ WF_borrowVars(\E w \in firing : Sever(w))

-----------------------------------------------------------------------------

\* A connection is in one pair of hands.
OneHolder ==
  /\ \A b, d \in Borrowers : connOf[b] # Nobody /\ b # d => connOf[b] # connOf[d]
  /\ \A b \in Borrowers : connOf[b] \notin idle \cup drained \cup missing

\* One that a watchdog severed is never worked on by anybody but the borrow it was severed for: a
\* query that ends as its time runs out costs the next borrower nothing.
SeveredForItself ==
  \A b \in Borrowers : step[b] \in {"works", "disarmed"} =>
    \A w \in cutOff : w.conn = connOf[b] => w = BorrowOf(b)

\* No thread is trapped: a borrow ends even on a server that hangs for good.
BorrowsEnd == <>[]\A b \in Borrowers : step[b] = "idle"

\* Borrows are exclusive, severed for themselves alone, and bounded.
BorrowsBounded == [](OneHolder /\ SeveredForItself) /\ BorrowsEnd
=============================================================================

------------------------ MODULE SocketSessionsProofs ------------------------
(***************************************************************************)
(* Proofs about SocketSessions: whatever the number of sockets, starts,     *)
(* read faults and deleted recordings, every session has one conversation   *)
(* to itself and one that may feed, park or end it (SessionsAreOwned), and  *)
(* a deleted account keeps neither a recording nor a socket                 *)
(* (RevocationIsSafe).                                                      *)
(*                                                                         *)
(* Neither is inductive.  SocketInv adds what the handlers rely on across   *)
(* their awaits: the start lock of an id is held from the registry lookup   *)
(* until the session is registered, so nothing else is registered under     *)
(* the id meanwhile; a client learns an id only from a session that has     *)
(* begun; a handler bound to a session has left its revoke hook there and,  *)
(* unless displaced, is whom the session sends to.  One lemma per step of   *)
(* the loop follows, with one leaf per part of SocketInv, then the handler  *)
(* actions that are made of such steps.                                     *)
(***************************************************************************)
EXTENDS SocketSessions, TLAPS

NotBegun(s) == phase[s] \in {"none", "starting"}
Locking == {"closeWarm", "rebind", "hello", "row", "closeCold", "starting", "failed"}

\* Sessions are made in order; an id is the number of the Session that minted it, which had told
\* it to its client before another one reopened it.
Ids ==
  /\ \A s \in Sessions : phase[s] = "none" <=> s > made
  /\ \A s \in Sessions : phase[s] # "none" =>
       /\ conv[s] \in Sessions /\ conv[conv[s]] = conv[s] /\ phase[conv[s]] # "none"
       /\ conv[s] = s \/ ~NotBegun(conv[s])
  /\ \A s \in Sessions : phase[s] = "none" => conv[s] = None
  /\ \A w \in Sockets : want[w] # None => conv[want[w]] = want[w] /\ ~NotBegun(want[w])

\* A start lock is held by the handler that resumes its id, from the lookup to the end of the start.
Locks ==
  /\ \A w \in Sockets, c \in Sessions : lock[c] = w => want[w] = c /\ pc[w] \in Locking
  /\ \A w \in Sockets : pc[w] \in Locking /\ want[w] # None => lock[want[w]] = w
  /\ \A w \in Sockets : pc[w] \in {"lock", "closeWarm", "rebind", "hello", "row"} => want[w] # None

\* A Session that is starting is its handler's; nobody else knows it.
Starts ==
  /\ \A w \in Sockets : pc[w] = "starting" =>
       /\ target[w] # None /\ phase[target[w]] = "starting" /\ send[target[w]] = w
       /\ conv[target[w]] = IF want[w] = None THEN target[w] ELSE want[w]
  /\ \A s \in Sessions : phase[s] = "starting" => \E w \in Sockets : pc[w] = "starting" /\ target[w] = s
  /\ \A s \in Sessions : NotBegun(s) => ~detached[s] /\ ~revoked[s] /\ s \notin revoking
  /\ \A w \in Sockets : sess[w] # None => ~NotBegun(sess[w])
  /\ \A w \in Sockets : pc[w] = "failed" => target[w] # None /\ ~NotBegun(target[w])

\* What a handler knows of its own session across its awaits.
OwnSession ==
  /\ \A w \in Sockets : pc[w] \in {"closeWarm", "closeCold", "ending", "revoking"} =>
                          sess[w] # None /\ IsClosed(sess[w])
  /\ \A w \in Sockets : pc[w] \in {"starting", "failed"} => sess[w] = None \/ IsClosed(sess[w])
  /\ \A w \in Sockets : pc[w] \in {"rebind", "hello"} => sess[w] = target[w]
  /\ \A w \in Sockets : pc[w] = "recheck" => sess[w] # None
  /\ \A w \in Sockets : pc[w] = "off" => sess[w] = None

\* ... and of the one it resumes: nobody else can register or resume that id meanwhile.
Resumes ==
  /\ \A w \in Sockets : pc[w] \in {"closeWarm", "rebind", "hello"} =>
       /\ target[w] # None /\ ~NotBegun(target[w]) /\ conv[target[w]] = want[w]
       /\ active[want[w]] \in {None, target[w]}
  /\ \A w \in Sockets : pc[w] = "closeWarm" => target[w] # sess[w]
  /\ \A w \in Sockets : pc[w] = "rebind" => send[target[w]] = Nobody /\ ~detached[target[w]]
  /\ \A w \in Sockets : pc[w] \in {"row", "closeCold", "starting", "failed"} /\ want[w] # None =>
                          active[want[w]] = None

\* The registry holds live sessions under their ids.
Registry ==
  /\ \A c \in Sessions : active[c] # None =>
       conv[active[c]] = c /\ phase[active[c]] = "live" /\ active[c] \notin revoking
  /\ account => revoking = {}
  /\ \A s \in revoking : ~NotBegun(s)

\* A handler bound to a session has left its hook there and, unless displaced, is whom it sends to.
Bound(w, s) == Running(w) /\ sess[w] = s /\ pc[w] # "rebind"
Bindings ==
  /\ \A w \in Sockets, s \in Sessions : Bound(w, s) => w \in hooks[s]
  /\ \A w \in Sockets, s \in Sessions : Bound(w, s) /\ phase[s] = "live" /\ ~displaced[w] => send[s] = w
  /\ \A s \in Sessions : detached[s] /\ phase[s] = "live" => send[s] = Nobody

\* A revoked session is closed; once nobody is revoking it any more it has ended, and the handlers
\* bound to it were told to close.
InRevocation(s) == s \in revoking \/ \E v \in Sockets : pc[v] = "revoking" /\ sess[v] = s
Revocations ==
  /\ \A s \in Sessions : revoked[s] => IsClosed(s)
  /\ \A s \in Sessions : revoked[s] /\ ~InRevocation(s) =>
       phase[s] = "ended" /\ \A w \in Sockets : Bound(w, s) => dropping[w]

\* The inductive invariant.
SocketInv ==
  /\ TypeOK /\ Ids /\ Locks /\ Starts /\ OwnSession /\ Resumes /\ Registry /\ Bindings /\ Revocations
  /\ LiveIsRegistered /\ LiveHasOwner /\ GoneMeansClosing

\* 0 numbers no Session.
LEMMA NoneIsNoSession == None \notin Sessions
BY SocketsAssumption DEF None, Sessions

\* A connection begins unbound.
LEMMA Connected ==
  ASSUME SocketInv, NEW w \in Sockets, Connect(w)
  PROVE  SocketInv'
<1> USE SocketsAssumption, NoneIsNoSession DEF SocketInv, TypeOK, Pc, OrNone, NotBegun, Running,
    IsClosed, Bound, Locking, handlerVars, sessionVars, sharedVars, countVars, Connect
<1>1. TypeOK'
  OBVIOUS
<1>2. Ids'
  BY DEF Ids
<1>3. Locks'
  BY DEF Locks
<1>4. Starts'
  BY DEF Starts
<1>5. OwnSession'
  BY DEF OwnSession
<1>6. Resumes'
  BY DEF Resumes
<1>7. Registry'
  BY DEF Registry
<1>8. Bindings'
  BY DEF Bindings, OwnSession
<1>9. Revocations'
  BY DEF Revocations, OwnSession, InRevocation
<1>10. LiveIsRegistered'
  BY DEF LiveIsRegistered
<1>11. LiveHasOwner'
  BY DEF LiveHasOwner
<1>12. GoneMeansClosing'
  BY DEF GoneMeansClosing
<1> QED BY <1>1, <1>2, <1>3, <1>4, <1>5, <1>6, <1>7, <1>8, <1>9, <1>10, <1>11, <1>12

\* A lost transport changes nothing the session is owned by.
LEMMA Dropped ==
  ASSUME SocketInv, NEW w \in Sockets, Drop(w)
  PROVE  SocketInv'
<1> USE SocketsAssumption, NoneIsNoSession DEF SocketInv, TypeOK, Pc, OrNone, NotBegun, Running,
    IsClosed, Bound, Locking, handlerVars, sessionVars, sharedVars, countVars, Drop
<1>1. TypeOK'
  OBVIOUS
<1>2. Ids'
  BY DEF Ids
<1>3. Locks'
  BY DEF Locks
<1>4. Starts'
  BY DEF Starts
<1>5. OwnSession'
  BY DEF OwnSession
<1>6. Resumes'
  BY DEF Resumes
<1>7. Registry'
  BY DEF Registry
<1>8. Bindings'
  BY DEF Bindings
<1>9. Revocations'
  BY DEF Revocations, InRevocation
<1>10. LiveIsRegistered'
  BY DEF LiveIsRegistered
<1>11. LiveHasOwner'
  BY DEF LiveHasOwner
<1>12. GoneMeansClosing'
  BY DEF GoneMeansClosing
<1> QED BY <1>1, <1>2, <1>3, <1>4, <1>5, <1>6, <1>7, <1>8, <1>9, <1>10, <1>11, <1>12

\* A handler leaves, and parks the session if that still sends to it.
LEMMA Exited ==
  ASSUME SocketInv, NEW w \in Sockets, pc[w] \in {"idle", "check", "lock", "row", "hello"}, ExitAsIs(w)
  PROVE  SocketInv'
<1> USE SocketsAssumption, NoneIsNoSession DEF SocketInv, TypeOK, Pc, OrNone, NotBegun, Running,
    IsClosed, Bound, Locking, handlerVars, sessionVars, sharedVars, countVars, ExitAsIs, Exit,
    StillOwns, Released
<1>1. TypeOK'
  <2>1. detached' \in [Sessions -> BOOLEAN]
    BY Zenon
  <2>2. send' \in [Sessions -> Sockets \cup {Nobody}] /\ hooks' \in [Sessions -> SUBSET Sockets]
    OBVIOUS
  <2>3. pc' \in [Sockets -> Pc] /\ lock' \in [Sessions -> Sockets \cup {Nobody}]
    OBVIOUS
  <2> QED BY <2>1, <2>2, <2>3, SMTT(30)
<1>2. Ids'
  BY DEF Ids
<1>3. Locks'
  BY DEF Locks
<1>4. Starts'
  BY DEF Starts
<1>5. OwnSession'
  BY DEF OwnSession
<1>6. Resumes'
  BY DEF Resumes
<1>7. Registry'
  BY DEF Registry
<1>8. Bindings'
  BY SMTT(40) DEF Bindings
<1>9. Revocations'
  BY DEF Revocations, InRevocation
<1>10. LiveIsRegistered'
  BY DEF LiveIsRegistered
<1>11. LiveHasOwner'
  <2> SUFFICES ASSUME NEW s \in Sessions, phase[s] = "live", ~detached'[s], s \notin revoking
               PROVE  \E v \in Sockets : v # w /\ Running(v) /\ sess[v] = s /\ (send'[s] = v \/ pc[v] = "rebind")
    BY DEF LiveHasOwner
  <2>1. ~detached[s] /\ send'[s] = send[s] /\ (sess[w] = s => send[s] # w)
    <3>1. sess[w] = s => send[s] # w
      OBVIOUS
    <3>2. ~detached[s] /\ send'[s] = send[s]
      BY <3>1
    <3> QED BY <3>1, <3>2
  <2>2. PICK v \in Sockets : Running(v) /\ sess[v] = s /\ (send[s] = v \/ pc[v] = "rebind")
    BY <2>1 DEF LiveHasOwner
  <2>3. v # w
    BY <2>1, <2>2
  <2> QED BY <2>1, <2>2, <2>3
<1>12. GoneMeansClosing'
  BY DEF GoneMeansClosing
<1> QED BY <1>1, <1>2, <1>3, <1>4, <1>5, <1>6, <1>7, <1>8, <1>9, <1>10, <1>11, <1>12

\* A start is asked for under an id that a client knows.
LEMMA Asked ==
  ASSUME SocketInv, NEW w \in Sockets, NEW id \in Known \cup {None}, StartFrame(w, id)
  PROVE  SocketInv'
<1> USE SocketsAssumption, NoneIsNoSession DEF SocketInv, TypeOK, Pc, OrNone, NotBegun, Running,
    IsClosed, Bound, Locking, handlerVars, sessionVars, sharedVars, countVars, StartFrame,
    Known, Listens
<1>1. TypeOK'
  OBVIOUS
<1>2. Ids'
  BY DEF Ids
<1>3. Locks'
  BY DEF Locks
<1>4. Starts'
  BY DEF Starts
<1>5. OwnSession'
  BY DEF OwnSession
<1>6. Resumes'
  BY DEF Resumes
<1>7. Registry'
  BY DEF Registry
<1>8. Bindings'
  BY DEF Bindings
<1>9. Revocations'
  BY DEF Revocations, InRevocation
<1>10. LiveIsRegistered'
  BY DEF LiveIsRegistered
<1>11. LiveHasOwner'
  BY DEF LiveHasOwner
<1>12. GoneMeansClosing'
  BY DEF GoneMeansClosing
<1> QED BY <1>1, <1>2, <1>3, <1>4, <1>5, <1>6, <1>7, <1>8, <1>9, <1>10, <1>11, <1>12

\* A handler goes back to its loop, with no start of its own in hand.
LEMMA Returned ==
  ASSUME SocketInv, NEW w \in Sockets, pc[w] \in {"check", "row", "hello", "failed", "recheck"}, BackToLoop(w),
         readFaults' \in 0..MaxReadFaults, readFaults' >= readFaults,
         pc[w] = "recheck" => account \/ readFaults' # 0
  PROVE  SocketInv'
<1> USE SocketsAssumption, NoneIsNoSession DEF SocketInv, TypeOK, Pc, OrNone, NotBegun, Running,
    IsClosed, Bound, Locking, handlerVars, sessionVars, sharedVars, countVars, BackToLoop,
    Released
<1>1. TypeOK'
  OBVIOUS
<1>2. Ids'
  BY DEF Ids
<1>3. Locks'
  BY DEF Locks
<1>4. Starts'
  BY DEF Starts
<1>5. OwnSession'
  BY DEF OwnSession
<1>6. Resumes'
  BY DEF Resumes
<1>7. Registry'
  BY DEF Registry
<1>8. Bindings'
  BY DEF Bindings
<1>9. Revocations'
  BY DEF Revocations, InRevocation
<1>10. LiveIsRegistered'
  BY DEF LiveIsRegistered
<1>11. LiveHasOwner'
  BY DEF LiveHasOwner
<1>12. GoneMeansClosing'
  BY DEF GoneMeansClosing
<1> QED BY <1>1, <1>2, <1>3, <1>4, <1>5, <1>6, <1>7, <1>8, <1>9, <1>10, <1>11, <1>12

\* The account is gone before the handler had a session.
LEMMA Refused ==
  ASSUME SocketInv, NEW w \in Sockets, pc[w] = "check", ~account, sess[w] = None, Exit(w, None, Nobody, "none"),
         dropping' = [dropping EXCEPT ![w] = TRUE],
         UNCHANGED <<up, displaced, sess, want, target, phase, active, revoked, conv, rows, account, revoking, countVars>>
  PROVE  SocketInv'
<1> USE SocketsAssumption, NoneIsNoSession DEF SocketInv, TypeOK, Pc, OrNone, NotBegun, Running,
    IsClosed, Bound, Locking, handlerVars, sessionVars, sharedVars, countVars, Exit, Released
<1>1. TypeOK'
  OBVIOUS
<1>2. Ids'
  BY DEF Ids
<1>3. Locks'
  BY DEF Locks
<1>4. Starts'
  BY DEF Starts
<1>5. OwnSession'
  BY DEF OwnSession
<1>6. Resumes'
  BY DEF Resumes
<1>7. Registry'
  BY DEF Registry
<1>8. Bindings'
  BY DEF Bindings
<1>9. Revocations'
  BY DEF Revocations, InRevocation
<1>10. LiveIsRegistered'
  BY DEF LiveIsRegistered
<1>11. LiveHasOwner'
  BY DEF LiveHasOwner
<1>12. GoneMeansClosing'
  BY DEF GoneMeansClosing
<1> QED BY <1>1, <1>2, <1>3, <1>4, <1>5, <1>6, <1>7, <1>8, <1>9, <1>10, <1>11, <1>12

\* The account is gone: the handler revokes its session, from either of its checks.
LEMMA Revoked ==
  ASSUME SocketInv, NEW w \in Sockets, pc[w] \in {"check", "recheck"}, sess[w] # None,
         UnregisterAndClose(sess[w]), revoked' = [revoked EXCEPT ![sess[w]] = TRUE],
         pc' = [pc EXCEPT ![w] = "revoking"],
         UNCHANGED <<up, displaced, dropping, sess, want, target, conv, send, detached, hooks, lock, rows,
                     account, revoking, countVars>>
  PROVE  SocketInv'
<1> USE SocketsAssumption, NoneIsNoSession DEF SocketInv, TypeOK, Pc, OrNone, NotBegun, Running,
    IsClosed, Bound, Locking, handlerVars, sessionVars, sharedVars, countVars,
    UnregisterAndClose, Unregistered
<1>1. TypeOK'
  <2>1. active' \in [Sessions -> OrNone]
    OBVIOUS
  <2>2. phase' \in [Sessions -> {"none", "starting", "live", "closing", "ended"}]
    OBVIOUS
  <2> QED BY <2>1, <2>2, SMTT(30)
<1>2. Ids'
  BY DEF Ids
<1>3. Locks'
  BY DEF Locks
<1>4. Starts'
  BY DEF Starts
<1>5. OwnSession'
  BY DEF OwnSession, Starts
<1>6. Resumes'
  BY DEF Resumes
<1>7. Registry'
  BY DEF Registry
<1>8. Bindings'
  BY DEF Bindings
<1>9. Revocations'
  BY DEF Revocations, Starts, InRevocation
<1>10. LiveIsRegistered'
  BY DEF LiveIsRegistered
<1>11. LiveHasOwner'
  BY DEF LiveHasOwner
<1>12. GoneMeansClosing'
  BY DEF GoneMeansClosing
<1> QED BY <1>1, <1>2, <1>3, <1>4, <1>5, <1>6, <1>7, <1>8, <1>9, <1>10, <1>11, <1>12

\* The id's lock is waited for.
LEMMA Waited ==
  ASSUME SocketInv, NEW w \in Sockets, pc[w] = "check", want[w] # None, pc' = [pc EXCEPT ![w] = "lock"],
         UNCHANGED <<up, displaced, dropping, sess, want, target, sessionVars, sharedVars, countVars>>
  PROVE  SocketInv'
<1> USE SocketsAssumption, NoneIsNoSession DEF SocketInv, TypeOK, Pc, OrNone, NotBegun, Running,
    IsClosed, Bound, Locking, handlerVars, sessionVars, sharedVars, countVars
<1>1. TypeOK'
  OBVIOUS
<1>2. Ids'
  BY DEF Ids
<1>3. Locks'
  BY DEF Locks
<1>4. Starts'
  BY DEF Starts
<1>5. OwnSession'
  BY DEF OwnSession
<1>6. Resumes'
  BY DEF Resumes
<1>7. Registry'
  BY DEF Registry
<1>8. Bindings'
  BY DEF Bindings
<1>9. Revocations'
  BY DEF Revocations, InRevocation
<1>10. LiveIsRegistered'
  BY DEF LiveIsRegistered
<1>11. LiveHasOwner'
  BY DEF LiveHasOwner
<1>12. GoneMeansClosing'
  BY DEF GoneMeansClosing
<1> QED BY <1>1, <1>2, <1>3, <1>4, <1>5, <1>6, <1>7, <1>8, <1>9, <1>10, <1>11, <1>12

\* A Session is made: under a number nobody knows, or the id whose lock the handler holds.
LEMMA Made ==
  ASSUME SocketInv, NEW w \in Sockets, NEW id \in OrNone, pc[w] \in {"check", "row", "closeCold", "failed"},
         id # None => id = want[w] /\ pc[w] \in {"row", "closeCold"},
         sess[w] = None \/ IsClosed(sess[w]), NewSession(w, id),
         want' = [want EXCEPT ![w] = id],
         lock' = IF id = None THEN Released(w) ELSE [lock EXCEPT ![id] = w],
         UNCHANGED <<up, displaced, dropping, sess, detached, hooks, revoked, rows, account, revoking,
                     starts, readFaults, recordingDeletes>>
  PROVE  SocketInv'
<1> USE SocketsAssumption, NoneIsNoSession DEF SocketInv, TypeOK, Pc, OrNone, NotBegun, Running,
    IsClosed, Bound, Locking, handlerVars, sessionVars, sharedVars, countVars, NewSession,
    Released, Sessions, None
<1>1. TypeOK'
  OBVIOUS
<1>2. Ids'
  BY DEF Ids
<1>3. Locks'
  BY DEF Locks
<1>4. Starts'
  BY DEF Starts, Ids
<1>5. OwnSession'
  BY DEF OwnSession, Ids
<1>6. Resumes'
  BY DEF Resumes, Ids
<1>7. Registry'
  BY DEF Registry, Ids
<1>8. Bindings'
  BY DEF Bindings
<1>9. Revocations'
  BY DEF Revocations, InRevocation, Ids
<1>10. LiveIsRegistered'
  BY DEF LiveIsRegistered
<1>11. LiveHasOwner'
  BY DEF LiveHasOwner
<1>12. GoneMeansClosing'
  BY DEF GoneMeansClosing
<1> QED BY <1>1, <1>2, <1>3, <1>4, <1>5, <1>6, <1>7, <1>8, <1>9, <1>10, <1>11, <1>12

\* The handler's own session is closed first.
LEMMA ClosesFirst ==
  ASSUME SocketInv, NEW w \in Sockets, NEW id \in OrNone, pc[w] \in {"check", "row"},
         id # None => id = want[w] /\ pc[w] = "row",
         sess[w] # None, UnregisterAndClose(sess[w]), pc' = [pc EXCEPT ![w] = "closeCold"],
         want' = [want EXCEPT ![w] = id],
         lock' = IF id = None THEN Released(w) ELSE [lock EXCEPT ![id] = w],
         UNCHANGED <<up, displaced, dropping, sess, target, conv, send, detached, hooks, revoked, rows,
                     account, revoking, countVars>>
  PROVE  SocketInv'
<1> USE SocketsAssumption, NoneIsNoSession DEF SocketInv, TypeOK, Pc, OrNone, NotBegun, Running,
    IsClosed, Bound, Locking, handlerVars, sessionVars, sharedVars, countVars,
    UnregisterAndClose, Unregistered, Released
<1>1. TypeOK'
  <2>1. active' \in [Sessions -> OrNone]
    OBVIOUS
  <2>2. phase' \in [Sessions -> {"none", "starting", "live", "closing", "ended"}]
    OBVIOUS
  <2> QED BY <2>1, <2>2, SMTT(30)
<1>2. Ids'
  BY DEF Ids
<1>3. Locks'
  BY DEF Locks
<1>4. Starts'
  BY DEF Starts
<1>5. OwnSession'
  BY DEF OwnSession, Starts
<1>6. Resumes'
  BY DEF Resumes
<1>7. Registry'
  BY DEF Registry
<1>8. Bindings'
  BY DEF Bindings
<1>9. Revocations'
  BY DEF Revocations, InRevocation
<1>10. LiveIsRegistered'
  BY DEF LiveIsRegistered
<1>11. LiveHasOwner'
  BY DEF LiveHasOwner
<1>12. GoneMeansClosing'
  BY DEF GoneMeansClosing
<1> QED BY <1>1, <1>2, <1>3, <1>4, <1>5, <1>6, <1>7, <1>8, <1>9, <1>10, <1>11, <1>12

\* A live session is resumed under its id's lock.
LEMMA Rebinds ==
  ASSUME SocketInv, NEW w \in Sockets, NEW r \in Sessions, pc[w] \in {"lock", "closeWarm"}, Rebind(w, r),
         phase[r] = "live", conv[r] = want[w], active[want[w]] \in {None, r},
         sess[w] \in {None, r} \/ IsClosed(sess[w]),
         LockFree(want[w]) \/ lock[want[w]] = w, lock' = [lock EXCEPT ![want[w]] = w],
         UNCHANGED <<up, want, phase, conv, hooks, revoked, active, rows, account, revoking, countVars>>
  PROVE  SocketInv'
<1> USE SocketsAssumption, NoneIsNoSession DEF SocketInv, TypeOK, Pc, OrNone, NotBegun, Running,
    IsClosed, Bound, Locking, handlerVars, sessionVars, sharedVars, countVars, Rebind, LockFree
<1>1. TypeOK'
  OBVIOUS
<1>2. Ids'
  BY DEF Ids
<1>3. Locks'
  BY DEF Locks
<1>4. Starts'
  BY DEF Starts
<1>5. OwnSession'
  BY DEF OwnSession
<1>6. Resumes'
  BY DEF Resumes
<1>7. Registry'
  BY DEF Registry
<1>8. Bindings'
  <2>1. r \in Sessions /\ sess'[w] = r /\ pc'[w] = "rebind" /\ send'[r] = Nobody /\ ~detached'[r]
    OBVIOUS
  <2>2. \A v \in Sockets : v # w => pc'[v] = pc[v] /\ sess'[v] = sess[v]
                                 /\ (~displaced'[v] => ~displaced[v] /\ ~(Running(v) /\ send[r] = v))
    OBVIOUS
  <2>3. \A s \in Sessions : s # r => send'[s] = send[s] /\ detached'[s] = detached[s]
    OBVIOUS
  <2>4. \A v \in Sockets, s \in Sessions : Bound(v, s)' => v # w /\ Bound(v, s)
    BY <2>1, <2>2
  <2>5. \A v \in Sockets, s \in Sessions :
          Bound(v, s)' /\ phase'[s] = "live" /\ ~displaced'[v] => send'[s] = v
    BY <2>2, <2>3, <2>4 DEF Bindings
  <2>6. \A v \in Sockets, s \in Sessions : Bound(v, s)' => v \in hooks'[s]
    BY <2>4 DEF Bindings
  <2>7. \A s \in Sessions : detached'[s] /\ phase'[s] = "live" => send'[s] = Nobody
    BY <2>1, <2>3 DEF Bindings
  <2> QED BY <2>5, <2>6, <2>7 DEF Bindings
<1>9. Revocations'
  BY DEF Revocations, InRevocation
<1>10. LiveIsRegistered'
  BY DEF LiveIsRegistered
<1>11. LiveHasOwner'
  BY DEF LiveHasOwner
<1>12. GoneMeansClosing'
  BY DEF GoneMeansClosing
<1> QED BY <1>1, <1>2, <1>3, <1>4, <1>5, <1>6, <1>7, <1>8, <1>9, <1>10, <1>11, <1>12

\* No session is registered under the id.
LEMMA LooksUpRow ==
  ASSUME SocketInv, NEW w \in Sockets, pc[w] \in {"lock", "closeWarm"}, LockFree(want[w]) \/ lock[want[w]] = w,
         lock' = [lock EXCEPT ![want[w]] = w], active[want[w]] = None, pc' = [pc EXCEPT ![w] = "row"],
         sess' = sess \/ (sess' = [sess EXCEPT ![w] = None] /\ IsClosed(sess[w])),
         UNCHANGED <<up, displaced, dropping, want, target, sessionVars, active, rows, account, revoking, countVars>>
  PROVE  SocketInv'
<1> USE SocketsAssumption, NoneIsNoSession DEF SocketInv, TypeOK, Pc, OrNone, NotBegun, Running,
    IsClosed, Bound, Locking, handlerVars, sessionVars, sharedVars, countVars, LockFree
<1>1. TypeOK'
  OBVIOUS
<1>2. Ids'
  BY DEF Ids
<1>3. Locks'
  BY DEF Locks
<1>4. Starts'
  BY DEF Starts
<1>5. OwnSession'
  BY DEF OwnSession
<1>6. Resumes'
  BY DEF Resumes
<1>7. Registry'
  BY DEF Registry
<1>8. Bindings'
  BY DEF Bindings
<1>9. Revocations'
  BY DEF Revocations, InRevocation
<1>10. LiveIsRegistered'
  BY DEF LiveIsRegistered
<1>11. LiveHasOwner'
  BY DEF LiveHasOwner
<1>12. GoneMeansClosing'
  BY DEF GoneMeansClosing
<1> QED BY <1>1, <1>2, <1>3, <1>4, <1>5, <1>6, <1>7, <1>8, <1>9, <1>10, <1>11, <1>12

\* The handler's other session is closed before a resume.
LEMMA ClosesForWarm ==
  ASSUME SocketInv, NEW w \in Sockets, pc[w] = "lock", LockFree(want[w]), lock' = [lock EXCEPT ![want[w]] = w],
         active[want[w]] # None, sess[w] \notin {None, active[want[w]]}, UnregisterAndClose(sess[w]),
         target' = [target EXCEPT ![w] = active[want[w]]], pc' = [pc EXCEPT ![w] = "closeWarm"],
         UNCHANGED <<up, displaced, dropping, sess, want, conv, send, detached, hooks, revoked, rows, account,
                     revoking, countVars>>
  PROVE  SocketInv'
<1> USE SocketsAssumption, NoneIsNoSession DEF SocketInv, TypeOK, Pc, OrNone, NotBegun, Running,
    IsClosed, Bound, Locking, handlerVars, sessionVars, sharedVars, countVars,
    UnregisterAndClose, Unregistered, LockFree
<1>1. TypeOK'
  <2>1. active' \in [Sessions -> OrNone]
    OBVIOUS
  <2>2. phase' \in [Sessions -> {"none", "starting", "live", "closing", "ended"}]
    OBVIOUS
  <2>3. want[w] \in Sessions
    BY DEF Locks
  <2>4. target' \in [Sockets -> OrNone]
    BY <2>3
  <2>5. pc' \in [Sockets -> Pc] /\ lock' \in [Sessions -> Sockets \cup {Nobody}]
    OBVIOUS
  <2> QED BY <2>1, <2>2, <2>4, <2>5, SMTT(30)
<1>2. Ids'
  BY DEF Ids
<1>3. Locks'
  BY DEF Locks
<1>4. Starts'
  BY DEF Starts
<1>5. OwnSession'
  BY DEF OwnSession, Starts
<1>6. Resumes'
  BY DEF Resumes, Locks, Registry
<1>7. Registry'
  BY DEF Registry
<1>8. Bindings'
  BY DEF Bindings
<1>9. Revocations'
  BY DEF Revocations, InRevocation
<1>10. LiveIsRegistered'
  BY DEF LiveIsRegistered
<1>11. LiveHasOwner'
  BY DEF LiveHasOwner
<1>12. GoneMeansClosing'
  BY DEF GoneMeansClosing
<1> QED BY <1>1, <1>2, <1>3, <1>4, <1>5, <1>6, <1>7, <1>8, <1>9, <1>10, <1>11, <1>12

\* A resume is over, or its session was closed under it.
LEMMA Resumed ==
  ASSUME SocketInv, NEW w \in Sockets, Rebound(w)
  PROVE  SocketInv'
<1> USE SocketsAssumption, NoneIsNoSession DEF SocketInv, TypeOK, Pc, OrNone, NotBegun, Running,
    IsClosed, Bound, Locking, handlerVars, sessionVars, sharedVars, countVars, Rebound, Hooked,
    Released
<1>1. TypeOK'
  <2>1. target[w] \in Sessions
    BY DEF Resumes
  <2>2. hooks' \in [Sessions -> SUBSET Sockets] /\ send' \in [Sessions -> Sockets \cup {Nobody}]
    BY <2>1
  <2>3. CASE IsClosed(target[w])
    <3>1. sess' \in [Sockets -> OrNone] /\ dropping' \in [Sockets -> BOOLEAN]
      BY <2>3
    <3>2. pc' \in [Sockets -> Pc]
      BY <2>3
    <3>3. lock' = Released(w)
      BY <2>3
    <3>4. lock' \in [Sessions -> Sockets \cup {Nobody}]
      BY <3>3
    <3> QED BY <2>2, <3>1, <3>2, <3>4, SMTT(30)
  <2>4. CASE ~IsClosed(target[w])
    <3>1. pc' \in [Sockets -> Pc] /\ sess' = sess /\ dropping' = dropping /\ lock' = lock
      BY <2>4
    <3> QED BY <2>2, <3>1, SMTT(30)
  <2> QED BY <2>3, <2>4
<1>2. Ids'
  BY DEF Ids
<1>3. Locks'
  BY SMTT(30) DEF Locks
<1>4. Starts'
  BY SMTT(30) DEF Starts, Resumes
<1>5. OwnSession'
  <2>1. CASE IsClosed(target[w])
    BY <2>1, SMTT(30) DEF OwnSession, Resumes
  <2>2. CASE ~IsClosed(target[w])
    BY <2>2 DEF OwnSession, Resumes
  <2> QED BY <2>1, <2>2
<1>6. Resumes'
  BY SMTT(30) DEF Resumes, Locks
<1>7. Registry'
  BY DEF Registry
<1>8. Bindings'
  <2>1. target[w] \in Sessions /\ sess[w] = target[w] /\ send[target[w]] = Nobody /\ ~detached[target[w]]
    BY DEF Resumes, OwnSession
  <2>2. send' = [send EXCEPT ![target[w]] = w] /\ hooks' = [hooks EXCEPT ![target[w]] = @ \cup {w}]
    OBVIOUS
  <2>3. \A v \in Sockets, s \in Sessions :
          Bound(v, s)' => Bound(v, s) \/ (v = w /\ s = target[w])
    <3>1. CASE IsClosed(target[w])
      BY <2>1, <3>1
    <3>2. CASE ~IsClosed(target[w])
      BY <2>1, <3>2
    <3> QED BY <3>1, <3>2
  <2> QED BY <2>1, <2>2, <2>3 DEF Bindings
<1>9. Revocations'
  BY SMTT(30) DEF Revocations, Bindings, OwnSession, InRevocation
<1>10. LiveIsRegistered'
  BY DEF LiveIsRegistered
<1>11. LiveHasOwner'
  BY DEF LiveHasOwner, OwnSession
<1>12. GoneMeansClosing'
  BY DEF GoneMeansClosing
<1> QED BY <1>1, <1>2, <1>3, <1>4, <1>5, <1>6, <1>7, <1>8, <1>9, <1>10, <1>11, <1>12

\* A replayed send raises: the session is parked again.
LEMMA ResumeRaised ==
  ASSUME SocketInv, NEW w \in Sockets, RebindRaises(w)
  PROVE  SocketInv'
<1> USE SocketsAssumption, NoneIsNoSession DEF SocketInv, TypeOK, Pc, OrNone, NotBegun, Running,
    IsClosed, Bound, Locking, handlerVars, sessionVars, sharedVars, countVars, RebindRaises,
    Exit, StillOwns, SendAfterRaise, Released
<1>1. TypeOK'
  <2>1. target[w] \in Sessions
    BY DEF Resumes
  <2>2. detached' \in [Sessions -> BOOLEAN]
    BY Zenon
  <2>3. send' \in [Sessions -> Sockets \cup {Nobody}] /\ hooks' \in [Sessions -> SUBSET Sockets]
    BY <2>1, SMTT(30)
  <2>4. pc' \in [Sockets -> Pc] /\ lock' \in [Sessions -> Sockets \cup {Nobody}]
    OBVIOUS
  <2> QED BY <2>2, <2>3, <2>4, SMTT(30)
<1>2. Ids'
  BY DEF Ids
<1>3. Locks'
  BY DEF Locks
<1>4. Starts'
  BY DEF Starts, Resumes
<1>5. OwnSession'
  BY DEF OwnSession
<1>6. Resumes'
  BY DEF Resumes, Locks
<1>7. Registry'
  BY DEF Registry
<1>8. Bindings'
  <2>1. target[w] \in Sessions /\ sess[w] = target[w] /\ send[target[w]] = Nobody /\ ~detached[target[w]]
    BY DEF Resumes, OwnSession
  <2> QED BY <2>1, SMTT(40) DEF Bindings
<1>9. Revocations'
  BY DEF Revocations, InRevocation
<1>10. LiveIsRegistered'
  BY DEF LiveIsRegistered
<1>11. LiveHasOwner'
  <2>1. target[w] \in Sessions /\ sess[w] = target[w] /\ send[target[w]] = Nobody
    BY DEF Resumes, OwnSession
  <2> SUFFICES ASSUME NEW s \in Sessions, phase[s] = "live", ~detached'[s], s \notin revoking
               PROVE  \E v \in Sockets : v # w /\ Running(v) /\ sess[v] = s /\ (send'[s] = v \/ pc[v] = "rebind")
    BY DEF LiveHasOwner
  <2>2. s # target[w] /\ ~detached[s] /\ send'[s] = send[s]
    BY <2>1, ZenonT(30)
  <2>3. PICK v \in Sockets : Running(v) /\ sess[v] = s /\ (send[s] = v \/ pc[v] = "rebind")
    BY <2>2 DEF LiveHasOwner
  <2> QED BY <2>1, <2>2, <2>3
<1>12. GoneMeansClosing'
  BY DEF GoneMeansClosing
<1> QED BY <1>1, <1>2, <1>3, <1>4, <1>5, <1>6, <1>7, <1>8, <1>9, <1>10, <1>11, <1>12

\* A started session is registered, hooked and bound.
LEMMA Begun ==
  ASSUME SocketInv, NEW w \in Sockets, Started(w)
  PROVE  SocketInv'
<1> USE SocketsAssumption, NoneIsNoSession DEF SocketInv, TypeOK, Pc, OrNone, NotBegun, Running,
    IsClosed, Bound, Locking, handlerVars, sessionVars, sharedVars, countVars, Started, Released
<1>1. TypeOK'
  BY DEF Starts
<1>2. Ids'
  BY DEF Ids, Starts
<1>3. Locks'
  BY DEF Locks
<1>4. Starts'
  BY DEF Starts
<1>5. OwnSession'
  BY DEF OwnSession, Starts
<1>6. Resumes'
  BY DEF Resumes, Locks, Starts, Ids
<1>7. Registry'
  BY DEF Registry, Starts
<1>8. Bindings'
  BY DEF Bindings, Starts
<1>9. Revocations'
  BY DEF Revocations, Starts, InRevocation
<1>10. LiveIsRegistered'
  BY DEF LiveIsRegistered, Starts, Resumes, Ids
<1>11. LiveHasOwner'
  BY DEF LiveHasOwner, OwnSession, Starts
<1>12. GoneMeansClosing'
  BY DEF GoneMeansClosing
<1> QED BY <1>1, <1>2, <1>3, <1>4, <1>5, <1>6, <1>7, <1>8, <1>9, <1>10, <1>11, <1>12

\* A failed start closes what nobody else knew.
LEMMA BeginFailed ==
  ASSUME SocketInv, NEW w \in Sockets, StartRaises(w)
  PROVE  SocketInv'
<1> USE SocketsAssumption, NoneIsNoSession DEF SocketInv, TypeOK, Pc, OrNone, NotBegun, Running,
    IsClosed, Bound, Locking, handlerVars, sessionVars, sharedVars, countVars, StartRaises
<1>1. TypeOK'
  OBVIOUS
<1>2. Ids'
  BY DEF Ids, Starts
<1>3. Locks'
  BY DEF Locks
<1>4. Starts'
  BY DEF Starts
<1>5. OwnSession'
  BY DEF OwnSession
<1>6. Resumes'
  BY DEF Resumes
<1>7. Registry'
  BY DEF Registry, Starts
<1>8. Bindings'
  BY DEF Bindings
<1>9. Revocations'
  BY DEF Revocations, Starts, InRevocation
<1>10. LiveIsRegistered'
  BY DEF LiveIsRegistered
<1>11. LiveHasOwner'
  BY DEF LiveHasOwner
<1>12. GoneMeansClosing'
  BY DEF GoneMeansClosing
<1> QED BY <1>1, <1>2, <1>3, <1>4, <1>5, <1>6, <1>7, <1>8, <1>9, <1>10, <1>11, <1>12

\* A handler's revoke is over.
LEMMA RevokeOver ==
  ASSUME SocketInv, NEW w \in Sockets, SelfRevoked(w)
  PROVE  SocketInv'
<1> USE SocketsAssumption, NoneIsNoSession DEF SocketInv, TypeOK, Pc, OrNone, NotBegun, Running,
    IsClosed, Bound, Locking, handlerVars, sessionVars, sharedVars, countVars, SelfRevoked
<1>1. TypeOK'
  OBVIOUS
<1>2. Ids'
  BY DEF Ids
<1>3. Locks'
  BY DEF Locks
<1>4. Starts'
  BY DEF Starts
<1>5. OwnSession'
  BY DEF OwnSession
<1>6. Resumes'
  BY DEF Resumes
<1>7. Registry'
  BY DEF Registry
<1>8. Bindings'
  BY DEF Bindings
<1>9. Revocations'
  BY DEF Revocations, Bindings, InRevocation
<1>10. LiveIsRegistered'
  BY DEF LiveIsRegistered
<1>11. LiveHasOwner'
  BY DEF LiveHasOwner
<1>12. GoneMeansClosing'
  BY DEF GoneMeansClosing
<1> QED BY <1>1, <1>2, <1>3, <1>4, <1>5, <1>6, <1>7, <1>8, <1>9, <1>10, <1>11, <1>12

\* session.end closes the handler's session.
LEMMA EndAsked ==
  ASSUME SocketInv, NEW w \in Sockets, EndFrame(w)
  PROVE  SocketInv'
<1> USE SocketsAssumption, NoneIsNoSession DEF SocketInv, TypeOK, Pc, OrNone, NotBegun, Running,
    IsClosed, Bound, Locking, handlerVars, sessionVars, sharedVars, countVars, EndFrame,
    Listens, UnregisterAndClose, Unregistered
<1>1. TypeOK'
  <2>1. active' \in [Sessions -> OrNone]
    OBVIOUS
  <2>2. phase' \in [Sessions -> {"none", "starting", "live", "closing", "ended"}]
    OBVIOUS
  <2> QED BY <2>1, <2>2, SMTT(30)
<1>2. Ids'
  BY DEF Ids
<1>3. Locks'
  BY DEF Locks
<1>4. Starts'
  BY DEF Starts
<1>5. OwnSession'
  BY DEF OwnSession, Starts
<1>6. Resumes'
  BY DEF Resumes
<1>7. Registry'
  BY DEF Registry
<1>8. Bindings'
  BY DEF Bindings
<1>9. Revocations'
  BY DEF Revocations, InRevocation
<1>10. LiveIsRegistered'
  BY DEF LiveIsRegistered
<1>11. LiveHasOwner'
  BY DEF LiveHasOwner
<1>12. GoneMeansClosing'
  BY DEF GoneMeansClosing
<1> QED BY <1>1, <1>2, <1>3, <1>4, <1>5, <1>6, <1>7, <1>8, <1>9, <1>10, <1>11, <1>12

\* The session has ended for its handler.
LEMMA EndSeen ==
  ASSUME SocketInv, NEW w \in Sockets, Ended(w)
  PROVE  SocketInv'
<1> USE SocketsAssumption, NoneIsNoSession DEF SocketInv, TypeOK, Pc, OrNone, NotBegun, Running,
    IsClosed, Bound, Locking, handlerVars, sessionVars, sharedVars, countVars, Ended
<1>1. TypeOK'
  OBVIOUS
<1>2. Ids'
  BY DEF Ids
<1>3. Locks'
  BY DEF Locks
<1>4. Starts'
  BY DEF Starts
<1>5. OwnSession'
  BY DEF OwnSession
<1>6. Resumes'
  BY DEF Resumes
<1>7. Registry'
  BY DEF Registry
<1>8. Bindings'
  BY DEF Bindings
<1>9. Revocations'
  BY DEF Revocations, InRevocation
<1>10. LiveIsRegistered'
  BY DEF LiveIsRegistered
<1>11. LiveHasOwner'
  BY DEF LiveHasOwner
<1>12. GoneMeansClosing'
  BY DEF GoneMeansClosing
<1> QED BY <1>1, <1>2, <1>3, <1>4, <1>5, <1>6, <1>7, <1>8, <1>9, <1>10, <1>11, <1>12

\* The grace period lapses.
LEMMA Lapsed ==
  ASSUME SocketInv, NEW s \in Sessions, GraceLapses(s)
  PROVE  SocketInv'
<1> USE SocketsAssumption, NoneIsNoSession DEF SocketInv, TypeOK, Pc, OrNone, NotBegun, Running,
    IsClosed, Bound, Locking, handlerVars, sessionVars, sharedVars, countVars, GraceLapses,
    UnregisterAndClose, Unregistered
<1>1. TypeOK'
  OBVIOUS
<1>2. Ids'
  BY DEF Ids
<1>3. Locks'
  BY DEF Locks
<1>4. Starts'
  BY DEF Starts
<1>5. OwnSession'
  BY DEF OwnSession
<1>6. Resumes'
  BY DEF Resumes
<1>7. Registry'
  BY DEF Registry
<1>8. Bindings'
  BY DEF Bindings
<1>9. Revocations'
  BY DEF Revocations, InRevocation
<1>10. LiveIsRegistered'
  BY DEF LiveIsRegistered
<1>11. LiveHasOwner'
  BY DEF LiveHasOwner
<1>12. GoneMeansClosing'
  BY DEF GoneMeansClosing
<1> QED BY <1>1, <1>2, <1>3, <1>4, <1>5, <1>6, <1>7, <1>8, <1>9, <1>10, <1>11, <1>12

\* A teardown ends.
LEMMA TornDown ==
  ASSUME SocketInv, NEW s \in Sessions, TeardownEnds(s)
  PROVE  SocketInv'
<1> USE SocketsAssumption, NoneIsNoSession DEF SocketInv, TypeOK, Pc, OrNone, NotBegun, Running,
    IsClosed, Bound, Locking, handlerVars, sessionVars, sharedVars, countVars, TeardownEnds
<1>1. TypeOK'
  OBVIOUS
<1>2. Ids'
  BY DEF Ids
<1>3. Locks'
  BY DEF Locks
<1>4. Starts'
  BY DEF Starts
<1>5. OwnSession'
  BY DEF OwnSession
<1>6. Resumes'
  BY DEF Resumes
<1>7. Registry'
  BY DEF Registry
<1>8. Bindings'
  BY DEF Bindings
<1>9. Revocations'
  BY DEF Revocations, InRevocation
<1>10. LiveIsRegistered'
  BY DEF LiveIsRegistered
<1>11. LiveHasOwner'
  BY DEF LiveHasOwner
<1>12. GoneMeansClosing'
  BY DEF GoneMeansClosing
<1> QED BY <1>1, <1>2, <1>3, <1>4, <1>5, <1>6, <1>7, <1>8, <1>9, <1>10, <1>11, <1>12

\* An admin deletes the account.
LEMMA AccountGone ==
  ASSUME SocketInv, DeleteAccount
  PROVE  SocketInv'
<1> USE SocketsAssumption, NoneIsNoSession DEF SocketInv, TypeOK, Pc, OrNone, NotBegun, Running,
    IsClosed, Bound, Locking, handlerVars, sessionVars, sharedVars, countVars, DeleteAccount
<1>1. TypeOK'
  OBVIOUS
<1>2. Ids'
  BY DEF Ids
<1>3. Locks'
  BY DEF Locks
<1>4. Starts'
  BY DEF Starts, Registry
<1>5. OwnSession'
  BY DEF OwnSession
<1>6. Resumes'
  BY DEF Resumes, Ids
<1>7. Registry'
  BY DEF Registry
<1>8. Bindings'
  BY DEF Bindings
<1>9. Revocations'
  BY DEF Revocations, Registry, InRevocation
<1>10. LiveIsRegistered'
  BY DEF LiveIsRegistered, Registry, Ids
<1>11. LiveHasOwner'
  <2>1. revoking = {}
    BY DEF Registry
  <2> QED BY <2>1 DEF LiveHasOwner
<1>12. GoneMeansClosing'
  <2>1. revoking = {}
    BY DEF Registry
  <2>2. \A s \in Sessions : phase[s] = "live" => conv[s] \in Sessions /\ active[conv[s]] = s
    BY <2>1 DEF LiveIsRegistered, Ids
  <2>3. \A s \in Sessions : phase[s] = "live" => s \in revoking'
    BY <2>2
  <2> QED BY <2>3 DEF GoneMeansClosing
<1> QED BY <1>1, <1>2, <1>3, <1>4, <1>5, <1>6, <1>7, <1>8, <1>9, <1>10, <1>11, <1>12

\* delete_user closes a session.
LEMMA UserRevokes ==
  ASSUME SocketInv, NEW s \in Sessions, RevokeCloses(s)
  PROVE  SocketInv'
<1> USE SocketsAssumption, NoneIsNoSession DEF SocketInv, TypeOK, Pc, OrNone, NotBegun, Running,
    IsClosed, Bound, Locking, handlerVars, sessionVars, sharedVars, countVars, RevokeCloses
<1>1. TypeOK'
  OBVIOUS
<1>2. Ids'
  BY DEF Ids
<1>3. Locks'
  BY DEF Locks
<1>4. Starts'
  BY DEF Starts
<1>5. OwnSession'
  BY DEF OwnSession
<1>6. Resumes'
  BY DEF Resumes
<1>7. Registry'
  BY DEF Registry
<1>8. Bindings'
  BY DEF Bindings
<1>9. Revocations'
  BY DEF Revocations, Starts, InRevocation
<1>10. LiveIsRegistered'
  BY DEF LiveIsRegistered
<1>11. LiveHasOwner'
  BY DEF LiveHasOwner
<1>12. GoneMeansClosing'
  BY DEF GoneMeansClosing
<1> QED BY <1>1, <1>2, <1>3, <1>4, <1>5, <1>6, <1>7, <1>8, <1>9, <1>10, <1>11, <1>12

\* delete_user drops the sockets of a session that has ended.
LEMMA UserDrops ==
  ASSUME SocketInv, NEW s \in Sessions, RevokeDrops(s)
  PROVE  SocketInv'
<1> USE SocketsAssumption, NoneIsNoSession DEF SocketInv, TypeOK, Pc, OrNone, NotBegun, Running,
    IsClosed, Bound, Locking, handlerVars, sessionVars, sharedVars, countVars, RevokeDrops
<1>1. TypeOK'
  OBVIOUS
<1>2. Ids'
  BY DEF Ids
<1>3. Locks'
  BY DEF Locks
<1>4. Starts'
  BY DEF Starts
<1>5. OwnSession'
  BY DEF OwnSession
<1>6. Resumes'
  BY DEF Resumes
<1>7. Registry'
  BY DEF Registry
<1>8. Bindings'
  BY DEF Bindings
<1>9. Revocations'
  BY DEF Revocations, Bindings, InRevocation
<1>10. LiveIsRegistered'
  BY DEF LiveIsRegistered
<1>11. LiveHasOwner'
  BY DEF LiveHasOwner
<1>12. GoneMeansClosing'
  BY DEF GoneMeansClosing
<1> QED BY <1>1, <1>2, <1>3, <1>4, <1>5, <1>6, <1>7, <1>8, <1>9, <1>10, <1>11, <1>12

\* A recording is deleted.
LEMMA RecordingDeleted ==
  ASSUME SocketInv, NEW s \in Sessions, DeleteRecording(s)
  PROVE  SocketInv'
<1> USE SocketsAssumption, NoneIsNoSession DEF SocketInv, TypeOK, Pc, OrNone, NotBegun, Running,
    IsClosed, Bound, Locking, handlerVars, sessionVars, sharedVars, countVars, DeleteRecording
<1>1. TypeOK'
  OBVIOUS
<1>2. Ids'
  BY DEF Ids
<1>3. Locks'
  BY DEF Locks
<1>4. Starts'
  BY DEF Starts
<1>5. OwnSession'
  BY DEF OwnSession
<1>6. Resumes'
  BY DEF Resumes
<1>7. Registry'
  BY DEF Registry
<1>8. Bindings'
  BY DEF Bindings
<1>9. Revocations'
  BY DEF Revocations, InRevocation
<1>10. LiveIsRegistered'
  BY DEF LiveIsRegistered
<1>11. LiveHasOwner'
  BY DEF LiveHasOwner
<1>12. GoneMeansClosing'
  BY DEF GoneMeansClosing
<1> QED BY <1>1, <1>2, <1>3, <1>4, <1>5, <1>6, <1>7, <1>8, <1>9, <1>10, <1>11, <1>12

\* A cold start makes a Session at once, or closes the handler's own one first.
LEMMA StartsCold ==
  ASSUME SocketInv, NEW w \in Sockets, NEW id \in OrNone, pc[w] \in {"check", "row"},
         id # None => id = want[w] /\ pc[w] = "row", StartCold(w, id),
         UNCHANGED <<up, displaced, dropping, sess, detached, hooks, revoked, rows, account, revoking,
                     starts, readFaults, recordingDeletes>>
  PROVE  SocketInv'
<1>1. CASE sess[w] = None
  <2>1. NewSession(w, id)
    BY <1>1 DEF StartCold
  <2> QED BY <1>1, <2>1, Made DEF StartCold
<1>2. CASE sess[w] # None
  BY <1>2, ClosesFirst DEF StartCold, countVars
<1> QED BY <1>1, <1>2

\* The account check.
LEMMA Checked ==
  ASSUME SocketInv, NEW w \in Sockets, CheckAccount(w)
  PROVE  SocketInv'
<1>0. pc[w] = "check" /\ want[w] \in OrNone /\ readFaults \in 0..MaxReadFaults
  BY DEF CheckAccount, SocketInv, TypeOK
<1>1. CASE ReadRaises(w)
  BY <1>0, <1>1, Returned, SocketsAssumption DEF ReadRaises
<1>2. CASE displaced[w] /\ ExitAsIs(w)
  BY <1>0, <1>2, Exited
<1>3. CASE /\ ~displaced[w] /\ ~account
           /\ IF sess[w] = None
              THEN /\ Exit(w, None, Nobody, "none")
                   /\ dropping' = [dropping EXCEPT ![w] = TRUE]
                   /\ UNCHANGED <<phase, active, revoked>>
              ELSE /\ UnregisterAndClose(sess[w])
                   /\ revoked' = [revoked EXCEPT ![sess[w]] = TRUE]
                   /\ pc' = [pc EXCEPT ![w] = "revoking"]
                   /\ UNCHANGED <<dropping, lock, send, detached, hooks>>
           /\ UNCHANGED <<up, displaced, sess, want, target, conv, rows, account, revoking, countVars>>
  <2>1. CASE sess[w] = None
    BY <1>0, <1>3, <2>1, Refused
  <2>2. CASE sess[w] # None
    BY <1>0, <1>3, <2>2, Revoked
  <2> QED BY <2>1, <2>2
<1>4. CASE /\ ~displaced[w] /\ account
           /\ IF want[w] = None
              THEN StartCold(w, None)
              ELSE /\ pc' = [pc EXCEPT ![w] = "lock"]
                   /\ UNCHANGED <<want, lock, phase, active, made, conv, send, target>>
           /\ UNCHANGED <<up, displaced, dropping, sess, detached, hooks, revoked, rows, account,
                          revoking, starts, readFaults, recordingDeletes>>
  <2>1. CASE want[w] = None
    BY <1>0, <1>4, <2>1, StartsCold DEF OrNone
  <2>2. CASE want[w] # None
    BY <1>0, <1>4, <2>2, Waited DEF sessionVars, sharedVars, countVars
  <2> QED BY <2>1, <2>2
<1> QED BY <1>1, <1>2, <1>3, <1>4 DEF CheckAccount

\* The start lock is taken: the row is read, the registered session resumed, or the handler's
\* other session closed first.
LEMMA LockTaken ==
  ASSUME SocketInv, NEW w \in Sockets, TakeLock(w)
  PROVE  SocketInv'
<1> DEFINE id == want[w]
           r  == active[id]
<1>0. pc[w] = "lock" /\ LockFree(id) /\ id \in Sessions /\ r \in OrNone /\ sess[w] \in OrNone
  BY DEF TakeLock, SocketInv, TypeOK, Locks, OrNone
<1>1. CASE displaced[w] /\ ExitAsIs(w)
  BY <1>0, <1>1, Exited
<1>2. CASE ~(displaced[w] /\ ExitAsIs(w))
  <2>0. /\ lock' = [lock EXCEPT ![id] = w]
        /\ UNCHANGED <<up, want, conv, hooks, revoked, rows, account, revoking, countVars>>
    BY <1>2 DEF TakeLock
  <2>1. CASE r = None
    <3>1. pc' = [pc EXCEPT ![w] = "row"]
          /\ UNCHANGED <<sess, target, displaced, dropping, detached, send, active, phase>>
      BY <1>2, <2>1 DEF TakeLock
    <3> QED BY <1>0, <2>0, <2>1, <3>1, LooksUpRow DEF sessionVars
  <2>2. CASE r # None /\ sess[w] \in {None, r}
    <3>1. Rebind(w, r) /\ UNCHANGED <<active, phase>>
      BY <1>2, <2>2 DEF TakeLock
    <3>2. r \in Sessions /\ phase[r] = "live" /\ conv[r] = want[w]
      BY <1>0, <2>2 DEF SocketInv, Registry, OrNone
    <3> QED BY <1>0, <2>0, <2>2, <3>1, <3>2, Rebinds
  <2>3. CASE r # None /\ sess[w] \notin {None, r}
    <3>1. /\ UnregisterAndClose(sess[w])
          /\ target' = [target EXCEPT ![w] = r]
          /\ pc' = [pc EXCEPT ![w] = "closeWarm"]
          /\ UNCHANGED <<sess, displaced, dropping, detached, send>>
      BY <1>2, <2>3 DEF TakeLock
    <3> QED BY <1>0, <2>0, <2>3, <3>1, ClosesForWarm
  <2> QED BY <2>1, <2>2, <2>3
<1> QED BY <1>1, <1>2

\* The handler's other session has ended: the target is resumed if nobody closed it meanwhile.
LEMMA TurnsToTarget ==
  ASSUME SocketInv, NEW w \in Sockets, ClosedForWarm(w)
  PROVE  SocketInv'
<1>0. /\ pc[w] = "closeWarm" /\ want[w] \in Sessions /\ lock[want[w]] = w
      /\ target[w] \in Sessions /\ sess[w] \in Sessions /\ phase[sess[w]] = "ended"
      /\ conv[target[w]] = want[w] /\ active[want[w]] \in {None, target[w]}
      /\ ~NotBegun(target[w]) /\ phase[target[w]] \in {"none", "starting", "live", "closing", "ended"}
      /\ lock \in [Sessions -> Sockets \cup {Nobody}]
      /\ UNCHANGED <<up, want, phase, conv, hooks, revoked, sharedVars, countVars>>
  BY DEF ClosedForWarm, SocketInv, TypeOK, Locks, Resumes, OwnSession, Locking, OrNone
<1>1. lock' = [lock EXCEPT ![want[w]] = w]
  BY <1>0 DEF sharedVars
<1>2. CASE IsClosed(target[w])
  <2>1. active[want[w]] = None
    <3>1. active[want[w]] # target[w]
      BY <1>0, <1>2, NoneIsNoSession DEF SocketInv, Registry, IsClosed
    <3> QED BY <1>0, <3>1
  <2>2. /\ sess' = [sess EXCEPT ![w] = None] /\ pc' = [pc EXCEPT ![w] = "row"]
        /\ UNCHANGED <<target, displaced, dropping, detached, send>>
    BY <1>2 DEF ClosedForWarm
  <2> QED BY <1>0, <1>1, <2>1, <2>2, LooksUpRow DEF IsClosed, sessionVars, sharedVars
<1>3. CASE ~IsClosed(target[w])
  <2>1. Rebind(w, target[w])
    BY <1>3 DEF ClosedForWarm
  <2>2. phase[target[w]] = "live"
    BY <1>0, <1>3 DEF IsClosed, NotBegun
  <2> QED BY <1>0, <1>1, <2>1, <2>2, Rebinds DEF sharedVars, IsClosed
<1> QED BY <1>2, <1>3

\* session.ready is sent, or the transport is gone.
LEMMA Welcomed ==
  ASSUME SocketInv, NEW w \in Sockets, Hello(w)
  PROVE  SocketInv'
<1>0. pc[w] = "hello" /\ readFaults \in 0..MaxReadFaults
  BY DEF Hello, SocketInv, TypeOK
<1>1. CASE BackToLoop(w) /\ UNCHANGED readFaults
  BY <1>0, <1>1, Returned, SocketsAssumption
<1>2. CASE ~up[w] /\ ExitAsIs(w)
  BY <1>0, <1>2, Exited
<1> QED BY <1>1, <1>2 DEF Hello

\* The stored row is read.
LEMMA RowRead ==
  ASSUME SocketInv, NEW w \in Sockets, ReadRow(w)
  PROVE  SocketInv'
<1>0. pc[w] = "row" /\ want[w] \in OrNone /\ None \in OrNone /\ readFaults \in 0..MaxReadFaults
  BY DEF ReadRow, SocketInv, TypeOK, OrNone
<1>1. CASE ReadRaises(w)
  BY <1>0, <1>1, Returned, SocketsAssumption DEF ReadRaises
<1>2. CASE displaced[w] /\ ExitAsIs(w)
  BY <1>0, <1>2, Exited
<1>3. CASE ~ReadRaises(w) /\ ~(displaced[w] /\ ExitAsIs(w))
  <2> DEFINE id == IF want[w] \in rows THEN want[w] ELSE None
  <2>1. StartCold(w, id)
        /\ UNCHANGED <<up, displaced, dropping, sess, detached, hooks, revoked, rows, account, revoking,
                       starts, readFaults, recordingDeletes>>
    BY <1>3 DEF ReadRow
  <2>2. id \in OrNone /\ (id # None => id = want[w])
    BY <1>0
  <2> HIDE DEF id
  <2> QED BY <1>0, <2>1, <2>2, StartsCold
<1> QED BY <1>1, <1>2, <1>3

\* The handler's own session has ended, and the new one is made.
LEMMA TurnsToNew ==
  ASSUME SocketInv, NEW w \in Sockets, ClosedForCold(w)
  PROVE  SocketInv'
<1>0. /\ pc[w] = "closeCold" /\ want[w] \in OrNone /\ IsClosed(sess[w]) /\ NewSession(w, want[w])
      /\ (want[w] # None => lock[want[w]] = w)
      /\ want' = want /\ lock' = lock
      /\ want \in [Sockets -> OrNone] /\ lock \in [Sessions -> Sockets \cup {Nobody}]
      /\ UNCHANGED <<up, displaced, dropping, sess, detached, hooks, revoked, rows, account, revoking,
                     starts, readFaults, recordingDeletes>>
  BY DEF ClosedForCold, SocketInv, TypeOK, Locks, Locking, IsClosed
<1>1. want' = [want EXCEPT ![w] = want[w]]
  BY <1>0
<1>2. CASE want[w] = None
  <2>1. \A c \in Sessions : lock[c] # w
    BY <1>2, NoneIsNoSession DEF SocketInv, Locks
  <2>2. lock' = Released(w)
    BY <1>0, <2>1 DEF Released
  <2> QED BY <1>0, <1>1, <1>2, <2>2, Made
<1>3. CASE want[w] # None
  <2>1. lock' = [lock EXCEPT ![want[w]] = w]
    BY <1>0, <1>3 DEF OrNone
  <2> QED BY <1>0, <1>1, <1>3, <2>1, Made
<1> QED BY <1>2, <1>3

\* A failed start is told, or made again under an id of its own.
LEMMA FailureSettled ==
  ASSUME SocketInv, NEW w \in Sockets, StartFailed(w)
  PROVE  SocketInv'
<1>0. /\ pc[w] = "failed" /\ None \in OrNone /\ readFaults \in 0..MaxReadFaults
      /\ (sess[w] = None \/ IsClosed(sess[w]))
  BY DEF StartFailed, SocketInv, TypeOK, OwnSession, OrNone
<1>1. CASE RecordingGone(w)
  BY <1>0, <1>1, Made DEF StartFailed
<1>2. CASE ~RecordingGone(w)
  BY <1>0, <1>2, Returned, SocketsAssumption DEF StartFailed
<1> QED BY <1>1, <1>2

\* The re-check keeps the session, or revokes it.
LEMMA Rechecked ==
  ASSUME SocketInv, NEW w \in Sockets, Recheck(w)
  PROVE  SocketInv'
<1>0. pc[w] = "recheck" /\ sess[w] # None /\ readFaults \in 0..MaxReadFaults
  BY DEF Recheck, SocketInv, TypeOK, OwnSession
<1>1. CASE ReadRaises(w)
  BY <1>0, <1>1, Returned, SocketsAssumption DEF ReadRaises
<1>2. CASE AccountStands /\ BackToLoop(w) /\ UNCHANGED readFaults
  BY <1>0, <1>2, Returned, SocketsAssumption DEF AccountStands
<1>3. CASE ~ReadRaises(w) /\ ~(AccountStands /\ BackToLoop(w) /\ UNCHANGED readFaults)
  BY <1>0, <1>3, Revoked DEF Recheck
<1> QED BY <1>1, <1>2, <1>3

\* Every step of a handler.
LEMMA Handled ==
  ASSUME SocketInv, NEW w \in Sockets, Handling(w)
  PROVE  SocketInv'
<1>1. CASE Leave(w)
  BY <1>1, Exited DEF Leave
<1> QED
  BY <1>1, Checked, LockTaken, TurnsToTarget, Resumed, ResumeRaised, Welcomed, RowRead, TurnsToNew,
     Begun, BeginFailed, FailureSettled, Rechecked, RevokeOver, EndSeen DEF Handling

\* Nothing moves.
LEMMA Stutters ==
  ASSUME SocketInv, UNCHANGED vars
  PROVE  SocketInv'
<1> USE DEF vars, handlerVars, sessionVars, sharedVars, countVars, SocketInv, NotBegun, Running,
    IsClosed,
        Bound, Locking, OrNone
<1>1. TypeOK'
  BY DEF TypeOK
<1>2. Ids'
  BY DEF Ids
<1>3. Locks'
  BY DEF Locks
<1>4. Starts'
  BY DEF Starts
<1>5. OwnSession'
  BY DEF OwnSession
<1>6. Resumes'
  BY DEF Resumes
<1>7. Registry'
  BY DEF Registry
<1>8. Bindings'
  BY DEF Bindings
<1>9. Revocations'
  BY DEF Revocations, InRevocation
<1>10. LiveIsRegistered'
  BY DEF LiveIsRegistered
<1>11. LiveHasOwner'
  BY DEF LiveHasOwner
<1>12. GoneMeansClosing'
  BY DEF GoneMeansClosing
<1> QED BY <1>1, <1>2, <1>3, <1>4, <1>5, <1>6, <1>7, <1>8, <1>9, <1>10, <1>11, <1>12

\* The socket invariant is inductive.
LEMMA SocketStep == SocketInv /\ [Next]_vars => SocketInv'
<1> SUFFICES ASSUME SocketInv, [Next]_vars PROVE SocketInv'
  OBVIOUS
<1>1. ASSUME NEW w \in Sockets,
             Connect(w) \/ Drop(w) \/ EndFrame(w) \/ Handling(w) \/ \E id \in Known \cup {None} : StartFrame(w, id)
      PROVE  SocketInv'
  BY <1>1, Connected, Dropped, EndAsked, Handled, Asked
<1>2. ASSUME NEW s \in Sessions,
             GraceLapses(s) \/ TeardownEnds(s) \/ Revoking(s) \/ DeleteRecording(s)
      PROVE  SocketInv'
  BY <1>2, Lapsed, TornDown, UserRevokes, UserDrops, RecordingDeleted DEF Revoking
<1>3. CASE DeleteAccount
  BY <1>3, AccountGone
<1>4. CASE Rest \/ UNCHANGED vars
  BY <1>4, Stutters DEF Rest
<1> QED BY <1>1, <1>2, <1>3, <1>4 DEF Next

\* It holds before the first connection.
LEMMA SocketInit == Init => SocketInv
<1> SUFFICES ASSUME Init PROVE SocketInv
  OBVIOUS
<1> USE SocketsAssumption, NoneIsNoSession DEF Init, NotBegun, Running, IsClosed, Bound,
    Locking, OrNone, Pc
<1>1. TypeOK
  BY DEF TypeOK
<1>2. Ids
  BY DEF Ids, Sessions, None
<1>3. Locks
  BY DEF Locks
<1>4. Starts
  BY DEF Starts
<1>5. OwnSession
  BY DEF OwnSession
<1>6. Resumes
  BY DEF Resumes
<1>7. Registry
  BY DEF Registry
<1>8. Bindings
  BY DEF Bindings
<1>9. Revocations
  BY DEF Revocations
<1>10. LiveIsRegistered
  BY DEF LiveIsRegistered
<1>11. LiveHasOwner
  BY DEF LiveHasOwner
<1>12. GoneMeansClosing
  BY DEF GoneMeansClosing
<1> QED BY <1>1, <1>2, <1>3, <1>4, <1>5, <1>6, <1>7, <1>8, <1>9, <1>10, <1>11, <1>12 DEF SocketInv

\* In every reachable state.
LEMMA SocketsInvariant == Spec => []SocketInv
BY SocketInit, SocketStep, PTL DEF Spec

\* Two recorders of one conversation: the two live ones are both registered under its id; one that
\* is starting holds the id's lock, with nothing registered, or is the first of its own new id.
LEMMA RecordersDiffer == SocketInv => OneRecorder
<1> SUFFICES ASSUME SocketInv, NEW s \in Recorders, NEW t \in Recorders, s # t, conv[s] = conv[t]
             PROVE  FALSE
  BY DEF OneRecorder
<1> USE DEF SocketInv, Recorders
<1>1. \A x \in Recorders : phase[x] = "live" => active[conv[x]] = x
  BY DEF LiveIsRegistered
<1>2. \A x \in Recorders : conv[x] \in Sessions /\ x \in Sessions
  BY DEF Ids
<1>3. ASSUME NEW x \in Recorders, phase[x] = "starting"
      PROVE  \E w \in Sockets : /\ pc[w] = "starting" /\ target[w] = x
                                /\ \/ want[w] = None /\ conv[x] = x
                                   \/ /\ want[w] # None /\ conv[x] = want[w]
                                      /\ lock[conv[x]] = w /\ active[conv[x]] = None
  <2>1. PICK w \in Sockets : pc[w] = "starting" /\ target[w] = x
    BY <1>2, <1>3 DEF Starts
  <2>2. conv[x] = IF want[w] = None THEN x ELSE want[w]
    BY <2>1 DEF Starts
  <2>3. want[w] # None => lock[want[w]] = w /\ active[want[w]] = None
    BY <2>1 DEF Locks, Resumes, Locking
  <2> QED BY <2>1, <2>2, <2>3
<1>4. ASSUME NEW x \in Recorders, NEW y \in Recorders, x # y, conv[x] = conv[y], phase[x] = "starting"
      PROVE  FALSE
  <2>1. PICK w \in Sockets : /\ pc[w] = "starting" /\ target[w] = x
                             /\ \/ want[w] = None /\ conv[x] = x
                                \/ /\ want[w] # None /\ conv[x] = want[w]
                                   /\ lock[conv[x]] = w /\ active[conv[x]] = None
    BY <1>3, <1>4
  <2>2. CASE conv[x] = x
    <3>1. phase[y] # "none" /\ conv[y] = x
      BY <1>4, <2>2
    <3> QED BY <1>2, <1>4, <2>2, <3>1 DEF Ids, NotBegun
  <2>3. CASE conv[x] # x /\ phase[y] = "live"
    BY <1>1, <1>2, <1>4, <2>1, <2>3, NoneIsNoSession
  <2>4. CASE conv[x] # x /\ phase[y] = "starting"
    <3>1. PICK v \in Sockets : /\ pc[v] = "starting" /\ target[v] = y
                               /\ \/ want[v] = None /\ conv[y] = y
                                  \/ /\ want[v] # None /\ conv[y] = want[v]
                                     /\ lock[conv[y]] = v /\ active[conv[y]] = None
      BY <1>3, <2>4
    <3>2. CASE conv[y] = y
      BY <1>2, <1>4, <2>4, <3>2 DEF Ids, NotBegun
    <3>3. CASE conv[y] # y
      BY <1>4, <2>1, <2>4, <3>1, <3>3
    <3> QED BY <3>2, <3>3
  <2> QED BY <2>2, <2>3, <2>4
<1>5. phase[s] = "live" /\ phase[t] = "live" => FALSE
  BY <1>1
<1> QED BY <1>4, <1>5

\* The four parts of SessionsOwned.
LEMMA OwnedFromInv == SocketInv => SessionsOwned
<1> SUFFICES ASSUME SocketInv PROVE SessionsOwned
  OBVIOUS
<1>1. OneRecorder
  BY RecordersDiffer
<1>2. LiveHasOwner
  BY DEF SocketInv
<1>3. ListenerOwns
  BY DEF SocketInv, TypeOK, ListenerOwns, Bindings, Bound, Listens, Stops, Running, OrNone
<1>4. ParkedMeansUnbound
  <2> SUFFICES ASSUME NEW s \in Sessions, detached[s], phase[s] = "live",
                      NEW w \in Sockets, Running(w), sess[w] = s, ~displaced[w]
               PROVE  FALSE
    BY DEF ParkedMeansUnbound
  <2>1. send[s] = Nobody
    BY DEF SocketInv, Bindings
  <2>2. pc[w] # "rebind"
    BY DEF SocketInv, Resumes, OwnSession
  <2> QED BY <2>1, <2>2, SocketsAssumption DEF SocketInv, Bindings, Bound
<1> QED BY <1>1, <1>2, <1>3, <1>4 DEF SessionsOwned

\* The parts of RevocationSafe.
LEMMA RevocationFromInv == SocketInv => RevocationSafe
<1> SUFFICES ASSUME SocketInv PROVE RevocationSafe
  OBVIOUS
<1>1. RevokedIsDropped
  <2> SUFFICES ASSUME NEW w \in Sockets, Listens(w), sess[w] # None, revoked[sess[w]],
                      sess[w] \notin revoking, \A v \in Sockets : pc[v] = "revoking" => sess[v] # sess[w]
               PROVE  dropping[w]
    BY DEF RevokedIsDropped
  <2>1. sess[w] \in Sessions /\ ~InRevocation(sess[w])
    BY DEF SocketInv, TypeOK, OrNone, InRevocation
  <2>2. Bound(w, sess[w])
    BY DEF Bound, Listens, Running
  <2> QED BY <2>1, <2>2 DEF SocketInv, Revocations
<1> QED BY <1>1 DEF RevocationSafe, SocketInv

\* Every session has one conversation to itself and exactly one that may feed, park or end it, for
\* any number of sockets, starts, read faults and deleted recordings.
THEOREM SessionsAreOwned == Spec => []SessionsOwned
BY SocketsInvariant, OwnedFromInv, PTL

\* A deleted account keeps neither a recording nor a socket.
THEOREM RevocationIsSafe == Spec => []RevocationSafe
BY SocketsInvariant, RevocationFromInv, PTL
=============================================================================

-------------------------- MODULE AgentRelayClient --------------------------
(***************************************************************************)
(* The agent's end of the relay link (agent/src/relay-client.ts): one      *)
(* object with a current socket `ws`, a session, a file that keeps the     *)
(* session over restarts, a reconnect timer and a rotation timer.          *)
(*                                                                         *)
(* Every await is a place where other handlers run, so a method is cut     *)
(* there: `task[t]` is a method that waits for an HTTP answer, and the     *)
(* step that receives the answer does all that follows up to the next      *)
(* await.  The handlers of a socket read this.ws and this.session, not the *)
(* socket and the session they were made for; events of a socket that was  *)
(* replaced are therefore handled against its successor.                   *)
(*                                                                         *)
(* Sessions are numbered in the order in which the relay creates them; 0   *)
(* is null.  Ghost stands for an object without token and URL, which the   *)
(* spread of a null session produces.                                      *)
(***************************************************************************)
EXTENDS Integers, FiniteSets

CONSTANTS
  Sockets,      \* WebSocket objects, each good for one connection
  Tasks,        \* bound: methods that wait for an HTTP answer at one time
  MaxSession,   \* bound: sessions the relay creates
  MaxRestarts,  \* bound: restarts of the agent
  None

ASSUME NoneAssumption == None \notin Sockets
ASSUME BoundAssumption == MaxSession \in Nat /\ MaxRestarts \in Nat

Ghost == -1
Ids   == 1 .. MaxSession

VARIABLES
  sess,      \* this.session
  ws,        \* this.ws
  sock,      \* sock[k]: readyState
  token,     \* token[k]: the session whose token was sent over k, 0 for none
  retry,     \* what this.reconnectTimer will do
  rotation,  \* is this.sessionRotationTimer set?
  file,      \* the session in relay-session.json
  task,      \* task[t]: the request a method waits for, and whether its
             \* caller catches what the method throws
  rows,      \* the sessions that have a row at the relay
  old,       \* the sessions whose expiresAt has passed
  created,   \* sessions created so far
  crashed,   \* an exception escaped: the process is gone
  restarts

vars == <<sess, ws, sock, token, retry, rotation, file, task, rows, old,
          created, crashed, restarts>>

Idle == [does |-> "nothing", id |-> 0, caught |-> TRUE]

TypeOK ==
  /\ sess \in {Ghost, 0} \cup Ids
  /\ ws \in Sockets \cup {None}
  /\ sock \in [Sockets -> {"idle", "connecting", "open", "closing", "closed"}]
  /\ token \in [Sockets -> {Ghost, 0} \cup Ids]
  /\ retry \in {"none", "connect", "session"}
  /\ rotation \in BOOLEAN
  /\ file \in {0} \cup Ids
  /\ task \in [Tasks -> [does : {"nothing", "restore", "create", "refresh"},
                         id : {Ghost, 0} \cup Ids, caught : BOOLEAN]]
  /\ rows \subseteq Ids /\ old \subseteq Ids
  /\ created \in 0 .. MaxSession
  /\ crashed \in BOOLEAN
  /\ restarts \in 0 .. MaxRestarts

-----------------------------------------------------------------------------
(* The link is a record of the variables that the methods share: each      *)
(* method maps a link to the link it leaves behind.                        *)

Link == [sess |-> sess, ws |-> ws, sock |-> sock, retry |-> retry,
         rotation |-> rotation, file |-> file, crashed |-> crashed]

Becomes(l) ==
  /\ sess' = l.sess /\ ws' = l.ws /\ sock' = l.sock /\ retry' = l.retry
  /\ rotation' = l.rotation /\ file' = l.file /\ crashed' = l.crashed

Fresh(l) == {k \in Sockets : l.sock[k] = "idle"}

\* connect(): a session without a relayUrl makes it throw.
Connect(l, k, caught) ==
  IF l.sess = 0 THEN l
  ELSE IF l.sess = Ghost THEN [l EXCEPT !.crashed = ~caught]
  ELSE [l EXCEPT !.ws = k, !.sock[k] = "connecting"]

\* ws.close() on a socket that is not yet closed.
Close(l, k) ==
  IF k # None /\ l.sock[k] \in {"connecting", "open"}
  THEN [l EXCEPT !.sock[k] = "closing"] ELSE l

ScheduleReconnect(l) ==
  IF l.retry # "none" \/ l.sess = 0 THEN l ELSE [l EXCEPT !.retry = "connect"]

ScheduleSessionRetry(l) ==
  IF l.retry # "none" THEN l ELSE [l EXCEPT !.retry = "session"]

\* rotateSession() up to its await: timers, socket, session and file go.
Dropped(l) ==
  [Close(l, l.ws) EXCEPT !.retry = "none", !.rotation = FALSE,
                         !.ws = None, !.sess = 0, !.file = 0]

\* Mutant: an adopted session gets no rotation timer.
AdoptedUntimed(l, n) == [l EXCEPT !.sess = n, !.file = n]

\* Mutant: an adopted session is not written to disk.
AdoptedUnsaved(l, n) == [l EXCEPT !.sess = n, !.rotation = TRUE]

\* A session that was restored or created is current, on disk and timed.
Adopted(l, n) == [l EXCEPT !.sess = n, !.file = n, !.rotation = TRUE]

\* Mutant: the validation of the file accepts an object without a token.
OnDiskUnchecked(n) == n

\* What readPersistedSession() will make of a file that holds session n.
OnDisk(n) == IF n = Ghost THEN 0 ELSE n

\* ensureSession() up to its first await.  An expired session is removed
\* from disk before a new one is asked for.
Ensure(t, l, caught) ==
  LET stale == l.file \in old
  IN /\ Becomes(IF stale THEN [l EXCEPT !.file = 0] ELSE l)
     /\ task' = [task EXCEPT ![t] =
                   IF l.file = 0 \/ stale
                   THEN [does |-> "create", id |-> 0, caught |-> caught]
                   ELSE [does |-> "restore", id |-> l.file, caught |-> caught]]

-----------------------------------------------------------------------------
Up == ~crashed

Free(t) == task[t] = Idle

Init ==
  /\ sess = 0 /\ ws = None
  /\ sock = [k \in Sockets |-> "idle"]
  /\ token = [k \in Sockets |-> 0]
  /\ retry = "none" /\ rotation = FALSE
  /\ file = 0
  /\ \E t \in Tasks : task = [u \in Tasks |-> IF u = t
                  THEN [does |-> "create", id |-> 0, caught |-> TRUE] ELSE Idle]
  /\ rows = {} /\ old = {} /\ created = 0
  /\ crashed = FALSE /\ restarts = 0

-----------------------------------------------------------------------------
(* Answers of the relay's REST interface.                                  *)

\* restorePersistedSession() found the session; ensureSession() is done.
RestoreOk(t, k) ==
  /\ Up /\ task[t].does = "restore"
  /\ task[t].id \in rows
  /\ k \in Fresh(Link)
  /\ Becomes(Connect(Adopted(Link, task[t].id), k, TRUE))
  /\ task' = [task EXCEPT ![t] = Idle]
  /\ UNCHANGED <<token, rows, old, created, restarts>>

\* A refusal of any status forgets the file, an unreachable relay does not.
RestoreFailed(t) ==
  /\ Up /\ task[t].does = "restore"
  /\ file' \in {file, 0}
  /\ task' = [task EXCEPT ![t].does = "create", ![t].id = 0]
  /\ UNCHANGED <<sess, ws, sock, token, retry, rotation, rows, old, created,
                 crashed, restarts>>

CreateOk(t, k) ==
  /\ Up /\ task[t].does = "create"
  /\ created < MaxSession
  /\ k \in Fresh(Link)
  /\ created' = created + 1
  /\ rows' = rows \cup {created'}
  /\ Becomes(Connect(Adopted(Link, created'), k, TRUE))
  /\ task' = [task EXCEPT ![t] = Idle]
  /\ UNCHANGED <<token, old, restarts>>

\* The caller of ensureSession() connects when there is a session, also
\* when it is not one this call made.
CreateFailed(t, k) ==
  /\ Up /\ task[t].does = "create"
  /\ k \in Fresh(Link)
  /\ Becomes(Connect(ScheduleSessionRetry(Link), k, task[t].caught))
  /\ task' = [task EXCEPT ![t] = Idle]
  /\ UNCHANGED <<token, rows, old, created, restarts>>

\* refreshSessionState() got the status of the session it asked about and
\* spreads it over the session that is current now.
RefreshOk(t) ==
  /\ Up /\ task[t].does = "refresh"
  /\ task[t].id \in rows
  /\ sess' = IF sess = 0 THEN Ghost ELSE sess
  /\ task' = [task EXCEPT ![t] = Idle]
  /\ UNCHANGED <<ws, sock, token, retry, rotation, file, rows, old, created,
                 crashed, restarts>>

RefreshFailed(t) ==
  /\ Up /\ task[t].does = "refresh"
  /\ task' = [task EXCEPT ![t] = Idle]
  /\ UNCHANGED <<sess, ws, sock, token, retry, rotation, file, rows, old,
                 created, crashed, restarts>>

\* 401, 403 or 404: the current session is rotated, whichever it is.  The
\* same method goes on to wait for the new session.
RefreshRejected(t) ==
  /\ Up /\ task[t].does = "refresh"
  /\ task[t].id \notin rows
  /\ Ensure(t, Dropped(Link), TRUE)
  /\ UNCHANGED <<token, rows, old, created, restarts>>

-----------------------------------------------------------------------------
(* Timers.                                                                 *)

RotationTimer(t) ==
  /\ Up /\ rotation /\ Free(t)
  /\ Ensure(t, Dropped(Link), FALSE)
  /\ UNCHANGED <<token, rows, old, created, restarts>>

ReconnectTimer(k) ==
  /\ Up /\ retry = "connect"
  /\ k \in Fresh(Link)
  /\ Becomes(Connect([Link EXCEPT !.retry = "none"], k, FALSE))
  /\ UNCHANGED <<token, task, rows, old, created, restarts>>

SessionRetryTimer(t) ==
  /\ Up /\ retry = "session" /\ Free(t)
  /\ Ensure(t, [Link EXCEPT !.retry = "none"], FALSE)
  /\ UNCHANGED <<token, rows, old, created, restarts>>

-----------------------------------------------------------------------------
(* Events of a socket.                                                     *)

\* The token is sent over this.ws, which throws while that is connecting.
SocketOpen(k) ==
  /\ Up /\ sock[k] = "connecting"
  /\ sock' = [sock EXCEPT ![k] = "open"]
  /\ IF sess = 0 \/ ws = None
     THEN UNCHANGED <<token, crashed>>
     ELSE /\ crashed' = (sock'[ws] = "connecting")
          /\ token' = IF sock'[ws] = "open" /\ token[ws] = 0
                      THEN [token EXCEPT ![ws] = sess] ELSE token
  /\ UNCHANGED <<sess, ws, retry, rotation, file, task, rows, old, created,
                 restarts>>

\* What arrived before the close is still handed on while the socket closes.
Hears(k) == Up /\ sock[k] \in {"open", "closing"} /\ token[k] \in rows /\ sess # 0

\* sendStatusSnapshot(): the session's state is asked for, or the session
\* is rotated at once if it has expired.  An object without expiry and id
\* never expires and asks for a session that has no row.
SendStatusSnapshot(t, l) ==
  IF l.sess \in old THEN Ensure(t, Dropped(l), FALSE)
  ELSE /\ Becomes(l)
       /\ task' = [task EXCEPT ![t] =
                     [does |-> "refresh", id |-> l.sess, caught |-> TRUE]]

AuthOk(k, t) ==
  /\ Hears(k) /\ Free(t)
  /\ SendStatusSnapshot(t, [Link EXCEPT !.file = OnDisk(sess)])
  /\ UNCHANGED <<token, rows, old, created, restarts>>

PeerStatus(k) ==
  /\ Hears(k)
  /\ Becomes([Link EXCEPT !.file = OnDisk(sess)])
  /\ UNCHANGED <<token, task, rows, old, created, restarts>>

AdapterToggle(k, t) ==
  /\ Hears(k) /\ Free(t)
  /\ SendStatusSnapshot(t, Link)
  /\ UNCHANGED <<token, rows, old, created, restarts>>

\* Mutant: no reconnect is scheduled.
SocketCloseQuiet(k) ==
  /\ Up /\ sock[k] \in {"open", "closing"}
  /\ Becomes([Link EXCEPT !.sock[k] = "closed"])
  /\ UNCHANGED <<token, task, rows, old, created, restarts>>

SocketClose(k) ==
  /\ Up /\ sock[k] \in {"open", "closing"}
  /\ Becomes(ScheduleReconnect([Link EXCEPT !.sock[k] = "closed"]))
  /\ UNCHANGED <<token, task, rows, old, created, restarts>>

\* 'error' closes this.ws, then 'close' follows for k itself.
SocketError(k) ==
  /\ Up /\ sock[k] \in {"connecting", "open", "closing"}
  /\ Becomes(ScheduleReconnect(Close([Link EXCEPT !.sock[k] = "closed"], ws)))
  /\ UNCHANGED <<token, task, rows, old, created, restarts>>

-----------------------------------------------------------------------------
(* The environment.                                                        *)

Expire(n) ==
  /\ n \in rows
  /\ old' = old \cup {n}
  /\ UNCHANGED <<sess, ws, sock, token, retry, rotation, file, task, rows,
                 created, crashed, restarts>>

RelayPrunes(n) ==
  /\ n \in rows \cap old
  /\ rows' = rows \ {n}
  /\ UNCHANGED <<sess, ws, sock, token, retry, rotation, file, task, old,
                 created, crashed, restarts>>

\* The agent is started again and reads the file it left.
AgentRestart(t) ==
  /\ restarts < MaxRestarts
  /\ restarts' = restarts + 1
  /\ sess' = 0 /\ ws' = None /\ retry' = "none" /\ rotation' = FALSE
  /\ crashed' = FALSE
  /\ sock' = [k \in Sockets |-> IF sock[k] = "idle" THEN "idle" ELSE "closed"]
  /\ file' = IF file \in old THEN 0 ELSE file
  /\ task' = [u \in Tasks |-> IF u # t THEN Idle
                ELSE [does |-> IF file' = 0 THEN "create" ELSE "restore",
                      id |-> file', caught |-> TRUE]]
  /\ UNCHANGED <<token, rows, old, created>>

Next ==
  \/ \E t \in Tasks, k \in Sockets :
       \/ RestoreOk(t, k) \/ CreateOk(t, k) \/ CreateFailed(t, k)
       \/ AuthOk(k, t) \/ AdapterToggle(k, t)
  \/ \E t \in Tasks :
       \/ RestoreFailed(t) \/ RefreshOk(t) \/ RefreshFailed(t)
       \/ RefreshRejected(t) \/ RotationTimer(t) \/ SessionRetryTimer(t)
       \/ AgentRestart(t)
  \/ \E k \in Sockets :
       \/ ReconnectTimer(k) \/ SocketOpen(k) \/ PeerStatus(k)
       \/ SocketClose(k) \/ SocketError(k)
  \/ \E n \in Ids : Expire(n) \/ RelayPrunes(n)

Spec == Init /\ [][Next]_vars

-----------------------------------------------------------------------------
Ensuring == \E t \in Tasks : task[t].does \in {"restore", "create"}

Live(k) == sock[k] \in {"connecting", "open", "closing"}

\* A client that has no usable session is about to get one, and one whose
\* current socket is dead is about to replace it: no order of rotations,
\* closes of replaced sockets and failed requests leaves the agent off the
\* relay with nothing under way.
NeverStranded ==
  Up => /\ sess \notin Ids => Ensuring \/ retry # "none"
        /\ sess \in Ids /\ (ws = None \/ ~Live(ws)) => Ensuring \/ retry # "none"

\* A session is never held without the timer that replaces it in time.
SessionIsTimed == Up /\ sess \in Ids => rotation

\* The file never names a session other than the one in use: whatever
\* rotations and restores overlap, an agent that restarts resumes the session
\* its phone is paired with, or none.
FileNamesSession == Up /\ sess \in Ids => file \in {0, sess}

\* The agent has one connection to the relay.
OneConnection ==
  Cardinality({k \in Sockets : sock[k] = "open" /\ token[k] \in rows}) <= 1

\* No exception of the relay client ends the agent.
KeepsRunning == ~crashed
=============================================================================

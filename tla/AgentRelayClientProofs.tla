----------------------- MODULE AgentRelayClientProofs -----------------------
(***************************************************************************)
(* Theorems about AgentRelayClient: its types, the timer and the file of a *)
(* session, and that a client without a usable connection has something    *)
(* under way, for any number of sockets, tasks, sessions and restarts.     *)
(***************************************************************************)
EXTENDS AgentRelayClient, TLAPS

-----------------------------------------------------------------------------
(* Links.                                                                  *)

SockStates == {"idle", "connecting", "open", "closing", "closed"}

Links == [sess : {Ghost, 0} \cup Ids, ws : Sockets \cup {None},
          sock : [Sockets -> SockStates], retry : {"none", "connect", "session"},
          rotation : BOOLEAN, file : {0} \cup Ids, crashed : BOOLEAN]

\* A session that is held is timed and the one on disk, if any is; a
\* reconnect is only scheduled for a session.
LinkSound(l) ==
  /\ l.sess \in Ids => l.rotation
  /\ l.sess \in Ids => l.file \in {0, l.sess}
  /\ l.retry = "connect" => l.sess # 0

\* The link has a session whose socket is not dead.
Attached(l) ==
  /\ l.sess \in Ids /\ l.ws # None
  /\ l.sock[l.ws] \in {"connecting", "open", "closing"}

\* Ghost and null are no ids.
LEMMA IdsArePositive == /\ Ids \subseteq Nat
                        /\ Ghost \notin Ids /\ 0 \notin Ids /\ Ghost # 0
  BY BoundAssumption DEF Ids, Ghost

\* The variables the methods share, as a link.
LEMMA LinkType ==
  ASSUME TypeOK
  PROVE  /\ Link \in Links
         /\ Link.sess = sess /\ Link.ws = ws /\ Link.sock = sock
         /\ Link.retry = retry /\ Link.rotation = rotation
         /\ Link.file = file /\ Link.crashed = crashed
  BY DEF TypeOK, Link, Links, SockStates

\* connect() keeps a link sound; it attaches it when there is a session.
LEMMA ConnectKeeps ==
  ASSUME NEW l \in Links, NEW k \in Sockets, NEW c \in BOOLEAN
  PROVE  /\ Connect(l, k, c) \in Links
         /\ LinkSound(l) => LinkSound(Connect(l, k, c))
         /\ Connect(l, k, c).retry = l.retry
         /\ Connect(l, k, c).sess = l.sess
         /\ l.sess \in Ids => Attached(Connect(l, k, c))
         /\ l.sess = Ghost => Connect(l, k, c).crashed = ~c
<1>1. l.sock \in [Sockets -> SockStates] /\ k # None
  BY NoneAssumption DEF Links
<1>2. CASE l.sess = 0
  BY <1>2, IdsArePositive DEF Connect
<1>3. CASE l.sess = Ghost
  BY <1>3, IdsArePositive DEF Connect, Links, LinkSound
<1>4. CASE l.sess \in Ids
  <2>1. Connect(l, k, c) = [l EXCEPT !.ws = k, !.sock[k] = "connecting"]
    BY <1>4, IdsArePositive DEF Connect
  <2>2. [l EXCEPT !.ws = k, !.sock[k] = "connecting"] \in Links
    BY <1>1 DEF Links, SockStates
  <2>3. /\ Connect(l, k, c).sock[k] = "connecting"
        /\ Connect(l, k, c).ws = k
    BY <1>1, <2>1 DEF Links
  <2> QED
    BY <1>1, <1>4, <2>1, <2>2, <2>3, IdsArePositive DEF Links, LinkSound, Attached
<1> QED
  BY <1>2, <1>3, <1>4 DEF Links

\* close() on a socket changes nothing but its state.
LEMMA CloseKeeps ==
  ASSUME NEW l \in Links, NEW k \in Sockets \cup {None}
  PROVE  /\ Close(l, k) \in Links
         /\ LinkSound(l) => LinkSound(Close(l, k))
         /\ Close(l, k).sess = l.sess /\ Close(l, k).retry = l.retry
         /\ Close(l, k).crashed = l.crashed
         /\ Attached(l) => Attached(Close(l, k))
<1>1. CASE k # None /\ l.sock[k] \in {"connecting", "open"}
  <2>1. Close(l, k) = [l EXCEPT !.sock[k] = "closing"] /\ k \in Sockets
    BY <1>1 DEF Close
  <2> QED
    BY <2>1, NoneAssumption DEF Links, SockStates, LinkSound, Attached
<1>2. CASE ~(k # None /\ l.sock[k] \in {"connecting", "open"})
  BY <1>2 DEF Close
<1> QED
  BY <1>1, <1>2

\* A reconnect that is asked for is scheduled, unless there is no session.
LEMMA ScheduleReconnectKeeps ==
  ASSUME NEW l \in Links
  PROVE  /\ ScheduleReconnect(l) \in Links
         /\ LinkSound(l) => LinkSound(ScheduleReconnect(l))
         /\ ScheduleReconnect(l).sess = l.sess
         /\ ScheduleReconnect(l).crashed = l.crashed
         /\ l.sess # 0 => ScheduleReconnect(l).retry # "none"
         /\ l.retry # "none" => ScheduleReconnect(l).retry # "none"
  BY DEF ScheduleReconnect, Links, LinkSound

\* What rotateSession() leaves before it asks for a new session.
LEMMA DroppedKeeps ==
  ASSUME NEW l \in Links
  PROVE  Dropped(l) \in Links /\ LinkSound(Dropped(l))
<1> DEFINE c == Close(l, l.ws)
<1>1. c \in Links
  BY CloseKeeps DEF Links
<1>2. Dropped(l) = [c EXCEPT !.retry = "none", !.rotation = FALSE,
                             !.ws = None, !.sess = 0, !.file = 0]
  BY DEF Dropped
<1> HIDE DEF c
<1> QED
  BY <1>1, <1>2, IdsArePositive DEF Links, LinkSound

\* A session that is adopted is timed and on disk.
LEMMA AdoptedKeeps ==
  ASSUME NEW l \in Links, NEW n \in Ids
  PROVE  /\ Adopted(l, n) \in Links
         /\ LinkSound(Adopted(l, n))
         /\ Adopted(l, n).sess = n
  BY IdsArePositive DEF Adopted, Links, LinkSound

-----------------------------------------------------------------------------
(* The invariant: the types, a sound link, and NeverStranded itself.       *)

Sound ==
  /\ sess \in Ids => rotation
  /\ sess \in Ids => file \in {0, sess}
  /\ retry = "connect" => sess # 0

Inv == TypeOK /\ Sound /\ NeverStranded

Tasked == [does : {"nothing", "restore", "create", "refresh"},
           id : {Ghost, 0} \cup Ids, caught : BOOLEAN]

\* The variables that methods do not share.
Others ==
  /\ token \in [Sockets -> {Ghost, 0} \cup Ids]
  /\ task \in [Tasks -> Tasked]
  /\ rows \subseteq Ids /\ old \subseteq Ids
  /\ created \in 0 .. MaxSession
  /\ restarts \in 0 .. MaxRestarts

\* A method that leaves a sound link which is attached or has something
\* under way keeps the invariant.
LEMMA BecomesKeeps ==
  ASSUME NEW l \in Links, Becomes(l), LinkSound(l), Others',
         l.crashed \/ Attached(l) \/ l.retry # "none" \/ Ensuring'
  PROVE  Inv'
<1>1. TypeOK'
  BY DEF TypeOK, Becomes, Links, Others, Tasked, SockStates
<1>2. Sound'
  BY DEF Sound, LinkSound, Becomes
<1>3. NeverStranded'
  BY DEF NeverStranded, Up, Becomes, Attached, Live
<1> QED
  BY <1>1, <1>2, <1>3 DEF Inv

\* The invariant in terms of the link.
LEMMA InvOfLink ==
  ASSUME Inv
  PROVE  /\ Link \in Links /\ LinkSound(Link) /\ Others
         /\ crashed \/ Attached(Link) \/ retry # "none" \/ Ensuring
  BY LinkType DEF Inv, Sound, LinkSound, Others, Tasked, TypeOK, NeverStranded,
     Up, Attached, Live

\* ensureSession() leaves its method waiting for a session.
LEMMA EnsureKeeps ==
  ASSUME Inv, NEW t \in Tasks, NEW l \in Links, LinkSound(l),
         NEW c \in BOOLEAN, Ensure(t, l, c),
         UNCHANGED <<token, rows, old, created, restarts>>
  PROVE  Inv'
<1> DEFINE stale == l.file \in old
           m     == IF stale THEN [l EXCEPT !.file = 0] ELSE l
           w     == IF l.file = 0 \/ stale
                    THEN [does |-> "create", id |-> 0, caught |-> c]
                    ELSE [does |-> "restore", id |-> l.file, caught |-> c]
<1>1. Becomes(m) /\ task' = [task EXCEPT ![t] = w]
  BY DEF Ensure
<1>2. m \in Links /\ LinkSound(m)
  BY DEF Links, LinkSound
<1>3. w \in Tasked /\ w.does \in {"restore", "create"}
  BY DEF Tasked, Links
<1> HIDE DEF m, w
<1>4. Others
  BY InvOfLink
<1>5. Others' /\ Ensuring'
  <2>1. task' \in [Tasks -> Tasked] /\ task'[t] = w
    BY <1>1, <1>3, <1>4 DEF Others
  <2> QED
    BY <1>3, <1>4, <2>1 DEF Others, Ensuring
<1> QED
  BY <1>1, <1>2, <1>5, BecomesKeeps

\* A method that was not waiting for a session may come to an end or ask
\* for the state of the session.
LEMMA EnsuringStays ==
  ASSUME Others, NEW t \in Tasks, task[t].does \notin {"restore", "create"},
         NEW w \in Tasked, task' = [task EXCEPT ![t] = w], Ensuring
  PROVE  Ensuring'
<1>1. PICK u \in Tasks : task[u].does \in {"restore", "create"}
  BY DEF Ensuring
<1>2. u # t /\ task'[u] = task[u]
  BY <1>1 DEF Others
<1> QED
  BY <1>1, <1>2 DEF Ensuring

\* The start value of a task.
LEMMA IdleTask == Idle \in Tasked /\ Idle.does = "nothing"
  BY DEF Idle, Tasked

-----------------------------------------------------------------------------
(* One lemma per group of handlers.                                        *)

\* Answers that make a session current attach the client to it.
LEMMA SessionMade ==
  ASSUME Inv, NEW t \in Tasks, NEW k \in Sockets,
         RestoreOk(t, k) \/ CreateOk(t, k)
  PROVE  Inv'
<1>1. Link \in Links /\ Others
  BY InvOfLink
<1>2. PICK n \in Ids :
        /\ Becomes(Connect(Adopted(Link, n), k, TRUE))
        /\ task' = [task EXCEPT ![t] = Idle]
        /\ Others'
  <2>1. CASE RestoreOk(t, k)
    <3>1. task[t].id \in Ids
      BY <1>1, <2>1 DEF RestoreOk, Others
    <3>2. Others'
      BY <1>1, <2>1, IdleTask DEF RestoreOk, Others
    <3> QED
      BY <2>1, <3>1, <3>2 DEF RestoreOk
  <2>2. CASE CreateOk(t, k)
    <3>1. created' \in Ids
      BY <1>1, <2>2, BoundAssumption DEF CreateOk, Others, Ids
    <3>2. Others'
      BY <1>1, <2>2, <3>1, IdleTask, BoundAssumption
         DEF CreateOk, Others, Ids
    <3> QED
      BY <2>2, <3>1, <3>2 DEF CreateOk
  <2> QED
    BY <2>1, <2>2
<1> DEFINE a == Adopted(Link, n)
           l == Connect(a, k, TRUE)
<1>3. a \in Links /\ LinkSound(a) /\ a.sess = n
  BY <1>1, AdoptedKeeps
<1> HIDE DEF a
<1>4. l \in Links /\ LinkSound(l) /\ Attached(l)
  BY <1>3, ConnectKeeps
<1> HIDE DEF l
<1> QED
  BY <1>2, <1>4, BecomesKeeps DEF l, a

\* A relay that does not answer leaves the client waiting, or due to try
\* again.
LEMMA SessionNotMade ==
  ASSUME Inv, NEW t \in Tasks,
         RestoreFailed(t) \/ \E k \in Sockets : CreateFailed(t, k)
  PROVE  Inv'
<1>1. Link \in Links /\ LinkSound(Link) /\ Others
  BY InvOfLink
<1>2. CASE RestoreFailed(t)
  <2> DEFINE w == [task[t] EXCEPT !.does = "create", !.id = 0]
             l == [Link EXCEPT !.file = file']
  <2>1. task' = [task EXCEPT ![t] = w]
    BY <1>2 DEF RestoreFailed
  <2>2. w \in Tasked /\ w.does = "create"
    BY <1>1 DEF Others, Tasked
  <2> HIDE DEF w
  <2>3. Others' /\ Ensuring'
    BY <1>1, <1>2, <2>1, <2>2 DEF RestoreFailed, Others, Ensuring
  <2>4. Becomes(l)
    BY <1>2 DEF RestoreFailed, Becomes, Link
  <2>5. file' \in {0, file} /\ Link.file = file
    BY <1>2 DEF RestoreFailed, Link
  <2>6. l \in Links /\ LinkSound(l)
    BY <1>1, <2>5 DEF Links, LinkSound
  <2> HIDE DEF l
  <2> QED
    BY <2>3, <2>4, <2>6, BecomesKeeps
<1>3. CASE \E k \in Sockets : CreateFailed(t, k)
  <2>0. PICK k \in Sockets : CreateFailed(t, k)
    BY <1>3
  <2> DEFINE m == ScheduleSessionRetry(Link)
             l == Connect(m, k, task[t].caught)
  <2>1. m \in Links /\ LinkSound(m) /\ m.retry # "none"
    BY <1>1 DEF ScheduleSessionRetry, Links, LinkSound
  <2> HIDE DEF m
  <2>2. task[t].caught \in BOOLEAN
    BY <1>1 DEF Others, Tasked
  <2>3. l \in Links /\ LinkSound(l) /\ l.retry # "none"
    BY <2>1, <2>2, ConnectKeeps
  <2> HIDE DEF l
  <2>4. Others' /\ Becomes(l)
    BY <1>1, <2>0, IdleTask DEF CreateFailed, Others, l, m
  <2> QED
    BY <2>3, <2>4, BecomesKeeps
<1> QED
  BY <1>2, <1>3

\* The answer to a refresh: a session that went away meanwhile comes back
\* as an object without a token, while the next one is on its way.
LEMMA Refreshed ==
  ASSUME Inv, NEW t \in Tasks,
         RefreshOk(t) \/ RefreshFailed(t) \/ RefreshRejected(t)
  PROVE  Inv'
<1>1. /\ Link \in Links /\ LinkSound(Link) /\ Others
      /\ crashed \/ Attached(Link) \/ retry # "none" \/ Ensuring
  BY InvOfLink
<1>2. CASE RefreshRejected(t)
  <2>1. Dropped(Link) \in Links /\ LinkSound(Dropped(Link))
    BY <1>1, DroppedKeeps
  <2> QED
    BY <1>2, <2>1, EnsureKeeps DEF RefreshRejected
<1>3. CASE RefreshOk(t) \/ RefreshFailed(t)
  <2> DEFINE l == [Link EXCEPT !.sess = sess']
  <2>1. /\ Becomes(l)
        /\ task' = [task EXCEPT ![t] = Idle]
        /\ task[t].does = "refresh"
        /\ sess' = sess \/ (sess = 0 /\ sess' = Ghost)
    BY <1>3 DEF RefreshOk, RefreshFailed, Becomes, Link
  <2>2. Others'
    BY <1>1, <1>3, IdleTask DEF RefreshOk, RefreshFailed, Others
  <2>3. Link.sess = sess /\ Link.retry = retry /\ l.retry = retry
        /\ l.crashed = Link.crashed /\ Link.crashed = crashed
    BY DEF Link
  <2>4. l \in Links /\ LinkSound(l)
    BY <1>1, <2>1, <2>3, IdsArePositive DEF Links, LinkSound
  <2>5. Attached(Link) => Attached(l)
    BY <1>1, <2>1, <2>3, IdsArePositive DEF Attached, Links
  <2>6. Ensuring => Ensuring'
    BY <1>1, <2>1, IdleTask, EnsuringStays
  <2> HIDE DEF l
  <2> QED
    BY <1>1, <2>1, <2>2, <2>3, <2>4, <2>5, <2>6, BecomesKeeps
<1> QED
  BY <1>2, <1>3

\* The timers: a rotation and a session retry ask for a session, a reconnect
\* has one to connect to.
LEMMA TimerFires ==
  ASSUME Inv,
         \/ \E t \in Tasks : RotationTimer(t) \/ SessionRetryTimer(t)
         \/ \E k \in Sockets : ReconnectTimer(k)
  PROVE  Inv'
<1>1. Link \in Links /\ LinkSound(Link) /\ Others /\ Link.retry = retry
  BY InvOfLink DEF Link
<1>2. CASE \E t \in Tasks : RotationTimer(t)
  <2>1. Dropped(Link) \in Links /\ LinkSound(Dropped(Link))
    BY <1>1, DroppedKeeps
  <2> QED
    BY <1>2, <2>1, EnsureKeeps DEF RotationTimer
<1> DEFINE m == [Link EXCEPT !.retry = "none"]
<1>3. m \in Links /\ LinkSound(m) /\ m.sess = Link.sess
  BY <1>1 DEF Links, LinkSound
<1>4. CASE \E t \in Tasks : SessionRetryTimer(t)
  BY <1>3, <1>4, EnsureKeeps DEF SessionRetryTimer
<1>5. CASE \E k \in Sockets : ReconnectTimer(k)
  <2>0. PICK k \in Sockets : ReconnectTimer(k)
    BY <1>5
  <2> DEFINE l == Connect(m, k, FALSE)
  <2>1. Becomes(l) /\ retry = "connect"
    BY <2>0 DEF ReconnectTimer
  <2>2. Link.sess \in {Ghost} \cup Ids
    BY <1>1, <2>1 DEF Links, LinkSound
  <2> HIDE DEF m
  <2>3. l \in Links /\ LinkSound(l) /\ (Attached(l) \/ l.crashed)
    BY <1>3, <2>2, ConnectKeeps
  <2> HIDE DEF l
  <2>4. Others'
    BY <1>1, <2>0 DEF ReconnectTimer, Others
  <2> QED
    BY <2>1, <2>3, <2>4, BecomesKeeps
<1> QED
  BY <1>2, <1>4, <1>5

\* A socket that opens leaves the client as attached as it was.
LEMMA SocketOpens ==
  ASSUME Inv, NEW k \in Sockets, SocketOpen(k)
  PROVE  Inv'
<1>1. TypeOK /\ Sound /\ NeverStranded
  BY DEF Inv
<1>2. TypeOK'
  BY <1>1 DEF SocketOpen, TypeOK
<1>3. Sound'
  BY <1>1 DEF SocketOpen, Sound
<1>4. ASSUME Live(ws) PROVE ws \in Sockets => Live(ws)'
  BY <1>1, <1>4 DEF SocketOpen, Live, TypeOK
<1>5. NeverStranded'
  <2>1. Ensuring' = Ensuring /\ ws' = ws /\ sess' = sess /\ retry' = retry /\ Up
    BY DEF SocketOpen, Ensuring
  <2>2. ws = None \/ ws \in Sockets
    BY <1>1 DEF TypeOK
  <2> QED
    BY <1>1, <1>4, <2>1, <2>2 DEF NeverStranded
<1> QED
  BY <1>2, <1>3, <1>5 DEF Inv

\* A socket that closes or fails leaves a reconnect scheduled, or a session
\* on its way.
LEMMA SocketDies ==
  ASSUME Inv, NEW k \in Sockets, SocketClose(k) \/ SocketError(k)
  PROVE  Inv'
<1>1. /\ Link \in Links /\ LinkSound(Link) /\ Others
      /\ crashed \/ Attached(Link) \/ retry # "none" \/ Ensuring
  BY InvOfLink
<1> DEFINE m == [Link EXCEPT !.sock[k] = "closed"]
           c == Close(m, ws)
<1>2. m \in Links /\ LinkSound(m) /\ m.sess = Link.sess /\ m.retry = Link.retry
      /\ m.crashed = Link.crashed
  BY <1>1 DEF Links, LinkSound, SockStates
<1>3. ws \in Sockets \cup {None}
  BY DEF Inv, TypeOK
<1>4. Link.sess = sess /\ Link.retry = retry /\ Link.crashed = crashed
  BY DEF Link
<1> HIDE DEF m
<1>5. c \in Links /\ LinkSound(c) /\ c.sess = sess /\ c.retry = retry
      /\ c.crashed = crashed
  BY <1>2, <1>3, <1>4, CloseKeeps
<1> HIDE DEF c
<1>6. PICK l \in {m, c} : Becomes(ScheduleReconnect(l))
  BY DEF SocketClose, SocketError, m, c
<1> DEFINE r == ScheduleReconnect(l)
<1>7. /\ r \in Links /\ LinkSound(r) /\ r.crashed = crashed
      /\ sess # 0 => r.retry # "none"
      /\ retry # "none" => r.retry # "none"
  BY <1>2, <1>4, <1>5, <1>6, ScheduleReconnectKeeps
<1> HIDE DEF r
<1>8. Others' /\ Ensuring' = Ensuring
  BY <1>1 DEF SocketClose, SocketError, Others, Ensuring
<1>9. Attached(Link) => sess # 0
  BY <1>4, IdsArePositive DEF Attached
<1> QED
  BY <1>1, <1>6, <1>7, <1>8, <1>9, BecomesKeeps DEF r

\* sendStatusSnapshot() asks for the state of the session, or rotates it.
LEMMA SnapshotKeeps ==
  ASSUME Inv, NEW t \in Tasks, task[t] = Idle, NEW l \in Links, LinkSound(l),
         l.crashed = crashed, l.retry = retry, Attached(Link) => Attached(l),
         SendStatusSnapshot(t, l),
         UNCHANGED <<token, rows, old, created, restarts>>
  PROVE  Inv'
<1>1. /\ Others
      /\ crashed \/ Attached(Link) \/ retry # "none" \/ Ensuring
  BY InvOfLink
<1>2. CASE l.sess \in old
  <2>1. Dropped(l) \in Links /\ LinkSound(Dropped(l))
    BY DroppedKeeps
  <2> QED
    BY <1>2, <2>1, EnsureKeeps DEF SendStatusSnapshot
<1>3. CASE l.sess \notin old
  <2> DEFINE w == [does |-> "refresh", id |-> l.sess, caught |-> TRUE]
  <2>1. Becomes(l) /\ task' = [task EXCEPT ![t] = w]
    BY <1>3 DEF SendStatusSnapshot
  <2>2. w \in Tasked
    BY DEF Tasked, Links
  <2> HIDE DEF w
  <2>3. Ensuring => Ensuring'
    BY <1>1, <2>1, <2>2, IdleTask, EnsuringStays
  <2>4. Others'
    BY <1>1, <2>1, <2>2 DEF Others
  <2> QED
    BY <1>1, <2>1, <2>3, <2>4, BecomesKeeps
<1> QED
  BY <1>2, <1>3

\* Frames of the relay write the session in use to disk.
LEMMA FrameHeard ==
  ASSUME Inv, NEW k \in Sockets,
         \/ \E t \in Tasks : AuthOk(k, t) \/ AdapterToggle(k, t)
         \/ PeerStatus(k)
  PROVE  Inv'
<1>1. /\ Link \in Links /\ LinkSound(Link) /\ Others
      /\ crashed \/ Attached(Link) \/ retry # "none" \/ Ensuring
      /\ Link.crashed = crashed /\ Link.retry = retry /\ Link.sess = sess
  BY InvOfLink DEF Link
<1> DEFINE l == [Link EXCEPT !.file = OnDisk(sess)]
<1>2. OnDisk(sess) \in {0} \cup Ids /\ (sess \in Ids => OnDisk(sess) = sess)
  BY IdsArePositive DEF OnDisk, Inv, TypeOK
<1>3. /\ l \in Links /\ LinkSound(l)
      /\ l.crashed = crashed /\ l.retry = retry
      /\ Attached(Link) => Attached(l)
  BY <1>1, <1>2 DEF Links, LinkSound, Attached
<1> HIDE DEF l
<1>4. CASE \E t \in Tasks : AuthOk(k, t)
  BY <1>3, <1>4, SnapshotKeeps DEF AuthOk, Free, l
<1>5. CASE \E t \in Tasks : AdapterToggle(k, t)
  BY <1>1, <1>5, SnapshotKeeps DEF AdapterToggle, Free
<1>6. CASE PeerStatus(k)
  <2>1. Becomes(l) /\ Others' /\ Ensuring' = Ensuring
    BY <1>1, <1>6 DEF PeerStatus, Others, Ensuring, l
  <2> QED
    BY <1>1, <1>3, <2>1, BecomesKeeps
<1> QED
  BY <1>4, <1>5, <1>6

\* An agent that is started again asks for a session.
LEMMA AgentRestarts ==
  ASSUME Inv, NEW t \in Tasks, AgentRestart(t)
  PROVE  Inv'
<1>1. TypeOK
  BY DEF Inv
<1>2. file' \in {0} \cup Ids
  BY <1>1 DEF AgentRestart, TypeOK
<1>3. TypeOK'
  <2>1. restarts' \in 0 .. MaxRestarts
    BY <1>1, BoundAssumption DEF AgentRestart, TypeOK
  <2>2. \A d \in {"create", "restore"} :
          [does |-> d, id |-> file', caught |-> TRUE] \in Tasked
    BY <1>2 DEF Tasked
  <2>3. task' \in [Tasks -> Tasked]
    BY <2>2, IdleTask DEF AgentRestart
  <2> QED
    BY <1>1, <1>2, <2>1, <2>3 DEF AgentRestart, TypeOK, Tasked
<1>4. Ensuring'
  <2>1. task'[t].does \in {"restore", "create"}
    BY DEF AgentRestart
  <2> QED
    BY <2>1 DEF Ensuring
<1>5. Sound' /\ NeverStranded'
  BY <1>4, IdsArePositive DEF AgentRestart, Sound, NeverStranded
<1> QED
  BY <1>3, <1>5 DEF Inv

\* Every step keeps the invariant.
LEMMA NextKeepsInv == Inv /\ [Next]_vars => Inv'
<1> SUFFICES ASSUME Inv, [Next]_vars PROVE Inv'
  OBVIOUS
<1>1. CASE \E t \in Tasks, k \in Sockets :
             \/ RestoreOk(t, k) \/ CreateOk(t, k) \/ CreateFailed(t, k)
             \/ AuthOk(k, t) \/ AdapterToggle(k, t)
  BY <1>1, SessionMade, SessionNotMade, FrameHeard
<1>2. CASE \E t \in Tasks :
             \/ RestoreFailed(t) \/ RefreshOk(t) \/ RefreshFailed(t)
             \/ RefreshRejected(t) \/ AgentRestart(t)
  BY <1>2, SessionNotMade, Refreshed, AgentRestarts
<1>3. CASE \E t \in Tasks : RotationTimer(t) \/ SessionRetryTimer(t)
  BY <1>3, TimerFires
<1>4. CASE \E k \in Sockets :
             \/ ReconnectTimer(k) \/ SocketOpen(k) \/ PeerStatus(k)
             \/ SocketClose(k) \/ SocketError(k)
  BY <1>4, TimerFires, SocketOpens, FrameHeard, SocketDies
<1>5. CASE \/ \E n \in Ids : Expire(n) \/ RelayPrunes(n)
           \/ UNCHANGED vars
  <2>1. UNCHANGED <<sess, ws, sock, token, retry, rotation, file, task, created,
                    crashed, restarts>>
    BY <1>5 DEF Expire, RelayPrunes, vars
  <2>2. rows' \subseteq Ids /\ old' \subseteq Ids
    BY <1>5 DEF Expire, RelayPrunes, vars, Inv, TypeOK
  <2> QED
    BY <2>1, <2>2 DEF Inv, TypeOK, Sound, NeverStranded, Up, Ensuring, Live
<1> QED
  BY <1>1, <1>2, <1>3, <1>4, <1>5 DEF Next

\* The invariant of the client holds in every state.
LEMMA InvHolds == Spec => []Inv
<1>1. Init => Inv
  <2> SUFFICES ASSUME Init PROVE Inv
    OBVIOUS
  <2>1. TypeOK
    <3>1. [does |-> "create", id |-> 0, caught |-> TRUE] \in Tasked
      BY DEF Tasked
    <3>2. task \in [Tasks -> Tasked]
      BY <3>1, IdleTask DEF Init
    <3>3. created \in 0 .. MaxSession /\ restarts \in 0 .. MaxRestarts
      BY BoundAssumption DEF Init
    <3>4. /\ sock \in [Sockets -> SockStates]
          /\ token \in [Sockets -> {Ghost, 0} \cup Ids]
      BY DEF Init, SockStates
    <3>5. /\ sess = 0 /\ ws = None /\ retry = "none" /\ rotation = FALSE
          /\ file = 0 /\ rows = {} /\ old = {} /\ crashed = FALSE
      BY DEF Init
    <3> QED
      BY <3>2, <3>3, <3>4, <3>5 DEF TypeOK, Tasked, SockStates
  <2>2. Ensuring
    BY DEF Init, Ensuring
  <2> QED
    BY <2>1, <2>2, IdsArePositive DEF Init, Inv, Sound, NeverStranded
<1>2. Inv /\ [Next]_vars => Inv'
  BY NextKeepsInv
<1> QED
  BY <1>1, <1>2, PTL DEF Spec

-----------------------------------------------------------------------------
\* The variables of the client keep their types; a session id that is in
\* use, on disk, in a token or asked about is one the relay has given out.
THEOREM ClientTypeCorrect == Spec => []TypeOK
<1>1. Inv => TypeOK
  BY DEF Inv
<1> QED
  BY <1>1, InvHolds, PTL

\* Whatever rotations, failed requests, closes of replaced sockets and
\* restarts overlap, a client off the relay has something under way.
THEOREM ClientNeverStranded == Spec => []NeverStranded
<1>1. Inv => NeverStranded
  BY DEF Inv
<1> QED
  BY <1>1, InvHolds, PTL

\* A session is never held without its rotation timer.
THEOREM SessionAlwaysTimed == Spec => []SessionIsTimed
<1>1. Inv => SessionIsTimed
  BY DEF Inv, Sound, SessionIsTimed
<1> QED
  BY <1>1, InvHolds, PTL

\* The file never names another session than the one in use.
THEOREM FileAlwaysNamesSession == Spec => []FileNamesSession
<1>1. Inv => FileNamesSession
  BY DEF Inv, Sound, FileNamesSession
<1> QED
  BY <1>1, InvHolds, PTL
=============================================================================

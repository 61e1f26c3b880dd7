--------------------------- MODULE RelayHubProofs ---------------------------
(***************************************************************************)
(* Theorems about RelayHub: its types and routing table, what the sockets  *)
(* were told of it, the places of the phone and of the agents in it, and   *)
(* file requests, for any sessions, sockets, workspaces and requests; and  *)
(* about RelayFiles, where phones read files through the relay, for any    *)
(* files besides.                                                          *)
(***************************************************************************)
EXTENDS RelayFiles, InsertionMapProofs

-----------------------------------------------------------------------------
(* Types.                                                                  *)

\* Map.get gives a socket or undefined.
LEMMA MapGetType ==
  ASSUME NEW m \in Seq(Entry), NEW w
  PROVE  MapGet(m, w) \in Sockets \cup {None}
<1>1. CASE w \in Keys(m)
  <2>1. Position(m, w) \in DOMAIN m
    BY <1>1, PositionOfKey
  <2>2. m[Position(m, w)] \in Entry
    BY <2>1
  <2> QED
    BY <1>1, <2>2 DEF MapGet, Entry
<1>2. CASE w \notin Keys(m)
  BY <1>2 DEF MapGet
<1> QED
  BY <1>1, <1>2

\* The last key of a Map is a workspace, or null for an empty Map.
LEMMA LastKeyType ==
  ASSUME NEW m \in Seq(Entry)
  PROVE  LastKey(m) \in Workspaces \cup {None}
<1>1. CASE m = <<>>
  BY <1>1 DEF LastKey
<1>2. CASE m # <<>>
  <2>1. m[Len(m)] \in Entry
    BY <1>2
  <2> QED
    BY <1>2, <2>1 DEF LastKey, Entry
<1> QED
  BY <1>1, <1>2

\* getSessionPeers returns a SessionPeers record, new or old.
LEMMA GetSessionPeersType ==
  ASSUME TypeOK, NEW s \in Sessions
  PROVE  GetSessionPeers(s) \in Peers
<1>1. EmptyPeers \in Peers
  BY DEF EmptyPeers, Peers
<1> QED
  BY <1>1 DEF GetSessionPeers, TypeOK

\* broadcastPeerStatus leaves every socket with a status or none.
LEMMA BroadcastType ==
  ASSUME TypeOK, NEW p
  PROVE  Broadcast(p) \in [Sockets -> Status \cup {None}]
<1>1. PeerStatus(p) \in Status
  BY DEF PeerStatus, Status
<1> QED
  BY <1>1 DEF Broadcast, TypeOK

\* registerAgentWorkspace turns a SessionPeers record into another.
LEMMA RegisteredType ==
  ASSUME TypeOK, NEW p \in Peers, NEW k \in Sockets, NEW w \in Workspaces
  PROVE  Registered(p, k, w) \in Peers
<1> DEFINE renamed == IF wsId[k] # None /\ wsId[k] # w
                      THEN MapDelete(p.agents, wsId[k]) ELSE p.agents
           e == [id |-> w, ws |-> k]
<1>1. p.agents \in Seq(Entry) /\ p.mobile \in Sockets \cup {None}
  BY DEF Peers
<1>2. renamed \in Seq(Entry)
  BY <1>1, MapDeleteType
<1>3. MapDelete(renamed, w) \in Seq(Entry)
  BY <1>2, MapDeleteType
<1>4. e \in Entry
  BY DEF Entry
<1>5. Append(MapDelete(renamed, w), e) \in Seq(Entry)
  BY <1>3, <1>4
<1>6. Registered(p, k, w) = [p EXCEPT !.agents = Append(MapDelete(renamed, w), e),
                                      !.active = w]
  BY DEF Registered
<1> HIDE DEF renamed, e
<1> QED
  BY <1>1, <1>5, <1>6 DEF Peers

\* The close handler turns a SessionPeers record into another.
LEMMA DepartedType ==
  ASSUME TypeOK, NEW p \in Peers, NEW k \in Sockets
  PROVE  Departed(p, k) \in Peers
<1> DEFINE rest == MapDelete(p.agents, wsId[k])
<1>1. p.agents \in Seq(Entry)
  BY DEF Peers
<1>2. rest \in Seq(Entry)
  BY <1>1, MapDeleteType
<1>3. LastKey(rest) \in Workspaces \cup {None}
  BY <1>2, LastKeyType
<1>4. Departed(p, k) =
        IF claims[k].role = "mobile"
        THEN [p EXCEPT !.mobile = IF p.mobile = k THEN None ELSE p.mobile]
        ELSE IF wsId[k] = None THEN p
        ELSE [p EXCEPT !.agents = rest,
                       !.active = IF p.active = wsId[k] THEN LastKey(rest)
                                  ELSE p.active]
  BY DEF Departed, Peers
<1> HIDE DEF rest
<1> QED
  BY <1>1, <1>2, <1>3, <1>4 DEF Peers

\* resolveTargetAgent gives a socket or null.
LEMMA ResolveTargetAgentType ==
  ASSUME TypeOK, NEW s \in Sessions, NEW w \in Workspaces \cup {None}
  PROVE  ResolveTargetAgent(s, w) \in Sockets \cup {None}
<1>1. CASE peers[s] = None
  BY <1>1 DEF ResolveTargetAgent
<1>2. CASE peers[s] # None
  <2>1. peers[s] \in Peers
    BY <1>2 DEF TypeOK
  <2>2. peers[s].agents \in Seq(Entry)
    BY <2>1 DEF Peers
  <2>3. peers[s].agents # <<>> =>
          peers[s].agents[Len(peers[s].agents)].ws \in Sockets
    <3>1. peers[s].agents # <<>> => peers[s].agents[Len(peers[s].agents)] \in Entry
      BY <2>2
    <3> QED
      BY <3>1 DEF Entry
  <2> QED
    BY <1>2, <2>2, <2>3, MapGetType DEF ResolveTargetAgent
<1> QED
  BY <1>1, <1>2

\* A restart keeps the types.
LEMMA RestartType == ASSUME TypeOK, Restart PROVE TypeOK'
  BY DEF TypeOK, Restart, PrunedRows

\* The steps that write only rows of the store keep the types.
LEMMA StoreStepType ==
  ASSUME TypeOK, NEW s \in Sessions,
         CreateSession(s) \/ Pair(s) \/ Expire(s) \/ PruneExpired
  PROVE  TypeOK'
  BY DEF TypeOK, CreateSession, Pair, Expire, PruneExpired, PrunedRows,
         links, reqs

\* The steps of a file request keep the types.
LEMMA RequestStepType ==
  ASSUME TypeOK, NEW r \in Requests, NEW s \in Sessions,
         NEW w \in Workspaces \cup {None},
         RequestFile(r, s, w) \/ RequestTimeout(r)
  PROVE  TypeOK'
<1>1. CASE RequestFile(r, s, w)
  <2>1. ResolveTargetAgent(s, w) \in Sockets \cup {None}
    BY ResolveTargetAgentType
  <2> QED
    BY <1>1, <2>1 DEF TypeOK, RequestFile, store, links
<1>2. CASE RequestTimeout(r)
  BY <1>2 DEF TypeOK, RequestTimeout, store, links
<1> QED
  BY <1>1, <1>2

\* Accepting a socket and starting to close it keep the types.
LEMMA SocketStepType ==
  ASSUME TypeOK, NEW k \in Sockets,
         \/ Accept(k) \/ FrameRefused(k)
         \/ \E r \in Requests : FileResponse(k, r)
         \/ WriteForPrunedSession(k)
  PROVE  TypeOK'
<1>1. CASE Accept(k)
  BY <1>1 DEF TypeOK, Accept, store, reqs
<1>2. CASE FrameRefused(k)
  BY <1>2 DEF TypeOK, FrameRefused, StartClosing, store, reqs
<1>3. CASE \E r \in Requests : FileResponse(k, r)
  BY <1>3 DEF TypeOK, FileResponse, store, links
<1>4. CASE WriteForPrunedSession(k)
  BY <1>4, RestartType DEF WriteForPrunedSession
<1> QED
  BY <1>1, <1>2, <1>3, <1>4

\* The auth frame keeps the types.
LEMMA AuthenticateType ==
  ASSUME TypeOK, NEW k \in Sockets, NEW s \in Sessions, NEW role \in Roles,
         Authenticate(k, s, role)
  PROVE  TypeOK'
<1> DEFINE old  == GetSessionPeers(s)
           next == IF role = "mobile" THEN [old EXCEPT !.mobile = k] ELSE old
           c    == [session |-> s, role |-> role]
<1>1. old \in Peers
  BY GetSessionPeersType
<1>2. next \in Peers
  BY <1>1 DEF Peers
<1>3. Broadcast(next) \in [Sockets -> Status \cup {None}]
  BY BroadcastType
<1>4. c \in Claims
  BY DEF Claims
<1>5. /\ claims' = [claims EXCEPT ![k] = c]
      /\ peers' = [peers EXCEPT ![s] = next]
      /\ told' = Broadcast(next)
      /\ UNCHANGED <<store, conn, wsId, reqs>>
  BY DEF Authenticate
<1> HIDE DEF next, c
<1> QED
  BY <1>2, <1>3, <1>4, <1>5 DEF TypeOK, store, reqs

\* agent_hello keeps the types.
LEMMA AgentHelloType ==
  ASSUME TypeOK, NEW k \in Sockets, NEW w \in Workspaces, AgentHello(k, w)
  PROVE  TypeOK'
<1> DEFINE s    == claims[k].session
           next == Registered(GetSessionPeers(s), k, w)
<1>1. s \in Sessions
  BY DEF AgentHello, IsRole, TypeOK, Claims
<1>2. next \in Peers
  BY <1>1, GetSessionPeersType, RegisteredType
<1>3. Broadcast(next) \in [Sockets -> Status \cup {None}]
  BY BroadcastType
<1>4. /\ peers' = [peers EXCEPT ![s] = next]
      /\ told' = Broadcast(next)
      /\ wsId' = [wsId EXCEPT ![k] = w]
      /\ UNCHANGED <<store, conn, claims, reqs>>
  BY DEF AgentHello
<1> HIDE DEF s, next
<1> QED
  BY <1>1, <1>2, <1>3, <1>4 DEF TypeOK, store, reqs

\* The close handler keeps the types.
LEMMA SocketClosedType ==
  ASSUME TypeOK, NEW k \in Sockets, SocketClosed(k)
  PROVE  TypeOK'
<1> DEFINE s    == claims[k].session
           next == Departed(peers[s], k)
<1>1. CASE claims[k] = None \/ peers[s] = None
  BY <1>1 DEF TypeOK, SocketClosed, store, reqs
<1>2. CASE claims[k] # None /\ peers[s] # None
  <2>1. s \in Sessions
    BY <1>2 DEF TypeOK, Claims
  <2>2. next \in Peers
    BY <1>2, <2>1, DepartedType DEF TypeOK
  <2>3. Broadcast(next) \in [Sockets -> Status \cup {None}]
    BY BroadcastType
  <2>4. /\ peers' = [peers EXCEPT ![s] = None]
           \/ peers' = [peers EXCEPT ![s] = next]
        /\ told' = told \/ told' = Broadcast(next)
        /\ conn' = [conn EXCEPT ![k] = "closed"]
        /\ UNCHANGED <<store, claims, wsId, reqs>>
    BY <1>2 DEF SocketClosed
  <2> HIDE DEF s, next
  <2> QED
    BY <2>1, <2>2, <2>3, <2>4 DEF TypeOK, store, reqs
<1> QED
  BY <1>1, <1>2

\* Every step keeps the types.
LEMMA NextType == TypeOK /\ [Next]_vars => TypeOK'
<1> SUFFICES ASSUME TypeOK, [Next]_vars PROVE TypeOK'
  OBVIOUS
<1>1. CASE UNCHANGED vars
  BY <1>1 DEF TypeOK, vars
<1>2. CASE \E s \in Sessions : CreateSession(s) \/ Pair(s) \/ Expire(s)
  BY <1>2, StoreStepType
<1>3. CASE PruneExpired
  BY <1>3 DEF TypeOK, PruneExpired, PrunedRows, links, reqs
<1>4. CASE Restart
  BY <1>4, RestartType
<1>5. CASE \E r \in Requests, s \in Sessions, w \in Workspaces \cup {None} :
             RequestFile(r, s, w)
  BY <1>5, RequestStepType
<1>6. CASE \E r \in Requests : RequestTimeout(r)
  BY <1>6 DEF TypeOK, RequestTimeout, store, links
<1>7. CASE \E k \in Sockets : \/ Accept(k) \/ FrameRefused(k)
                              \/ \E r \in Requests : FileResponse(k, r)
                              \/ WriteForPrunedSession(k)
  BY <1>7, SocketStepType
<1>8. CASE \E k \in Sockets, s \in Sessions, role \in Roles :
             Authenticate(k, s, role)
  BY <1>8, AuthenticateType
<1>9. CASE \E k \in Sockets, w \in Workspaces : AgentHello(k, w)
  BY <1>9, AgentHelloType
<1>10. CASE \E k \in Sockets : SocketClosed(k)
  BY <1>10, SocketClosedType
<1> QED
  BY <1>1, <1>2, <1>3, <1>4, <1>5, <1>6, <1>7, <1>8, <1>9, <1>10 DEF Next

\* Every variable of the server keeps its type; in particular the records
\* of `peers` are Maps of registered sockets whatever the sockets do.
THEOREM TypeCorrect == Spec => []TypeOK
<1>1. Init => TypeOK
  BY DEF Init, TypeOK
<1>2. TypeOK /\ [Next]_vars => TypeOK'
  BY NextType
<1> QED
  BY <1>1, <1>2, PTL DEF Spec

-----------------------------------------------------------------------------
(* The routing table.                                                      *)

\* RoutingTableSound and ActiveIsConnected for one record p of session s,
\* against given ready states, claims and announced workspaces.
TableSound(s, p, cn, cl, ws) ==
  /\ \A i \in DOMAIN p.agents :
       /\ cn[p.agents[i].ws] \in {"open", "closing"}
       /\ cl[p.agents[i].ws] = [session |-> s, role |-> "agent"]
       /\ ws[p.agents[i].ws] = p.agents[i].id
  /\ UniqueKeys(p.agents)
  /\ p.mobile # None =>
       /\ cn[p.mobile] \in {"open", "closing"}
       /\ cl[p.mobile] = [session |-> s, role |-> "mobile"]

ActiveSound(p) ==
  /\ p.active \in Keys(p.agents) \cup {None}
  /\ p.active = None <=> p.agents = <<>>

TablesSound ==
  \A s \in Sessions : peers[s] # None =>
    TableSound(s, peers[s], conn, claims, wsId) /\ ActiveSound(peers[s])

\* The two properties of the routing table, from the inductive invariant.
LEMMA TablesSoundMeans ==
  TablesSound <=> RoutingTableSound /\ ActiveIsConnected
  BY DEF TablesSound, TableSound, ActiveSound, RoutingTableSound,
         ActiveIsConnected, UniqueKeys, Readable

\* A step that writes no table and at most opens, or starts to close, a
\* socket leaves the tables sound.
LEMMA TablesUntouched ==
  ASSUME TypeOK, TablesSound, UNCHANGED <<peers, claims, wsId>>,
         \A k \in Sockets : Readable(k) => conn'[k] \in {"open", "closing"}
  PROVE  TablesSound'
<1> SUFFICES ASSUME NEW s \in Sessions, peers[s] # None
             PROVE  TableSound(s, peers[s], conn', claims, wsId)
                    /\ ActiveSound(peers[s])
  BY DEF TablesSound
<1>1. TableSound(s, peers[s], conn, claims, wsId) /\ ActiveSound(peers[s])
  BY DEF TablesSound
<1>2. peers[s] \in Peers
  BY DEF TypeOK
<1>3. /\ peers[s].agents \in Seq(Entry)
      /\ peers[s].mobile \in Sockets \cup {None}
  BY <1>2 DEF Peers
<1>4. \A i \in DOMAIN peers[s].agents : peers[s].agents[i].ws \in Sockets
  <2>1. \A i \in DOMAIN peers[s].agents : peers[s].agents[i] \in Entry
    BY <1>3
  <2> QED
    BY <2>1 DEF Entry
<1> QED
  BY <1>1, <1>3, <1>4 DEF TableSound, Readable

\* The record a handler starts from is sound, also when it has to be made.
LEMMA StartingPeersSound ==
  ASSUME TypeOK, TablesSound, NEW s \in Sessions
  PROVE  /\ GetSessionPeers(s) \in Peers
         /\ TableSound(s, GetSessionPeers(s), conn, claims, wsId)
         /\ ActiveSound(GetSessionPeers(s))
<1>1. CASE peers[s] = None
  <2>1. GetSessionPeers(s) = EmptyPeers
    BY <1>1 DEF GetSessionPeers
  <2>2. TableSound(s, EmptyPeers, conn, claims, wsId)
    BY DEF TableSound, EmptyPeers, UniqueKeys
  <2>3. ActiveSound(EmptyPeers)
    BY DEF ActiveSound, EmptyPeers, Keys
  <2> QED
    BY <2>1, <2>2, <2>3, GetSessionPeersType
<1>2. CASE peers[s] # None
  BY <1>2, GetSessionPeersType DEF GetSessionPeers, TablesSound
<1> QED
  BY <1>1, <1>2

\* The auth frame keeps the tables sound: it makes a record or takes the
\* phone's place in one, and the socket it adds has just got its claims.
LEMMA AuthenticateSound ==
  ASSUME TypeOK, TablesSound,
         NEW k \in Sockets, NEW s \in Sessions, NEW role \in Roles,
         Authenticate(k, s, role)
  PROVE  TablesSound'
<1> DEFINE old  == GetSessionPeers(s)
           next == IF role = "mobile" THEN [old EXCEPT !.mobile = k] ELSE old
           c    == [session |-> s, role |-> role]
<1>1. /\ claims' = [claims EXCEPT ![k] = c]
      /\ peers' = [peers EXCEPT ![s] = next]
      /\ UNCHANGED <<conn, wsId>>
      /\ claims[k] = None
      /\ Readable(k)
  BY DEF Authenticate
<1>2. /\ old \in Peers
      /\ TableSound(s, old, conn, claims, wsId)
      /\ ActiveSound(old)
  BY StartingPeersSound
<1> HIDE DEF old
<1>3. ASSUME NEW t \in Sessions, NEW p \in Peers,
             TableSound(t, p, conn, claims, wsId)
      PROVE  TableSound(t, p, conn, claims', wsId)
  <2>1. \A i \in DOMAIN p.agents : p.agents[i].ws \in Sockets \ {k}
    <3>1. p.agents \in Seq(Entry)
      BY DEF Peers
    <3>2. \A i \in DOMAIN p.agents : p.agents[i] \in Entry
      BY <3>1
    <3>3. \A i \in DOMAIN p.agents : claims[p.agents[i].ws] \in Claims
      BY <1>3 DEF TableSound, Claims, Roles
    <3> QED
      BY <3>2, <3>3, <1>1, NoneAssumption DEF Entry
  <2>2. p.mobile # None => p.mobile \in Sockets \ {k}
    <3>1. p.mobile # None => claims[p.mobile] \in Claims
      BY <1>3 DEF TableSound, Claims, Roles
    <3> QED
      BY <3>1, <1>1, NoneAssumption DEF Peers
  <2> QED
    BY <2>1, <2>2, <1>1, <1>3 DEF TableSound, TypeOK
<1>4. TableSound(s, next, conn, claims', wsId) /\ ActiveSound(next)
  <2>1. TableSound(s, old, conn, claims', wsId)
    BY <1>2, <1>3
  <2>2. CASE role = "mobile"
    <3>1. /\ next.agents = old.agents /\ next.active = old.active
          /\ next.mobile = k
      BY <2>2, <1>2 DEF Peers
    <3>2. claims'[k] = [session |-> s, role |-> "mobile"]
      BY <2>2, <1>1 DEF TypeOK
    <3> QED
      BY <3>1, <3>2, <2>1, <1>1, <1>2 DEF TableSound, ActiveSound, Readable
  <2>3. CASE role # "mobile"
    BY <2>3, <2>1, <1>2
  <2> QED
    BY <2>2, <2>3
<1> HIDE DEF next, c
<1> QED
  <2> SUFFICES ASSUME NEW t \in Sessions, peers'[t] # None
               PROVE  TableSound(t, peers'[t], conn', claims', wsId')
                      /\ ActiveSound(peers'[t])
    BY DEF TablesSound
  <2>1. CASE t = s
    BY <2>1, <1>1, <1>4 DEF TypeOK
  <2>2. CASE t # s
    <3>1. peers'[t] = peers[t]
      BY <2>2, <1>1 DEF TypeOK
    <3>2. peers[t] \in Peers
      BY <3>1 DEF TypeOK
    <3> QED
      BY <3>1, <3>2, <1>1, <1>3 DEF TablesSound
  <2> QED
    BY <2>1, <2>2

\* What registerAgentWorkspace makes of a sound record is sound: the former
\* name of the socket goes before the new one is added.
LEMMA RegisteredSound ==
  ASSUME TypeOK, NEW s \in Sessions, NEW p \in Peers,
         TableSound(s, p, conn, claims, wsId),
         NEW k \in Sockets, Readable(k),
         claims[k] = [session |-> s, role |-> "agent"],
         NEW w \in Workspaces
  PROVE  /\ TableSound(s, Registered(p, k, w), conn, claims,
                       [wsId EXCEPT ![k] = w])
         /\ ActiveSound(Registered(p, k, w))
<1> DEFINE moves   == wsId[k] # None /\ wsId[k] # w
           renamed == IF moves THEN MapDelete(p.agents, wsId[k]) ELSE p.agents
           rest    == MapDelete(renamed, w)
           e       == [id |-> w, ws |-> k]
           all     == Append(rest, e)
           q       == Registered(p, k, w)
           ws      == [wsId EXCEPT ![k] = w]
<1>1. /\ p.agents \in Seq(Entry)
      /\ p.mobile \in Sockets \cup {None}
      /\ UniqueKeys(p.agents)
  BY DEF Peers, TableSound
<1>2. /\ renamed \in Seq(Entry)
      /\ UniqueKeys(renamed)
      /\ \A j \in DOMAIN renamed : \E i \in DOMAIN p.agents :
           renamed[j] = p.agents[i] /\ (moves => p.agents[i].id # wsId[k])
  <2>1. CASE moves
    <3>1. renamed = MapDelete(p.agents, wsId[k])
      BY <2>1
    <3> HIDE DEF renamed, moves
    <3>2. \A j \in DOMAIN renamed :
            renamed[j].id # wsId[k] /\ \E i \in DOMAIN p.agents :
                                         renamed[j] = p.agents[i]
      BY <3>1, <1>1, MapDeleteProperties
    <3>3. renamed \in Seq(Entry) /\ UniqueKeys(renamed)
      BY <3>1, <1>1, MapDeleteProperties
    <3> QED
      BY <3>2, <3>3
  <2>2. CASE ~moves
    BY <2>2, <1>1
  <2> QED
    BY <2>1, <2>2
<1> HIDE DEF renamed
<1>3. /\ rest \in Seq(Entry)
      /\ UniqueKeys(rest)
      /\ \A j \in DOMAIN rest : rest[j].id # w /\ \E i \in DOMAIN renamed :
                                                    rest[j] = renamed[i]
  BY <1>2, MapDeleteProperties
<1> HIDE DEF rest
<1>4. ASSUME NEW j \in DOMAIN rest
      PROVE  /\ rest[j].ws \in Sockets
             /\ rest[j].ws # k
             /\ rest[j].id # w
             /\ Readable(rest[j].ws)
             /\ claims[rest[j].ws] = [session |-> s, role |-> "agent"]
             /\ wsId[rest[j].ws] = rest[j].id
  <2>1. PICK i \in DOMAIN p.agents :
          rest[j] = p.agents[i] /\ (moves => p.agents[i].id # wsId[k])
    BY <1>2, <1>3
  <2>2. p.agents[i] \in Entry
    BY <1>1
  <2>3. p.agents[i].ws \in Sockets /\ p.agents[i].id \in Workspaces
    BY <2>2 DEF Entry
  <2>4. /\ Readable(p.agents[i].ws)
        /\ claims[p.agents[i].ws] = [session |-> s, role |-> "agent"]
        /\ wsId[p.agents[i].ws] = p.agents[i].id
    BY DEF TableSound, Readable
  <2>5. rest[j].id # w
    BY <1>3
  <2>6. p.agents[i].ws # k
    BY <2>1, <2>3, <2>4, <2>5, NoneAssumption
  <2> QED
    BY <2>1, <2>3, <2>4, <2>5, <2>6
<1>5. e \in Entry /\ e.id = w /\ e.ws = k
  BY DEF Entry
<1> HIDE DEF e
<1>6. /\ all \in Seq(Entry)
      /\ Len(all) = Len(rest) + 1
      /\ \A j \in 1 .. Len(rest) : all[j] = rest[j]
      /\ all[Len(rest) + 1] = e
  BY <1>3, <1>5, AppendProperties
<1>7. Len(rest) \in Nat /\ DOMAIN rest = 1 .. Len(rest)
      /\ DOMAIN all = 1 .. Len(rest) + 1
  BY <1>3, <1>6
<1> HIDE DEF all
<1>8. /\ q.agents = all /\ q.mobile = p.mobile /\ q.active = w
  <2>1. q = [p EXCEPT !.agents = all, !.active = w]
    BY DEF Registered, all, rest, renamed, e
  <2> HIDE DEF q
  <2> QED
    BY <2>1 DEF Peers
<1> HIDE DEF q
<1>9. UniqueKeys(all)
  <2> SUFFICES ASSUME NEW i \in 1 .. Len(rest) + 1, NEW j \in 1 .. Len(rest) + 1,
                      all[i].id = all[j].id
               PROVE  i = j
    BY <1>7 DEF UniqueKeys
  <2>1. CASE i \in 1 .. Len(rest) /\ j \in 1 .. Len(rest)
    BY <2>1, <1>3, <1>6, <1>7 DEF UniqueKeys
  <2>2. CASE i = Len(rest) + 1 /\ j \in 1 .. Len(rest)
    BY <2>2, <1>3, <1>5, <1>6, <1>7
  <2>3. CASE j = Len(rest) + 1 /\ i \in 1 .. Len(rest)
    BY <2>3, <1>3, <1>5, <1>6, <1>7
  <2> QED
    BY <2>1, <2>2, <2>3, <1>7
<1>10. ASSUME NEW i \in DOMAIN all
       PROVE  /\ conn[all[i].ws] \in {"open", "closing"}
              /\ claims[all[i].ws] = [session |-> s, role |-> "agent"]
              /\ ws[all[i].ws] = all[i].id
  <2>1. CASE i \in 1 .. Len(rest)
    BY <2>1, <1>4, <1>6, <1>7 DEF Readable, TypeOK
  <2>2. CASE i = Len(rest) + 1
    BY <2>2, <1>5, <1>6 DEF Readable, TypeOK
  <2> QED
    BY <2>1, <2>2, <1>7
<1>11. TableSound(s, q, conn, claims, ws)
  BY <1>8, <1>9, <1>10 DEF TableSound
<1>12. ActiveSound(q)
  <2>1. w \in Keys(all)
    <3>1. Len(rest) + 1 \in DOMAIN all /\ all[Len(rest) + 1].id = w
      BY <1>5, <1>6, <1>7
    <3> QED
      BY <3>1 DEF Keys
  <2>2. all # <<>> /\ w # None
    BY <1>6, <1>7, NoneAssumption
  <2> QED
    BY <2>1, <2>2, <1>8 DEF ActiveSound
<1> QED
  BY <1>11, <1>12 DEF q

\* agent_hello keeps the tables of all sessions sound.
LEMMA AgentHelloSound ==
  ASSUME TypeOK, TablesSound, NEW k \in Sockets, NEW w \in Workspaces,
         AgentHello(k, w)
  PROVE  TablesSound'
<1> DEFINE s    == claims[k].session
           next == Registered(GetSessionPeers(s), k, w)
<1>1. s \in Sessions /\ claims[k] = [session |-> s, role |-> "agent"]
  BY DEF AgentHello, IsRole, TypeOK, Claims
<1>2. /\ peers' = [peers EXCEPT ![s] = next]
      /\ wsId' = [wsId EXCEPT ![k] = w]
      /\ UNCHANGED <<conn, claims>>
      /\ Readable(k)
  BY DEF AgentHello
<1>3. TableSound(s, next, conn, claims, wsId') /\ ActiveSound(next)
  BY <1>1, <1>2, StartingPeersSound, RegisteredSound
<1> HIDE DEF s, next
<1> SUFFICES ASSUME NEW t \in Sessions, peers'[t] # None
             PROVE  TableSound(t, peers'[t], conn, claims, wsId')
                    /\ ActiveSound(peers'[t])
  BY <1>2 DEF TablesSound
<1>4. CASE t = s
  BY <1>4, <1>1, <1>2, <1>3 DEF TypeOK
<1>5. CASE t # s
  <2>1. peers'[t] = peers[t]
    BY <1>2, <1>5 DEF TypeOK
  <2>2. peers[t] \in Peers /\ TableSound(t, peers[t], conn, claims, wsId)
        /\ ActiveSound(peers[t])
    BY <2>1 DEF TypeOK, TablesSound
  <2>3. \A i \in DOMAIN peers[t].agents : peers[t].agents[i].ws \in Sockets \ {k}
    <3>1. peers[t].agents \in Seq(Entry)
      BY <2>2 DEF Peers
    <3>2. \A i \in DOMAIN peers[t].agents : peers[t].agents[i] \in Entry
      BY <3>1
    <3>3. \A i \in DOMAIN peers[t].agents : claims[peers[t].agents[i].ws].session = t
      BY <2>2 DEF TableSound
    <3> QED
      BY <3>2, <3>3, <1>1, <1>5 DEF Entry
  <2> QED
    BY <2>1, <2>2, <2>3, <1>2 DEF TableSound, TypeOK
<1> QED
  BY <1>4, <1>5

\* What the close handler makes of a sound record is sound and does not
\* name the socket that closed.
LEMMA DepartedSound ==
  ASSUME TypeOK, NEW s \in Sessions, NEW p \in Peers,
         TableSound(s, p, conn, claims, wsId), ActiveSound(p),
         NEW k \in Sockets, claims[k] # None, claims[k].session = s
  PROVE  /\ TableSound(s, Departed(p, k), [conn EXCEPT ![k] = "closed"],
                       claims, wsId)
         /\ ActiveSound(Departed(p, k))
<1> DEFINE cn   == [conn EXCEPT ![k] = "closed"]
           rest == MapDelete(p.agents, wsId[k])
           q    == Departed(p, k)
<1>1. /\ p.agents \in Seq(Entry)
      /\ p.mobile \in Sockets \cup {None}
      /\ UniqueKeys(p.agents)
  BY DEF Peers, TableSound
<1>2. \A i \in DOMAIN p.agents : /\ p.agents[i].ws \in Sockets
                                 /\ p.agents[i].id \in Workspaces
  <2>1. \A i \in DOMAIN p.agents : p.agents[i] \in Entry
    BY <1>1
  <2> QED
    BY <2>1 DEF Entry
<1>3. \A j \in Sockets : j # k => cn[j] = conn[j]
  BY DEF TypeOK
<1>4. CASE claims[k].role = "mobile"
  <2>1. /\ q.agents = p.agents /\ q.active = p.active
        /\ q.mobile = IF p.mobile = k THEN None ELSE p.mobile
    BY <1>4 DEF Departed, Peers
  <2>2. \A i \in DOMAIN p.agents : p.agents[i].ws # k
    BY <1>4 DEF TableSound
  <2> HIDE DEF q, cn
  <2>3. TableSound(s, q, cn, claims, wsId)
    BY <1>1, <1>2, <1>3, <2>1, <2>2 DEF TableSound
  <2>4. ActiveSound(q)
    BY <2>1 DEF ActiveSound
  <2> QED
    BY <2>3, <2>4 DEF q, cn
<1>5. CASE claims[k].role # "mobile"
  <2>1. p.mobile # None => p.mobile # k
    BY <1>5 DEF TableSound
  <2>2. CASE wsId[k] = None
    <3>1. q = p
      BY <1>5, <2>2 DEF Departed
    <3>2. \A i \in DOMAIN p.agents : p.agents[i].ws # k
      BY <1>2, <2>2, NoneAssumption DEF TableSound
    <3> HIDE DEF q, cn
    <3> QED
      BY <1>1, <1>2, <1>3, <2>1, <3>1, <3>2 DEF TableSound, q, cn
  <2>3. CASE wsId[k] # None
    <3>1. /\ q.agents = rest /\ q.mobile = p.mobile
          /\ q.active = IF p.active = wsId[k] THEN LastKey(rest) ELSE p.active
      <4>1. q = [p EXCEPT !.agents = rest,
                          !.active = IF @ = wsId[k] THEN LastKey(rest) ELSE @]
        BY <1>5, <2>3 DEF Departed
      <4> HIDE DEF q, rest
      <4> QED
        BY <4>1 DEF Peers
    <3>2. /\ rest \in Seq(Entry)
          /\ UniqueKeys(rest)
          /\ \A j \in DOMAIN rest : rest[j].id # wsId[k] /\
               \E i \in DOMAIN p.agents : rest[j] = p.agents[i]
          /\ \A i \in DOMAIN p.agents : p.agents[i].id # wsId[k] =>
               \E j \in DOMAIN rest : rest[j] = p.agents[i]
      BY <1>1, MapDeleteProperties
    <3> HIDE DEF rest, q, cn
    <3>3. ASSUME NEW j \in DOMAIN rest
          PROVE  /\ cn[rest[j].ws] \in {"open", "closing"}
                 /\ claims[rest[j].ws] = [session |-> s, role |-> "agent"]
                 /\ wsId[rest[j].ws] = rest[j].id
      <4>1. PICK i \in DOMAIN p.agents : rest[j] = p.agents[i]
        BY <3>2
      <4>2. rest[j].ws # k
        BY <3>2, <4>1 DEF TableSound
      <4> QED
        BY <1>2, <1>3, <4>1, <4>2 DEF TableSound
    <3>4. TableSound(s, q, cn, claims, wsId)
      BY <1>1, <1>3, <2>1, <3>1, <3>2, <3>3 DEF TableSound
    <3>5. ActiveSound(q)
      <4>1. CASE p.active = wsId[k]
        <5>1. rest # <<>> => LastKey(rest) \in Keys(rest) /\ LastKey(rest) # None
          <6>1. rest # <<>> => Len(rest) \in DOMAIN rest
            BY <3>2
          <6>2. \A j \in DOMAIN rest : rest[j].id \in Workspaces
            BY <1>2, <3>2
          <6> QED
            BY <6>1, <6>2, NoneAssumption DEF LastKey, Keys
        <5> QED
          BY <3>1, <4>1, <5>1 DEF ActiveSound, LastKey
      <4>2. CASE p.active # wsId[k]
        <5>1. q.active = p.active
          BY <3>1, <4>2
        <5>2. CASE p.active = None
          <6>1. p.agents = <<>>
            BY <5>2 DEF ActiveSound
          <6>2. rest = <<>>
            <7>1. DOMAIN rest = {}
              BY <3>2, <6>1
            <7> QED
              BY <3>2, <7>1
          <6> QED
            BY <5>1, <5>2, <6>2, <3>1 DEF ActiveSound
        <5>3. CASE p.active # None
          <6>1. PICK i \in DOMAIN p.agents : p.agents[i].id = p.active
            BY <5>3 DEF ActiveSound, Keys
          <6>2. PICK j \in DOMAIN rest : rest[j] = p.agents[i]
            BY <3>2, <4>2, <6>1
          <6>3. rest # <<>>
            BY <6>2, <3>2
          <6> QED
            BY <5>1, <5>3, <6>1, <6>2, <6>3, <3>1 DEF ActiveSound, Keys
        <5> QED
          BY <5>2, <5>3
      <4> QED
        BY <4>1, <4>2
    <3> QED
      BY <3>4, <3>5 DEF q, cn
  <2> QED
    BY <2>2, <2>3
<1> QED
  BY <1>4, <1>5

\* The close handler keeps the tables of all sessions sound.
LEMMA SocketClosedSound ==
  ASSUME TypeOK, TablesSound, NEW k \in Sockets, SocketClosed(k)
  PROVE  TablesSound'
<1> DEFINE s    == claims[k].session
           next == Departed(peers[s], k)
           cn   == [conn EXCEPT ![k] = "closed"]
<1>1. conn' = cn /\ UNCHANGED <<claims, wsId>>
  BY DEF SocketClosed
\* The tables of the sessions that k is not part of.
<1>2. ASSUME NEW t \in Sessions, peers[t] # None,
             claims[k] = None \/ claims[k].session # t
      PROVE  TableSound(t, peers[t], cn, claims, wsId) /\ ActiveSound(peers[t])
  <2>1. /\ peers[t] \in Peers
        /\ TableSound(t, peers[t], conn, claims, wsId)
        /\ ActiveSound(peers[t])
    BY <1>2 DEF TypeOK, TablesSound
  <2>2. peers[t].agents \in Seq(Entry) /\ peers[t].mobile \in Sockets \cup {None}
    BY <2>1 DEF Peers
  <2>3. \A i \in DOMAIN peers[t].agents : peers[t].agents[i] \in Entry
    BY <2>2
  <2>4. \A i \in DOMAIN peers[t].agents : claims[peers[t].agents[i].ws] \in Claims
    BY <2>1 DEF TableSound, Claims, Roles
  <2>5. \A i \in DOMAIN peers[t].agents : peers[t].agents[i].ws \in Sockets \ {k}
    BY <1>2, <2>1, <2>3, <2>4, NoneAssumption DEF TableSound, Entry
  <2>6. peers[t].mobile # None => claims[peers[t].mobile] \in Claims
    BY <2>1 DEF TableSound, Claims, Roles
  <2>7. peers[t].mobile # None => peers[t].mobile \in Sockets \ {k}
    BY <1>2, <2>1, <2>2, <2>6, NoneAssumption DEF TableSound
  <2> QED
    BY <2>1, <2>5, <2>7 DEF TableSound, TypeOK
<1> SUFFICES ASSUME NEW t \in Sessions, peers'[t] # None
             PROVE  TableSound(t, peers'[t], cn, claims, wsId)
                    /\ ActiveSound(peers'[t])
  BY <1>1 DEF TablesSound
<1>3. CASE claims[k] = None \/ peers[s] = None
  <2>1. peers' = peers
    BY <1>3 DEF SocketClosed
  <2> QED
    BY <1>2, <1>3, <2>1
<1>4. CASE claims[k] # None /\ peers[s] # None
  <2>1. s \in Sessions
    BY <1>4 DEF TypeOK, Claims
  <2>2. /\ peers[s] \in Peers
        /\ TableSound(s, peers[s], conn, claims, wsId)
        /\ ActiveSound(peers[s])
    BY <1>4, <2>1 DEF TypeOK, TablesSound
  <2>3. TableSound(s, next, cn, claims, wsId) /\ ActiveSound(next)
    BY <1>4, <2>1, <2>2, DepartedSound
  <2>4. \/ peers' = [peers EXCEPT ![s] = None]
        \/ peers' = [peers EXCEPT ![s] = next]
    BY <1>4 DEF SocketClosed
  <2> HIDE DEF next, cn
  <2>5. CASE t = s
    BY <2>1, <2>3, <2>4, <2>5 DEF TypeOK
  <2>6. CASE t # s
    BY <1>2, <2>4, <2>6 DEF TypeOK
  <2> QED
    BY <2>5, <2>6
<1> QED
  BY <1>3, <1>4

\* Every step keeps the tables sound.
LEMMA NextSound == TypeOK /\ TablesSound /\ [Next]_vars => TablesSound'
<1> SUFFICES ASSUME TypeOK, TablesSound, [Next]_vars PROVE TablesSound'
  OBVIOUS
<1>1. CASE UNCHANGED <<peers, claims, wsId, conn>>
  BY <1>1, TablesUntouched DEF Readable
<1>2. CASE \E k \in Sockets : Accept(k) \/ FrameRefused(k)
  BY <1>2, TablesUntouched
     DEF Accept, FrameRefused, StartClosing, Readable, TypeOK
<1>3. CASE Restart
  BY <1>3 DEF Restart, TablesSound
<1>4. CASE \E k \in Sockets, s \in Sessions, role \in Roles :
             Authenticate(k, s, role)
  BY <1>4, AuthenticateSound
<1>5. CASE \E k \in Sockets, w \in Workspaces : AgentHello(k, w)
  BY <1>5, AgentHelloSound
<1>6. CASE \E k \in Sockets : SocketClosed(k)
  BY <1>6, SocketClosedSound
<1>7. CASE \E k \in Sockets : WriteForPrunedSession(k)
  BY <1>3, <1>7 DEF WriteForPrunedSession
<1>8. CASE \E s \in Sessions : CreateSession(s) \/ Pair(s) \/ Expire(s)
  BY <1>1, <1>8 DEF CreateSession, Pair, Expire, links
<1>9. CASE PruneExpired
  BY <1>1, <1>9 DEF PruneExpired, links
<1>10. CASE \E r \in Requests :
              \/ \E s \in Sessions, w \in Workspaces \cup {None} :
                   RequestFile(r, s, w)
              \/ RequestTimeout(r)
              \/ \E k \in Sockets : FileResponse(k, r)
  BY <1>1, <1>10 DEF RequestFile, RequestTimeout, FileResponse, links
<1>11. CASE UNCHANGED vars
  BY <1>1, <1>11 DEF vars
<1> QED
  BY <1>2, <1>3, <1>4, <1>5, <1>6, <1>7, <1>8, <1>9, <1>10, <1>11 DEF Next

\* The inductive invariant behind the routing theorems.
LEMMA TablesAlwaysSound == Spec => [](TypeOK /\ TablesSound)
<1>1. Init => TypeOK /\ TablesSound
  BY DEF Init, TypeOK, TablesSound
<1>2. TypeOK /\ TablesSound /\ [Next]_vars => (TypeOK /\ TablesSound)'
  BY NextType, NextSound
<1> QED
  BY <1>1, <1>2, PTL DEF Spec

\* The routing table names only sockets that have not closed, of the right
\* session and role, under the workspace they announced last, once each.
THEOREM RoutingTableCorrect == Spec => []RoutingTableSound
<1>1. TypeOK /\ TablesSound => RoutingTableSound
  BY TablesSoundMeans
<1> QED
  BY <1>1, TablesAlwaysSound, PTL

\* The active workspace is a connected one, and unset only when none is:
\* the fallback to the last registered agent is never needed.
THEOREM ActiveCorrect == Spec => []ActiveIsConnected
<1>1. TypeOK /\ TablesSound => ActiveIsConnected
  BY TablesSoundMeans
<1> QED
  BY <1>1, TablesAlwaysSound, PTL

-----------------------------------------------------------------------------
(* The life of a SessionPeers record.                                      *)

\* A session that keeps its record and a reader keeps NoPeerEntryLeak.
LEMMA ReadersRemain ==
  ASSUME NoPeerEntryLeak, UNCHANGED <<peers, claims>>,
         \A k \in Sockets : Readable(k) => Readable(k)'
  PROVE  NoPeerEntryLeak'
  BY DEF NoPeerEntryLeak

\* The auth frame makes no record without a socket.
LEMMA AuthenticateLeaksNothing ==
  ASSUME TypeOK, NoPeerEntryLeak,
         NEW k \in Sockets, NEW s \in Sessions, NEW role \in Roles,
         Authenticate(k, s, role)
  PROVE  NoPeerEntryLeak'
<1>1. /\ claims' = [claims EXCEPT ![k] = [session |-> s, role |-> role]]
      /\ conn' = conn
      /\ claims[k] = None
      /\ Readable(k)
  BY DEF Authenticate
<1>2. \A t \in Sessions : t # s => peers'[t] = peers[t]
  BY DEF Authenticate, TypeOK
<1>3. claims'[k] # None /\ claims'[k].session = s
  <2>1. claims'[k] = [session |-> s, role |-> role]
    BY <1>1 DEF TypeOK
  <2> QED
    BY <2>1, NoneAssumption DEF Claims
<1>4. ASSUME NEW t \in Sessions, peers'[t] # None
      PROVE  \E j \in Sockets : Readable(j)' /\ claims'[j] # None
                                /\ claims'[j].session = t
  <2>1. CASE t = s
    BY <2>1, <1>1, <1>3 DEF Readable
  <2>2. CASE t # s
    <3>1. PICK j \in Sockets : Readable(j) /\ claims[j] # None
                               /\ claims[j].session = t
      BY <2>2, <1>2, <1>4 DEF NoPeerEntryLeak
    <3>2. j # k
      BY <3>1, <1>1
    <3> QED
      BY <3>1, <3>2, <1>1 DEF Readable, TypeOK
  <2> QED
    BY <2>1, <2>2
<1> QED
  BY <1>4 DEF NoPeerEntryLeak

\* agent_hello makes no record without a socket.
LEMMA AgentHelloLeaksNothing ==
  ASSUME TypeOK, NoPeerEntryLeak, NEW k \in Sockets, NEW w \in Workspaces,
         AgentHello(k, w)
  PROVE  NoPeerEntryLeak'
<1> DEFINE s == claims[k].session
<1>1. /\ UNCHANGED <<claims, conn>>
      /\ Readable(k)
      /\ claims[k] # None
  BY DEF AgentHello, IsRole
<1>2. \A t \in Sessions : t # s => peers'[t] = peers[t]
  BY DEF AgentHello, TypeOK
<1> HIDE DEF s
<1>3. ASSUME NEW t \in Sessions, peers'[t] # None
      PROVE  \E j \in Sockets : Readable(j) /\ claims[j] # None
                                /\ claims[j].session = t
  BY <1>1, <1>2, <1>3 DEF NoPeerEntryLeak, s
<1> QED
  BY <1>1, <1>3 DEF NoPeerEntryLeak, Readable

\* The record that stays after a close has a listener, and every listener
\* is a socket of the session that has not closed.
LEMMA SocketClosedLeaksNothing ==
  ASSUME TypeOK, TablesSound, TablesSound', TypeOK', NoPeerEntryLeak,
         NEW k \in Sockets, SocketClosed(k)
  PROVE  NoPeerEntryLeak'
<1> DEFINE s    == claims[k].session
           next == Departed(peers[s], k)
<1>1. conn' = [conn EXCEPT ![k] = "closed"] /\ claims' = claims
  BY DEF SocketClosed
<1>2. \A t \in Sessions : t # s => peers'[t] = peers[t]
  BY DEF SocketClosed, TypeOK
<1>3. ASSUME NEW t \in Sessions, peers'[t] # None
      PROVE  \E j \in Sockets : Readable(j)' /\ claims'[j] # None
                                /\ claims'[j].session = t
  <2>1. CASE claims[k] # None /\ t = s
    <3>1. peers[s] # None
      BY <1>3, <2>1 DEF SocketClosed
    <3>2. peers'[s] = next /\ (next.mobile # None \/ next.agents # <<>>)
      BY <1>3, <2>1, <3>1 DEF SocketClosed, TypeOK
    <3> HIDE DEF next
    <3>3. /\ peers'[s] \in Peers
          /\ TableSound(s, peers'[s], conn', claims', wsId')
      BY <1>3, <2>1 DEF TypeOK, TablesSound
    <3>4. CASE next.mobile # None
      <4>1. next.mobile \in Sockets
        BY <3>2, <3>3, <3>4 DEF Peers
      <4>2. /\ conn'[next.mobile] \in {"open", "closing"}
            /\ claims'[next.mobile] = [session |-> s, role |-> "mobile"]
        BY <3>2, <3>3, <3>4 DEF TableSound
      <4>3. claims'[next.mobile] # None
        BY <4>2, <2>1, NoneAssumption DEF Claims, Roles
      <4> QED
        BY <4>1, <4>2, <4>3, <2>1 DEF Readable
    <3>5. CASE next.agents # <<>>
      <4>1. next.agents \in Seq(Entry)
        BY <3>2, <3>3 DEF Peers
      <4>2. 1 \in DOMAIN next.agents /\ next.agents[1] \in Entry
        BY <3>5, <4>1
      <4>3. next.agents[1].ws \in Sockets
        BY <4>2 DEF Entry
      <4>4. /\ conn'[next.agents[1].ws] \in {"open", "closing"}
            /\ claims'[next.agents[1].ws] = [session |-> s, role |-> "agent"]
        BY <3>2, <3>3, <4>2 DEF TableSound
      <4>5. claims'[next.agents[1].ws] # None
        BY <4>4, <2>1, NoneAssumption DEF Claims, Roles
      <4> QED
        BY <4>3, <4>4, <4>5, <2>1 DEF Readable
    <3> QED
      BY <3>2, <3>4, <3>5
  <2>2. CASE claims[k] = None \/ t # s
    <3>1. peers'[t] = peers[t]
      BY <2>2, <1>2 DEF SocketClosed
    <3>2. PICK j \in Sockets : Readable(j) /\ claims[j] # None
                               /\ claims[j].session = t
      BY <3>1, <1>3 DEF NoPeerEntryLeak
    <3>3. j # k
      BY <3>2, <2>2
    <3> QED
      BY <3>2, <3>3, <1>1 DEF Readable, TypeOK
  <2> QED
    BY <2>1, <2>2
<1> QED
  BY <1>3 DEF NoPeerEntryLeak

\* Every step keeps NoPeerEntryLeak, given sound tables.
LEMMA NextLeaksNothing ==
  TypeOK /\ TablesSound /\ NoPeerEntryLeak /\ [Next]_vars => NoPeerEntryLeak'
<1> SUFFICES ASSUME TypeOK, TablesSound, NoPeerEntryLeak, [Next]_vars
             PROVE  NoPeerEntryLeak'
  OBVIOUS
<1>1. CASE UNCHANGED <<peers, claims, conn>>
  BY <1>1, ReadersRemain DEF Readable
<1>2. CASE \E k \in Sockets : Accept(k) \/ FrameRefused(k)
  BY <1>2, ReadersRemain
     DEF Accept, FrameRefused, StartClosing, Readable, TypeOK
<1>3. CASE Restart
  BY <1>3 DEF Restart, NoPeerEntryLeak
<1>4. CASE \E k \in Sockets, s \in Sessions, role \in Roles :
             Authenticate(k, s, role)
  BY <1>4, AuthenticateLeaksNothing
<1>5. CASE \E k \in Sockets, w \in Workspaces : AgentHello(k, w)
  BY <1>5, AgentHelloLeaksNothing
<1>6. CASE \E k \in Sockets : SocketClosed(k)
  BY <1>6, NextType, NextSound, SocketClosedLeaksNothing
<1>7. CASE \E k \in Sockets : WriteForPrunedSession(k)
  BY <1>3, <1>7 DEF WriteForPrunedSession
<1>8. CASE \E s \in Sessions : CreateSession(s) \/ Pair(s) \/ Expire(s)
  BY <1>1, <1>8 DEF CreateSession, Pair, Expire, links
<1>9. CASE PruneExpired
  BY <1>1, <1>9 DEF PruneExpired, links
<1>10. CASE \E r \in Requests :
              \/ \E s \in Sessions, w \in Workspaces \cup {None} :
                   RequestFile(r, s, w)
              \/ RequestTimeout(r)
              \/ \E k \in Sockets : FileResponse(k, r)
  BY <1>1, <1>10 DEF RequestFile, RequestTimeout, FileResponse, links
<1>11. CASE UNCHANGED vars
  BY <1>1, <1>11 DEF vars
<1> QED
  BY <1>2, <1>3, <1>4, <1>5, <1>6, <1>7, <1>8, <1>9, <1>10, <1>11 DEF Next

\* A SessionPeers record exists only while some socket of its session does.
THEOREM NoPeerEntryLeaks == Spec => []NoPeerEntryLeak
<1>1. Init => TypeOK /\ TablesSound /\ NoPeerEntryLeak
  BY DEF Init, TypeOK, TablesSound, NoPeerEntryLeak
<1>2. TypeOK /\ TablesSound /\ NoPeerEntryLeak /\ [Next]_vars
      => (TypeOK /\ TablesSound /\ NoPeerEntryLeak)'
  BY NextType, NextSound, NextLeaksNothing
<1> QED
  BY <1>1, <1>2, PTL DEF Spec
-----------------------------------------------------------------------------
(* File requests.                                                          *)

\* A request waits exactly while its entry is pending, through timers,
\* answers over any socket, refusals and restarts.
THEOREM WaitingIsAlwaysPending == Spec => []WaitingIsPending
<1>1. Init => WaitingIsPending
  BY DEF Init, WaitingIsPending
<1>2. TypeOK /\ WaitingIsPending /\ [Next]_vars => WaitingIsPending'
  <2> SUFFICES ASSUME TypeOK, WaitingIsPending, [Next]_vars
               PROVE  WaitingIsPending'
    OBVIOUS
  <2>1. outcome \in [Requests -> {"unsent", "waiting", "answered", "timeout",
                                 "unavailable", "lost"}]
    BY DEF TypeOK
  <2>2. CASE UNCHANGED <<pending, outcome>>
    BY <2>2 DEF WaitingIsPending
  <2>3. CASE \E r \in Requests, s \in Sessions, w \in Workspaces \cup {None} :
               RequestFile(r, s, w)
    <3>1. PICK r \in Requests, s \in Sessions, w \in Workspaces \cup {None} :
            RequestFile(r, s, w)
      BY <2>3
    <3>2. \/ /\ outcome' = [outcome EXCEPT ![r] = "waiting"]
             /\ pending' = pending \cup {r}
          \/ /\ outcome' = [outcome EXCEPT ![r] = "unavailable"]
             /\ pending' = pending
      BY <3>1 DEF RequestFile
    <3>3. outcome[r] = "unsent"
      BY <3>1 DEF RequestFile
    <3> QED
      BY <2>1, <3>2, <3>3 DEF WaitingIsPending
  <2>4. CASE \E r \in Requests : RequestTimeout(r)
    BY <2>1, <2>4 DEF RequestTimeout, WaitingIsPending
  <2>5. CASE \E k \in Sockets, r \in Requests : FileResponse(k, r)
    BY <2>1, <2>5 DEF FileResponse, WaitingIsPending
  <2>6. CASE Restart
    BY <2>1, <2>6 DEF Restart, WaitingIsPending
  <2>7. CASE \E k \in Sockets : WriteForPrunedSession(k)
    BY <2>6, <2>7 DEF WriteForPrunedSession
  <2>8. CASE \/ \E s \in Sessions : CreateSession(s) \/ Pair(s) \/ Expire(s)
             \/ PruneExpired
    BY <2>2, <2>8 DEF CreateSession, Pair, Expire, PruneExpired, reqs
  <2>9. CASE \E k \in Sockets :
               \/ Accept(k) \/ FrameRefused(k) \/ SocketClosed(k)
               \/ \E s \in Sessions, role \in Roles : Authenticate(k, s, role)
               \/ \E w \in Workspaces : AgentHello(k, w)
    BY <2>2, <2>9
       DEF Accept, FrameRefused, StartClosing, SocketClosed, Authenticate,
           AgentHello, reqs
  <2>10. CASE UNCHANGED vars
    BY <2>2, <2>10 DEF vars
  <2> QED
    BY <2>3, <2>4, <2>5, <2>6, <2>7, <2>8, <2>9, <2>10 DEF Next
<1> QED
  BY <1>1, <1>2, TypeCorrect, PTL DEF Spec

-----------------------------------------------------------------------------
(* The phone's place.                                                      *)

\* One step of PhoneKeepsItsPlace for the phone k of session s.
Kept(s, k) ==
  /\ peers'[s] # None
  /\ \/ peers'[s].mobile = k
     \/ \E j \in Sockets : /\ claims[j] = None /\ claims'[j] # None
                          /\ peers'[s].mobile = j

\* Another socket that authenticates leaves the phone, or takes its place.
LEMMA AuthenticateKeepsPhone ==
  ASSUME TypeOK, NEW j \in Sockets, NEW t \in Sessions, NEW role \in Roles,
         Authenticate(j, t, role),
         NEW s \in Sessions, peers[s] # None
  PROVE  Kept(s, peers[s].mobile)
<1> DEFINE old  == GetSessionPeers(t)
           next == IF role = "mobile" THEN [old EXCEPT !.mobile = j] ELSE old
<1>1. peers' = [peers EXCEPT ![t] = next]
  BY DEF Authenticate
<1>2. old \in Peers
  BY GetSessionPeersType
<1>3. next \in Peers /\ next.mobile = (IF role = "mobile" THEN j ELSE old.mobile)
  BY <1>2 DEF Peers
<1>4. claims[j] = None /\ claims'[j] # None
  <2>1. claims'[j] = [session |-> t, role |-> role]
    BY DEF Authenticate, TypeOK
  <2> QED
    BY <2>1, NoneAssumption DEF Authenticate, Claims
<1> HIDE DEF next
<1>5. CASE s = t
  <2>1. peers'[s] = next /\ next # None
    BY <1>1, <1>3, <1>5, NoneAssumption DEF TypeOK
  <2>2. old = peers[s]
    BY <1>5 DEF GetSessionPeers
  <2> QED
    BY <1>3, <1>4, <2>1, <2>2 DEF Kept
<1>6. CASE s # t
  BY <1>1, <1>6 DEF TypeOK, Kept
<1> QED
  BY <1>5, <1>6

\* An agent's registration does not touch the phone.
LEMMA AgentHelloKeepsPhone ==
  ASSUME TypeOK, NEW j \in Sockets, NEW w \in Workspaces, AgentHello(j, w),
         NEW s \in Sessions, peers[s] # None
  PROVE  Kept(s, peers[s].mobile)
<1> DEFINE t    == claims[j].session
           next == Registered(GetSessionPeers(t), j, w)
<1>1. peers' = [peers EXCEPT ![t] = next]
  BY DEF AgentHello
<1>2. CASE s = t
  <2>1. GetSessionPeers(t) = peers[s] /\ peers[s] \in Peers
    BY <1>2 DEF GetSessionPeers, TypeOK
  <2>2. next \in Peers
    BY <2>1, RegisteredType
  <2>3. next.mobile = peers[s].mobile
    BY <2>1 DEF Registered, Peers
  <2> HIDE DEF next
  <2>4. peers'[s] = next /\ next # None
    BY <1>1, <1>2, <2>2, NoneAssumption DEF TypeOK
  <2> QED
    BY <2>3, <2>4 DEF Kept
<1>3. CASE s # t
  BY <1>1, <1>3 DEF TypeOK, Kept
<1> QED
  BY <1>2, <1>3

\* The close of another socket, an older one of the phone's included, does
\* not touch the phone.
LEMMA SocketClosedKeepsPhone ==
  ASSUME TypeOK, NEW j \in Sockets, SocketClosed(j),
         NEW s \in Sessions, peers[s] # None,
         peers[s].mobile \in Sockets \ {j}
  PROVE  Kept(s, peers[s].mobile)
<1> DEFINE t    == claims[j].session
           next == Departed(peers[t], j)
<1>1. peers[s] \in Peers
  BY DEF TypeOK
<1>2. CASE claims[j] = None \/ peers[t] = None \/ s # t
  <2>1. peers'[s] = peers[s]
    BY <1>2 DEF SocketClosed, TypeOK
  <2> QED
    BY <2>1 DEF Kept
<1>3. CASE claims[j] # None /\ peers[t] # None /\ s = t
  <2>1. next \in Peers
    BY <1>1, <1>3, DepartedType
  <2>2. next.mobile = peers[s].mobile
    BY <1>1, <1>3 DEF Departed, Peers
  <2>3. next.mobile # None
    BY <2>2, NoneAssumption
  <2> HIDE DEF next
  <2>4. peers' = [peers EXCEPT ![t] = next]
    BY <1>3, <2>3 DEF SocketClosed, next
  <2>5. peers'[s] = next /\ next # None
    BY <1>3, <2>1, <2>4, NoneAssumption DEF TypeOK
  <2> QED
    BY <2>2, <2>5 DEF Kept
<1> QED
  BY <1>2, <1>3

\* A phone whose socket stays open keeps its place until another socket
\* authenticates as the phone of the session.
THEOREM PhoneKeepsPlace == Spec => PhoneKeepsItsPlace
<1>1. ASSUME TypeOK, [Next]_vars, NEW s \in Sessions, NEW k \in Sockets,
             peers[s] # None, peers[s].mobile = k,
             conn[k] = "open", conn'[k] = "open"
      PROVE  Kept(s, k)
  <2>1. CASE UNCHANGED peers
    BY <1>1, <2>1 DEF Kept
  <2>2. CASE \E j \in Sockets, t \in Sessions, role \in Roles :
               Authenticate(j, t, role)
    BY <1>1, <2>2, AuthenticateKeepsPhone
  <2>3. CASE \E j \in Sockets, w \in Workspaces : AgentHello(j, w)
    BY <1>1, <2>3, AgentHelloKeepsPhone
  <2>4. CASE \E j \in Sockets : SocketClosed(j)
    <3>1. PICK j \in Sockets : SocketClosed(j)
      BY <2>4
    <3>2. conn'[j] = "closed"
      BY <3>1, <1>1 DEF SocketClosed, TypeOK
    <3> QED
      BY <1>1, <3>1, <3>2, SocketClosedKeepsPhone
  <2>5. CASE Restart
    BY <1>1, <2>5 DEF Restart
  <2>6. CASE \E j \in Sockets : WriteForPrunedSession(j)
    BY <2>5, <2>6 DEF WriteForPrunedSession
  <2>7. CASE \/ \E t \in Sessions : CreateSession(t) \/ Pair(t) \/ Expire(t)
             \/ PruneExpired
    BY <2>1, <2>7 DEF CreateSession, Pair, Expire, PruneExpired, links
  <2>8. CASE \E j \in Sockets : Accept(j) \/ FrameRefused(j)
    BY <2>1, <2>8 DEF Accept, FrameRefused, StartClosing
  <2>9. CASE \E r \in Requests :
               \/ \E t \in Sessions, w \in Workspaces \cup {None} :
                    RequestFile(r, t, w)
               \/ RequestTimeout(r)
               \/ \E j \in Sockets : FileResponse(j, r)
    BY <2>1, <2>9 DEF RequestFile, RequestTimeout, FileResponse, links
  <2>10. CASE UNCHANGED vars
    BY <2>1, <2>10 DEF vars
  <2> QED
    BY <1>1, <2>2, <2>3, <2>4, <2>5, <2>6, <2>7, <2>8, <2>9, <2>10 DEF Next
<1>2. TypeOK /\ [Next]_vars =>
        [\A s \in Sessions, k \in Sockets :
           /\ peers[s] # None /\ peers[s].mobile = k
           /\ conn[k] = "open" /\ conn'[k] = "open"
           => /\ peers'[s] # None
              /\ \/ peers'[s].mobile = k
                 \/ \E j \in Sockets : claims[j] = None /\ claims'[j] # None
                                       /\ peers'[s].mobile = j]_vars
  BY <1>1 DEF Kept
<1> QED
  BY <1>2, TypeCorrect, PTL DEF Spec, PhoneKeepsItsPlace
-----------------------------------------------------------------------------
(* What the sockets have been told.                                        *)

\* Who listens to a sound record of session s is a socket of s that has not
\* closed.
LEMMA ListenersSound ==
  ASSUME NEW s \in Sessions, NEW p \in Peers,
         TableSound(s, p, conn, claims, wsId),
         NEW k \in Sockets, k \in Listeners(p)
  PROVE  Readable(k) /\ claims[k] \in Claims /\ claims[k].session = s
<1>1. CASE k = p.mobile
  <2>1. Readable(k) /\ claims[k] = [session |-> s, role |-> "mobile"]
    BY <1>1, NoneAssumption DEF TableSound, Readable
  <2> QED
    BY <2>1 DEF Claims, Roles
<1>2. CASE \E i \in DOMAIN p.agents : k = p.agents[i].ws
  <2>1. Readable(k) /\ claims[k] = [session |-> s, role |-> "agent"]
    BY <1>2 DEF TableSound, Readable
  <2> QED
    BY <2>1 DEF Claims, Roles
<1> QED
  BY <1>1, <1>2 DEF Listeners

\* A step that tells nobody anything leaves what was told current, when it
\* changes no record that stays and opens no socket but a fresh one.
LEMMA SilenceIsCurrent ==
  ASSUME TypeOK, TablesSound, PeerStatusCurrent, UNCHANGED told,
         \A s \in Sessions : peers'[s] \in {None, peers[s]},
         \A k \in Sockets : conn'[k] = "open" => conn[k] \in {"open", "idle"}
  PROVE  PeerStatusCurrent'
<1> SUFFICES ASSUME NEW s \in Sessions, peers'[s] # None,
                    NEW k \in Sockets, k \in Listeners(peers'[s]),
                    conn'[k] = "open"
             PROVE  told[k] = PeerStatus(peers'[s])
  BY DEF PeerStatusCurrent
<1>1. peers'[s] = peers[s] /\ peers[s] \in Peers
  BY DEF TypeOK
<1>2. Readable(k)
  BY <1>1, ListenersSound DEF TablesSound
<1> QED
  BY <1>1, <1>2 DEF Readable, PeerStatusCurrent

\* broadcastPeerStatus tells every listener of the record that was written,
\* and none of another session.
LEMMA BroadcastIsCurrent ==
  ASSUME TypeOK, TypeOK', TablesSound', PeerStatusCurrent,
         NEW s \in Sessions, NEW next \in Peers,
         peers' = [peers EXCEPT ![s] = next], told' = Broadcast(next),
         \A k \in Sockets : conn'[k] = "open" => conn[k] = "open"
  PROVE  PeerStatusCurrent'
<1> SUFFICES ASSUME NEW t \in Sessions, peers'[t] # None,
                    NEW k \in Sockets, k \in Listeners(peers'[t]),
                    conn'[k] = "open"
             PROVE  told'[k] = PeerStatus(peers'[t])
  BY DEF PeerStatusCurrent
<1>1. /\ peers'[s] = next
      /\ t # s => peers'[t] = peers[t]
      /\ next # None
  BY NoneAssumption DEF TypeOK
<1>2. told'[k] = IF k \in Listeners(next) THEN PeerStatus(next) ELSE told[k]
  BY DEF Broadcast
<1>3. CASE t = s
  BY <1>1, <1>2, <1>3
<1>4. CASE t # s
  <2>1. ASSUME NEW u \in Sessions, peers'[u] # None, k \in Listeners(peers'[u])
        PROVE  claims'[k].session = u
    <3>1. peers'[u] \in Peers /\ TableSound(u, peers'[u], conn', claims', wsId')
      BY <2>1 DEF TypeOK, TablesSound
    <3>2. CASE k = peers'[u].mobile
      BY <3>1, <3>2, NoneAssumption DEF TableSound
    <3>3. CASE \E i \in DOMAIN peers'[u].agents : k = peers'[u].agents[i].ws
      BY <3>1, <3>3 DEF TableSound
    <3> QED
      BY <2>1, <3>2, <3>3 DEF Listeners
  <2>2. k \notin Listeners(next)
    BY <1>1, <1>4, <2>1
  <2> QED
    BY <1>1, <1>2, <1>4, <2>2 DEF PeerStatusCurrent
<1> QED
  BY <1>3, <1>4

\* Every step leaves the open listeners with the present status.
LEMMA NextCurrent ==
  TypeOK /\ TablesSound /\ PeerStatusCurrent /\ [Next]_vars => PeerStatusCurrent'
<1> SUFFICES ASSUME TypeOK, TablesSound, PeerStatusCurrent, [Next]_vars
             PROVE  PeerStatusCurrent'
  OBVIOUS
<1>0. TypeOK' /\ TablesSound'
  BY NextType, NextSound
<1>1. CASE UNCHANGED <<told, peers, conn>>
  BY <1>1, SilenceIsCurrent
<1>2. CASE \E k \in Sockets : Accept(k) \/ FrameRefused(k)
  BY <1>2, SilenceIsCurrent DEF Accept, FrameRefused, StartClosing, TypeOK
<1>3. CASE Restart
  BY <1>3, SilenceIsCurrent DEF Restart, TypeOK
<1>4. CASE \E k \in Sockets, s \in Sessions, role \in Roles :
             Authenticate(k, s, role)
  <2>1. PICK k \in Sockets, s \in Sessions, role \in Roles :
          Authenticate(k, s, role)
    BY <1>4
  <2> DEFINE old  == GetSessionPeers(s)
             next == IF role = "mobile" THEN [old EXCEPT !.mobile = k] ELSE old
  <2>2. /\ peers' = [peers EXCEPT ![s] = next]
        /\ told' = Broadcast(next)
        /\ conn' = conn
    BY <2>1 DEF Authenticate
  <2>3. next \in Peers
    BY GetSessionPeersType DEF Peers
  <2> HIDE DEF next
  <2> QED
    BY <1>0, <2>2, <2>3, BroadcastIsCurrent
<1>5. CASE \E k \in Sockets, w \in Workspaces : AgentHello(k, w)
  <2>1. PICK k \in Sockets, w \in Workspaces : AgentHello(k, w)
    BY <1>5
  <2> DEFINE s    == claims[k].session
             next == Registered(GetSessionPeers(s), k, w)
  <2>2. /\ peers' = [peers EXCEPT ![s] = next]
        /\ told' = Broadcast(next)
        /\ conn' = conn
    BY <2>1 DEF AgentHello
  <2>3. s \in Sessions
    BY <2>1 DEF AgentHello, IsRole, TypeOK, Claims
  <2>4. next \in Peers
    BY <2>3, GetSessionPeersType, RegisteredType
  <2> HIDE DEF next, s
  <2> QED
    BY <1>0, <2>2, <2>3, <2>4, BroadcastIsCurrent
<1>6. CASE \E k \in Sockets : SocketClosed(k)
  <2>1. PICK k \in Sockets : SocketClosed(k)
    BY <1>6
  <2> DEFINE s    == claims[k].session
             next == Departed(peers[s], k)
  <2>2. \A j \in Sockets : conn'[j] = "open" => conn[j] = "open"
    BY <2>1 DEF SocketClosed, TypeOK
  <2>3. CASE claims[k] = None \/ peers[s] = None
    <3>1. UNCHANGED <<peers, told>>
      BY <2>1, <2>3 DEF SocketClosed
    <3> QED
      BY <2>2, <3>1, SilenceIsCurrent
  <2>4. CASE claims[k] # None /\ peers[s] # None
    <3>1. s \in Sessions
      BY <2>4 DEF TypeOK, Claims
    <3>2. next \in Peers
      BY <2>4, <3>1, DepartedType DEF TypeOK
    <3>3. \/ peers' = [peers EXCEPT ![s] = None] /\ told' = told
          \/ peers' = [peers EXCEPT ![s] = next] /\ told' = Broadcast(next)
      BY <2>1, <2>4 DEF SocketClosed
    <3> HIDE DEF next, s
    <3>4. CASE peers' = [peers EXCEPT ![s] = None] /\ told' = told
      BY <2>2, <3>4, SilenceIsCurrent DEF TypeOK
    <3> QED
      BY <1>0, <2>2, <3>1, <3>2, <3>3, <3>4, BroadcastIsCurrent
  <2> QED
    BY <2>3, <2>4
<1>7. CASE \E k \in Sockets : WriteForPrunedSession(k)
  BY <1>3, <1>7 DEF WriteForPrunedSession
<1>8. CASE \E s \in Sessions : CreateSession(s) \/ Pair(s) \/ Expire(s)
  BY <1>1, <1>8 DEF CreateSession, Pair, Expire, links
<1>9. CASE PruneExpired
  BY <1>1, <1>9 DEF PruneExpired, links
<1>10. CASE \E r \in Requests :
              \/ \E s \in Sessions, w \in Workspaces \cup {None} :
                   RequestFile(r, s, w)
              \/ RequestTimeout(r)
              \/ \E k \in Sockets : FileResponse(k, r)
  BY <1>1, <1>10 DEF RequestFile, RequestTimeout, FileResponse, links
<1>11. CASE UNCHANGED vars
  BY <1>1, <1>11 DEF vars
<1> QED
  BY <1>2, <1>3, <1>4, <1>5, <1>6, <1>7, <1>8, <1>9, <1>10, <1>11 DEF Next

\* The last peer_status an open, routed socket got is the present one, for
\* any number of sessions whose sockets register, replace each other and
\* close in any order.
THEOREM StatusAlwaysCurrent == Spec => []PeerStatusCurrent
<1>1. Init => TypeOK /\ TablesSound /\ PeerStatusCurrent
  BY DEF Init, TypeOK, TablesSound, PeerStatusCurrent
<1>2. TypeOK /\ TablesSound /\ PeerStatusCurrent /\ [Next]_vars
      => (TypeOK /\ TablesSound /\ PeerStatusCurrent)'
  BY NextType, NextSound, NextCurrent
<1> QED
  BY <1>1, <1>2, PTL DEF Spec

-----------------------------------------------------------------------------
(* The agent's place.                                                      *)

\* Socket k is the entry of workspace w in record p.
Carries(p, w, k) == \E i \in DOMAIN p.agents : p.agents[i] = [id |-> w, ws |-> k]

\* Frames of session s for workspace w go to the socket that carries w.
LEMMA TargetIsCarrier ==
  ASSUME NEW p \in Peers, UniqueKeys(p.agents), NEW w, NEW k \in Sockets
  PROVE  MapGet(p.agents, w) = k <=> Carries(p, w, k)
<1>1. p.agents \in Seq(Entry)
  BY DEF Peers
<1>2. \A i \in DOMAIN p.agents : p.agents[i] \in Entry
  BY <1>1
<1>3. ASSUME MapGet(p.agents, w) = k PROVE Carries(p, w, k)
  <2>1. w \in Keys(p.agents)
    BY <1>3, NoneAssumption DEF MapGet
  <2>2. /\ Position(p.agents, w) \in DOMAIN p.agents
        /\ p.agents[Position(p.agents, w)].id = w
    BY <1>1, <2>1, PositionOfKey
  <2>3. p.agents[Position(p.agents, w)].ws = k
    BY <1>3, <2>1 DEF MapGet
  <2> QED
    BY <1>2, <2>2, <2>3 DEF Carries, Entry
<1>4. ASSUME Carries(p, w, k) PROVE MapGet(p.agents, w) = k
  <2>1. PICK i \in DOMAIN p.agents : p.agents[i] = [id |-> w, ws |-> k]
    BY <1>4 DEF Carries
  <2>2. w \in Keys(p.agents)
    BY <2>1 DEF Keys
  <2>3. /\ Position(p.agents, w) \in DOMAIN p.agents
        /\ p.agents[Position(p.agents, w)].id = w
    BY <1>1, <2>2, PositionOfKey
  <2>4. Position(p.agents, w) = i
    BY <2>1, <2>3 DEF UniqueKeys
  <2> QED
    BY <2>1, <2>2, <2>4 DEF MapGet
<1> QED
  BY <1>3, <1>4

\* A registration keeps the other workspaces with their sockets, and gives
\* its own to the socket that announces it.
LEMMA RegisteredCarries ==
  ASSUME TypeOK, NEW p \in Peers, UniqueKeys(p.agents),
         NEW j \in Sockets, NEW v \in Workspaces,
         NEW k \in Sockets, NEW w \in Workspaces, Carries(p, w, k),
         j = k => v = w,
         j # k => wsId[j] # w /\ v # w
  PROVE  Carries(Registered(p, j, v), w, k)
<1> DEFINE renamed == IF wsId[j] # None /\ wsId[j] # v
                      THEN MapDelete(p.agents, wsId[j]) ELSE p.agents
           rest    == MapDelete(renamed, v)
           e       == [id |-> v, ws |-> j]
           all     == Append(rest, e)
           q       == Registered(p, j, v)
<1>1. PICK i \in DOMAIN p.agents : p.agents[i] = [id |-> w, ws |-> k]
  BY DEF Carries
<1>2. p.agents \in Seq(Entry)
  BY DEF Peers
<1>3. /\ renamed \in Seq(Entry) /\ UniqueKeys(renamed)
      /\ j # k => \E n \in DOMAIN renamed : renamed[n] = [id |-> w, ws |-> k]
  <2>1. CASE wsId[j] # None /\ wsId[j] # v
    <3>1. renamed = MapDelete(p.agents, wsId[j])
      BY <2>1
    <3> HIDE DEF renamed
    <3>2. /\ renamed \in Seq(Entry) /\ UniqueKeys(renamed)
          /\ \A n \in DOMAIN p.agents : p.agents[n].id # wsId[j] =>
               \E m \in DOMAIN renamed : renamed[m] = p.agents[n]
      BY <1>2, <3>1, MapDeleteProperties
    <3> QED
      BY <1>1, <3>2
  <2>2. CASE ~(wsId[j] # None /\ wsId[j] # v)
    BY <1>1, <1>2, <2>2
  <2> QED
    BY <2>1, <2>2
<1> HIDE DEF renamed
<1>4. /\ rest \in Seq(Entry)
      /\ j # k => \E n \in DOMAIN rest : rest[n] = [id |-> w, ws |-> k]
  <2>1. /\ rest \in Seq(Entry)
        /\ UniqueKeys(rest)
        /\ \A m \in DOMAIN rest : rest[m].id # v /\
             \E n \in DOMAIN renamed : rest[m] = renamed[n]
        /\ \A n \in DOMAIN renamed : renamed[n].id # v =>
             \E m \in DOMAIN rest : rest[m] = renamed[n]
    BY <1>3, MapDeleteProperties
  <2> HIDE DEF rest
  <2>2. ASSUME j # k PROVE \E n \in DOMAIN rest : rest[n] = [id |-> w, ws |-> k]
    <3>1. PICK n \in DOMAIN renamed : renamed[n] = [id |-> w, ws |-> k]
      BY <1>3, <2>2
    <3>2. renamed[n].id # v
      BY <2>2, <3>1
    <3>3. PICK m \in DOMAIN rest : rest[m] = renamed[n]
      BY <2>1, <3>2
    <3> QED
      BY <3>1, <3>3
  <2> QED
    BY <2>1, <2>2
<1> HIDE DEF rest
<1>5. e \in Entry
  BY DEF Entry
<1> HIDE DEF e
<1>6. /\ Len(rest) \in Nat /\ DOMAIN rest = 1 .. Len(rest)
      /\ DOMAIN all = 1 .. Len(rest) + 1
      /\ \A n \in 1 .. Len(rest) : all[n] = rest[n]
      /\ all[Len(rest) + 1] = e
  BY <1>4, <1>5, AppendProperties
<1> HIDE DEF all
<1>7. q.agents = all
  <2>1. q = [p EXCEPT !.agents = all, !.active = v]
    BY DEF Registered, all, rest, renamed, e
  <2> HIDE DEF q
  <2> QED
    BY <2>1 DEF Peers
<1> HIDE DEF q
<1>8. CASE j = k
  BY <1>6, <1>7, <1>8 DEF Carries, e, q
<1>9. CASE j # k
  <2>1. PICK n \in DOMAIN rest : rest[n] = [id |-> w, ws |-> k]
    BY <1>4, <1>9
  <2>2. n \in DOMAIN all /\ all[n] = [id |-> w, ws |-> k]
    BY <1>6, <2>1
  <2> QED
    BY <1>7, <2>2 DEF Carries, q
<1> QED
  BY <1>8, <1>9

\* A close keeps every workspace but the one of the socket that closed.
LEMMA DepartedCarries ==
  ASSUME TypeOK, NEW p \in Peers, UniqueKeys(p.agents), NEW j \in Sockets,
         NEW k \in Sockets, NEW w \in Workspaces, Carries(p, w, k), wsId[j] # w
  PROVE  Carries(Departed(p, j), w, k)
<1> DEFINE rest == MapDelete(p.agents, wsId[j])
           q    == Departed(p, j)
<1>1. PICK i \in DOMAIN p.agents : p.agents[i] = [id |-> w, ws |-> k]
  BY DEF Carries
<1>2. p.agents \in Seq(Entry)
  BY DEF Peers
<1>3. \E n \in DOMAIN rest : rest[n] = [id |-> w, ws |-> k]
  <2>1. /\ rest \in Seq(Entry)
        /\ UniqueKeys(rest)
        /\ \A m \in DOMAIN rest : rest[m].id # wsId[j] /\
             \E n \in DOMAIN p.agents : rest[m] = p.agents[n]
        /\ \A n \in DOMAIN p.agents : p.agents[n].id # wsId[j] =>
             \E m \in DOMAIN rest : rest[m] = p.agents[n]
    BY <1>2, MapDeleteProperties
  <2> HIDE DEF rest
  <2> QED
    BY <1>1, <2>1
<1> HIDE DEF rest
<1>4. q.agents = p.agents \/ q.agents = rest
  <2>1. \/ q = [p EXCEPT !.mobile = IF @ = j THEN None ELSE @]
        \/ q = p
        \/ q = [p EXCEPT !.agents = rest,
                         !.active = IF @ = wsId[j] THEN LastKey(rest) ELSE @]
    BY DEF Departed, rest
  <2> HIDE DEF q
  <2> QED
    BY <2>1 DEF Peers
<1> HIDE DEF q
<1> QED
  BY <1>1, <1>3, <1>4 DEF Carries, q
\* Who carries the workspace a live agent announced still carries it after
\* any step, when no other socket of the session has to do with it.
LEMMA CarrierRemains ==
  ASSUME TypeOK, TablesSound, [Next]_vars,
         NEW k \in Sockets, conn[k] = "open", conn'[k] = "open",
         NEW s \in Sessions, claims[k] = [session |-> s, role |-> "agent"],
         NEW w \in Workspaces, wsId[k] = w, wsId'[k] = w,
         peers[s] # None, Carries(peers[s], w, k),
         \A j \in Sockets \ {k} :
           Readable(j) /\ claims[j] # None /\ claims[j].session = s
           => w \notin {wsId[j], wsId'[j]}
  PROVE  peers'[s] # None /\ Carries(peers'[s], w, k)
<1>0. peers[s] \in Peers /\ UniqueKeys(peers[s].agents)
  BY DEF TypeOK, TablesSound, TableSound
<1>1. CASE UNCHANGED peers
  BY <1>1
<1>2. CASE \E j \in Sockets, t \in Sessions, role \in Roles :
             Authenticate(j, t, role)
  <2>1. PICK j \in Sockets, t \in Sessions, role \in Roles :
          Authenticate(j, t, role)
    BY <1>2
  <2> DEFINE old  == GetSessionPeers(t)
             next == IF role = "mobile" THEN [old EXCEPT !.mobile = j] ELSE old
  <2>2. peers' = [peers EXCEPT ![t] = next]
    BY <2>1 DEF Authenticate
  <2>3. CASE s = t
    <3>1. old = peers[s]
      BY <2>3 DEF GetSessionPeers
    <3>2. next \in Peers /\ next.agents = peers[s].agents
      BY <1>0, <3>1 DEF Peers
    <3> HIDE DEF next
    <3>3. peers'[s] = next /\ next # None
      BY <2>2, <2>3, <3>2, NoneAssumption DEF TypeOK
    <3> QED
      BY <3>2, <3>3 DEF Carries
  <2>4. CASE s # t
    BY <2>2, <2>4 DEF TypeOK
  <2> QED
    BY <2>3, <2>4
<1>3. CASE \E j \in Sockets, v \in Workspaces : AgentHello(j, v)
  <2>1. PICK j \in Sockets, v \in Workspaces : AgentHello(j, v)
    BY <1>3
  <2> DEFINE t    == claims[j].session
             next == Registered(GetSessionPeers(t), j, v)
  <2>2. /\ peers' = [peers EXCEPT ![t] = next]
        /\ Readable(j) /\ claims[j] # None
    BY <2>1 DEF AgentHello, IsRole
  <2>3. wsId'[j] = v
    BY <2>1 DEF AgentHello, TypeOK
  <2>4. CASE s = t
    <3>1. GetSessionPeers(t) = peers[s]
      BY <2>4 DEF GetSessionPeers
    <3>2. j # k => wsId[j] # w /\ v # w
      BY <2>2, <2>3, <2>4
    <3>3. j = k => v = w
      BY <2>3
    <3>4. next \in Peers /\ Carries(next, w, k)
      BY <1>0, <3>1, <3>2, <3>3, RegisteredType, RegisteredCarries
    <3> HIDE DEF next
    <3> QED
      BY <2>2, <2>4, <3>4, NoneAssumption DEF TypeOK
  <2>5. CASE s # t
    BY <2>2, <2>5 DEF TypeOK
  <2> QED
    BY <2>4, <2>5
<1>4. CASE \E j \in Sockets : SocketClosed(j)
  <2>1. PICK j \in Sockets : SocketClosed(j)
    BY <1>4
  <2> DEFINE t    == claims[j].session
             next == Departed(peers[t], j)
  <2>2. j # k /\ Readable(j) /\ wsId' = wsId
    BY <2>1 DEF SocketClosed, TypeOK
  <2>3. CASE claims[j] = None \/ peers[t] = None \/ s # t
    BY <2>1, <2>3 DEF SocketClosed, TypeOK
  <2>4. CASE claims[j] # None /\ peers[t] # None /\ s = t
    <3>1. wsId[j] # w
      BY <2>2, <2>4
    <3>2. next \in Peers /\ Carries(next, w, k)
      BY <1>0, <2>4, <3>1, DepartedType, DepartedCarries
    <3> HIDE DEF next
    <3>3. next.agents # <<>>
      BY <3>2 DEF Carries
    <3>4. peers' = [peers EXCEPT ![t] = next]
      BY <2>1, <2>4, <3>3 DEF SocketClosed, next
    <3> QED
      BY <2>4, <3>2, <3>4, NoneAssumption DEF TypeOK
  <2> QED
    BY <2>3, <2>4
<1>5. CASE Restart
  BY <1>5 DEF Restart
<1>6. CASE \E j \in Sockets : WriteForPrunedSession(j)
  BY <1>5, <1>6 DEF WriteForPrunedSession
<1>7. CASE \/ \E t \in Sessions : CreateSession(t) \/ Pair(t) \/ Expire(t)
           \/ PruneExpired
  BY <1>1, <1>7 DEF CreateSession, Pair, Expire, PruneExpired, links
<1>8. CASE \E j \in Sockets : Accept(j) \/ FrameRefused(j)
  BY <1>1, <1>8 DEF Accept, FrameRefused, StartClosing
<1>9. CASE \E r \in Requests :
             \/ \E t \in Sessions, v \in Workspaces \cup {None} :
                  RequestFile(r, t, v)
             \/ RequestTimeout(r)
             \/ \E j \in Sockets : FileResponse(j, r)
  BY <1>1, <1>9 DEF RequestFile, RequestTimeout, FileResponse, links
<1>10. CASE UNCHANGED vars
  BY <1>1, <1>10 DEF vars
<1> QED
  BY <1>2, <1>3, <1>4, <1>5, <1>6, <1>7, <1>8, <1>9, <1>10 DEF Next

\* A socket's claims are set once.
LEMMA ClaimsStay ==
  ASSUME TypeOK, [Next]_vars, NEW k \in Sockets, claims[k] # None
  PROVE  claims'[k] = claims[k]
<1>1. CASE UNCHANGED claims
  BY <1>1
<1>2. CASE \E j \in Sockets, t \in Sessions, role \in Roles :
             Authenticate(j, t, role)
  BY <1>2 DEF Authenticate, TypeOK
<1> QED
  BY <1>1, <1>2
     DEF Next, vars, links, CreateSession, Pair, Expire, PruneExpired, Accept,
         FrameRefused, StartClosing, AgentHello, FileResponse, SocketClosed,
         WriteForPrunedSession, Restart, RequestFile, RequestTimeout

\* Frames for the workspace of an open agent keep reaching it, until another
\* live socket of its session carries the same workspace.
THEOREM AgentKeepsPlace == Spec => AgentKeepsItsPlace
<1>1. ASSUME TypeOK, TablesSound, TypeOK', TablesSound', [Next]_vars,
             NEW k \in Sockets, conn[k] = "open", conn'[k] = "open",
             IsRole(k, "agent"), wsId[k] # None, wsId'[k] = wsId[k],
             ResolveTargetAgent(claims[k].session, wsId[k]) = k,
             \A j \in Sockets \ {k} :
               Readable(j) /\ claims[j] # None
               /\ claims[j].session = claims[k].session
               => wsId[k] \notin {wsId[j], wsId'[j]}
      PROVE  ResolveTargetAgent(claims[k].session, wsId[k])' = k
  <2> DEFINE s == claims[k].session
             w == wsId[k]
  <2>0. TypeOK /\ TablesSound /\ TypeOK' /\ TablesSound'
    BY <1>1
  <2>1. /\ s \in Sessions /\ w \in Workspaces
        /\ claims[k] = [session |-> s, role |-> "agent"]
    BY <1>1 DEF IsRole, TypeOK, Claims
  <2>2. claims'[k].session = s
    BY <1>1, ClaimsStay DEF IsRole
  <2>3. peers[s] # None /\ MapGet(peers[s].agents, w) = k
    BY <1>1, NoneAssumption DEF ResolveTargetAgent
  <2>4. peers[s] \in Peers /\ UniqueKeys(peers[s].agents)
    <3>1. peers[s] \in Peers
      BY <2>0, <2>1, <2>3 DEF TypeOK
    <3>2. UniqueKeys(peers[s].agents)
      BY <2>0, <2>1, <2>3 DEF TablesSound, TableSound
    <3> QED
      BY <3>1, <3>2
  <2>5. Carries(peers[s], w, k)
    BY <2>3, <2>4, TargetIsCarrier
  <2> HIDE DEF s, w
  <2>6. peers'[s] # None /\ Carries(peers'[s], w, k)
    BY <1>1, <2>1, <2>3, <2>5, CarrierRemains DEF s, w
  <2>7. peers'[s] \in Peers /\ UniqueKeys(peers'[s].agents)
    <3>1. peers'[s] \in Peers
      BY <2>0, <2>1, <2>6 DEF TypeOK
    <3>2. UniqueKeys(peers'[s].agents)
      BY <2>0, <2>1, <2>6 DEF TablesSound, TableSound
    <3> QED
      BY <3>1, <3>2
  <2>8. MapGet(peers'[s].agents, w) = k
    BY <2>6, <2>7, TargetIsCarrier
  <2>9. ResolveTargetAgent(claims[k].session, wsId[k])' =
          IF peers'[s] = None THEN None ELSE MapGet(peers'[s].agents, w)
    BY <1>1, <2>2 DEF ResolveTargetAgent, s, w
  <2> QED
    BY <2>6, <2>8, <2>9
<1>2. TypeOK /\ TablesSound /\ TypeOK' /\ TablesSound' /\ [Next]_vars =>
        [\A k \in Sockets :
           /\ conn[k] = "open" /\ conn'[k] = "open"
           /\ IsRole(k, "agent") /\ wsId[k] # None /\ wsId'[k] = wsId[k]
           /\ ResolveTargetAgent(claims[k].session, wsId[k]) = k
           /\ \A j \in Sockets \ {k} :
                Readable(j) /\ claims[j] # None
                /\ claims[j].session = claims[k].session
                => wsId[k] \notin {wsId[j], wsId'[j]}
           => ResolveTargetAgent(claims[k].session, wsId[k])' = k]_vars
  BY <1>1
<1> QED
  BY <1>2, TablesAlwaysSound, PTL DEF Spec, AgentKeepsItsPlace

-----------------------------------------------------------------------------
(* Files on their way to a phone (RelayFiles).                             *)

\* The requests of the open page for a file.
Promised(f) == {r \in Requests : fileOf[r] = f}

\* A request is one that was sent, and the page counts those of each file.
FilesInv ==
  /\ loading \in BOOLEAN
  /\ reading \in [Files -> Nat]
  /\ fileOf \in [Requests -> Files \cup {None}]
  /\ \A f \in Files : /\ IsFiniteSet(Promised(f))
                      /\ reading[f] = Cardinality(Promised(f))
  /\ \A r \in Requests : fileOf[r] # None => outcome[r] # "unsent"
  /\ loading => \E f \in Files : reading[f] > 0

\* No step of the relay forgets that a request was sent.
LEMMA SentStaysSent ==
  ASSUME TypeOK, [Next]_vars, NEW r \in Requests, outcome[r] # "unsent"
  PROVE  outcome'[r] # "unsent"
<1>1. outcome \in [Requests -> {"unsent", "waiting", "answered", "timeout",
                               "unavailable", "lost"}]
  BY DEF TypeOK
<1>2. CASE outcome' = outcome
  BY <1>2
<1>3. CASE \E q \in Requests : outcome' \in {[outcome EXCEPT ![q] = "waiting"],
                                             [outcome EXCEPT ![q] = "unavailable"],
                                             [outcome EXCEPT ![q] = "timeout"],
                                             [outcome EXCEPT ![q] = "answered"]}
  BY <1>1, <1>3
<1>4. CASE Restart
  BY <1>4 DEF Restart
<1>5. CASE \E q \in Requests, s \in Sessions, w \in Workspaces \cup {None} :
             RequestFile(q, s, w)
  <2>1. PICK q \in Requests, s \in Sessions, w \in Workspaces \cup {None} :
          RequestFile(q, s, w)
    BY <1>5
  <2>2. outcome' \in {[outcome EXCEPT ![q] = "waiting"],
                      [outcome EXCEPT ![q] = "unavailable"]}
    BY <2>1 DEF RequestFile
  <2> QED
    BY <1>3, <2>2
<1>6. CASE \E q \in Requests : RequestTimeout(q) \/ \E k \in Sockets : FileResponse(k, q)
  BY <1>3, <1>6 DEF RequestTimeout, FileResponse
<1>7. CASE \E k \in Sockets : WriteForPrunedSession(k)
  BY <1>4, <1>7 DEF WriteForPrunedSession
<1>8. CASE \/ \E s \in Sessions : CreateSession(s) \/ Pair(s) \/ Expire(s)
           \/ PruneExpired
  BY <1>2, <1>8 DEF CreateSession, Pair, Expire, PruneExpired, reqs
<1>9. CASE \E k \in Sockets :
             \/ Accept(k) \/ FrameRefused(k) \/ SocketClosed(k)
             \/ \E s \in Sessions, role \in Roles : Authenticate(k, s, role)
             \/ \E w \in Workspaces : AgentHello(k, w)
  BY <1>2, <1>9
     DEF Accept, FrameRefused, StartClosing, SocketClosed, Authenticate,
         AgentHello, reqs
<1>10. CASE UNCHANGED vars
  BY <1>2, <1>10 DEF vars
<1> QED
  BY <1>4, <1>5, <1>6, <1>7, <1>8, <1>9, <1>10 DEF Next

\* A step beside the phone is one of the relay, and a step of the pane leaves
\* the relay alone or asks it for a file.
LEMMA FilesStepOfHub == [FilesNext]_allVars => [Next]_vars
<1>1. ASSUME NEW r \in Requests, NEW f, NEW s \in Sessions,
             NEW w \in Workspaces \cup {None}, ReadFile(r, f, s, w)
      PROVE  Next
  BY <1>1 DEF ReadFile, Next
<1>2. ASSUME NEW r \in Requests, Heard(r) PROVE UNCHANGED vars
  BY <1>2 DEF Heard
<1>3. Switch \/ Leave => UNCHANGED vars
  BY DEF Switch, Leave
<1>4. UNCHANGED allVars => UNCHANGED vars
  BY DEF allVars
<1> QED
  BY <1>1, <1>2, <1>3, <1>4 DEF FilesNext

\* With phones that read files the relay is the relay.
THEOREM FilesImplementHub == FilesSpec => Spec
<1>1. FilesInit => Init
  BY DEF FilesInit
<1> QED
  BY <1>1, FilesStepOfHub, PTL DEF FilesSpec, Spec

\* Every file that is answered is one of the project.
LEMMA FilesStepOfPane ==
  ASSUME fileOf \in [Requests -> Files \cup {None}], [FilesNext]_allVars
  PROVE  [Pane!Next]_(Pane!vars)
<1>1. ASSUME NEW r \in Requests, NEW f \in Files, NEW s, NEW w, ReadFile(r, f, s, w)
      PROVE  Pane!Next
  BY <1>1 DEF ReadFile, Pane!Next
<1>2. ASSUME NEW r \in Requests, Heard(r) PROVE Pane!Next
  <2>1. fileOf[r] \in Files
    BY <1>2 DEF Heard
  <2> QED
    BY <1>2, <2>1 DEF Heard, Pane!Next
<1>3. Switch => Pane!Next
  BY DEF Switch, Pane!Next
<1>4. Leave => Pane!Next
  BY DEF Leave, Pane!Next
<1>5. UNCHANGED pane => UNCHANGED Pane!vars
  BY DEF pane, Pane!vars
<1>6. UNCHANGED allVars => UNCHANGED pane
  BY DEF allVars
<1> QED
  BY <1>1, <1>2, <1>3, <1>4, <1>5, <1>6 DEF FilesNext

\* Nothing is asked for at first.
LEMMA InitFilesInv == FilesInit => FilesInv
<1> SUFFICES ASSUME FilesInit PROVE FilesInv
  OBVIOUS
<1>1. /\ loading = FALSE /\ reading = [f \in Files |-> 0]
      /\ fileOf = [r \in Requests |-> None]
  BY DEF FilesInit, Pane!Init, Pane!Blank
<1>2. \A f \in Files : Promised(f) = {}
  BY <1>1, FilesAssumption DEF Promised
<1> QED
  BY <1>1, <1>2, FS_EmptySet DEF FilesInv

\* A step of the relay alone.
LEMMA HubKeepsFiles ==
  ASSUME TypeOK, FilesInv, [Next]_vars, UNCHANGED pane
  PROVE  FilesInv'
<1>1. UNCHANGED <<loading, reading, fileOf>>
  BY DEF pane
<1>2. \A r \in Requests : fileOf'[r] # None => outcome'[r] # "unsent"
  BY <1>1, SentStaysSent DEF FilesInv
<1>3. \A f \in Files : Promised(f)' = Promised(f)
  BY <1>1 DEF Promised
<1> QED
  BY <1>1, <1>2, <1>3 DEF FilesInv

\* A file is asked for.
LEMMA ReadFileKeepsFiles ==
  ASSUME TypeOK, FilesInv, NEW r \in Requests, NEW f \in Files, NEW s \in Sessions,
         NEW w \in Workspaces \cup {None}, ReadFile(r, f, s, w)
  PROVE  FilesInv'
<1>1. /\ Pane!OpenFile(f) /\ RequestFile(r, s, w)
      /\ fileOf' = [fileOf EXCEPT ![r] = f]
  BY DEF ReadFile, Pane!FileChanged
<1>2. /\ loading' = TRUE /\ reading' = [reading EXCEPT ![f] = reading[f] + 1]
  BY <1>1 DEF Pane!OpenFile
<1>3. outcome[r] = "unsent" /\ outcome' \in {[outcome EXCEPT ![r] = "waiting"],
                                             [outcome EXCEPT ![r] = "unavailable"]}
  BY <1>1 DEF RequestFile
<1>4. /\ reading \in [Files -> Nat] /\ fileOf \in [Requests -> Files \cup {None}]
      /\ fileOf[r] = None
  BY <1>3 DEF FilesInv
<1>5. \A q \in Requests : fileOf'[q] # None => outcome'[q] # "unsent"
  BY <1>1, <1>3, <1>4 DEF FilesInv, TypeOK
<1>6. /\ Promised(f)' = Promised(f) \cup {r} /\ r \notin Promised(f)
      /\ \A g \in Files : g # f => Promised(g)' = Promised(g)
  BY <1>1, <1>4, FilesAssumption DEF Promised
<1>7. /\ reading' \in [Files -> Nat] /\ reading'[f] = reading[f] + 1 /\ reading'[f] > 0
      /\ \A g \in Files : g # f => reading'[g] = reading[g]
  BY <1>2, <1>4
<1>8. ASSUME NEW g \in Files
      PROVE  IsFiniteSet(Promised(g)') /\ reading'[g] = Cardinality(Promised(g)')
  <2>1. IsFiniteSet(Promised(g)) /\ reading[g] = Cardinality(Promised(g))
    BY DEF FilesInv
  <2>2. CASE g = f
    BY <1>6, <1>7, <2>1, <2>2, FS_AddElement
  <2>3. CASE g # f
    BY <1>6, <1>7, <2>1, <2>3
  <2> QED
    BY <2>2, <2>3
<1>9. fileOf' \in [Requests -> Files \cup {None}]
  BY <1>1, <1>4
<1> QED
  BY <1>2, <1>5, <1>7, <1>8, <1>9 DEF FilesInv

\* A promise of the page is settled.
LEMMA HeardKeepsFiles ==
  ASSUME FilesInv, NEW r \in Requests, Heard(r)
  PROVE  FilesInv'
<1>1. PICK f \in Files : f = fileOf[r]
  BY DEF Heard, FilesInv
<1>2. reading \in [Files -> Nat] /\ fileOf \in [Requests -> Files \cup {None}]
  BY DEF FilesInv
<1>3. /\ reading[f] > 0 /\ reading' = [reading EXCEPT ![f] = reading[f] - 1]
      /\ loading' = FALSE
  BY <1>1 DEF Heard, Pane!FileAnswered, Pane!FileFailed, Pane!FileFailedInCode, Pane!Answered
<1>4. fileOf' = [fileOf EXCEPT ![r] = None] /\ outcome' = outcome
  BY DEF Heard, vars
<1>5. /\ Promised(f)' = Promised(f) \ {r} /\ r \in Promised(f)
      /\ \A g \in Files : g # f => Promised(g)' = Promised(g)
  <2>1. f = fileOf[r] /\ f # None /\ fileOf'[r] = None
    BY <1>1, <1>2, <1>4, FilesAssumption
  <2>2. \A q \in Requests : q # r => fileOf'[q] = fileOf[q]
    BY <1>2, <1>4
  <2>3. r \in Promised(f) /\ \A g \in Files : g # f => r \notin Promised(g)
    BY <2>1 DEF Promised
  <2>4. Promised(f)' = Promised(f) \ {r}
    BY <2>1, <2>2 DEF Promised
  <2>5. ASSUME NEW g \in Files, g # f PROVE Promised(g)' = Promised(g)
    <3>1. g # None
      BY FilesAssumption
    <3> QED
      BY <2>1, <2>2, <2>5, <3>1 DEF Promised
  <2> QED
    BY <2>3, <2>4, <2>5
<1>6. /\ reading' \in [Files -> Nat] /\ reading'[f] = reading[f] - 1
      /\ \A g \in Files : g # f => reading'[g] = reading[g]
  BY <1>1, <1>2, <1>3
<1>7. ASSUME NEW g \in Files
      PROVE  IsFiniteSet(Promised(g)') /\ reading'[g] = Cardinality(Promised(g)')
  <2>1. IsFiniteSet(Promised(g)) /\ reading[g] = Cardinality(Promised(g))
    BY DEF FilesInv
  <2>2. CASE g = f
    <3>1. /\ IsFiniteSet(Promised(f) \ {r})
          /\ Cardinality(Promised(f) \ {r}) = Cardinality(Promised(f)) - 1
      BY <1>5, <2>1, <2>2, FS_RemoveElement
    <3> QED
      BY <1>5, <1>6, <2>1, <2>2, <3>1
  <2>3. CASE g # f
    BY <1>5, <1>6, <2>1, <2>3
  <2> QED
    BY <2>2, <2>3
<1>8. /\ fileOf' \in [Requests -> Files \cup {None}]
      /\ \A q \in Requests : fileOf'[q] # None => outcome'[q] # "unsent"
  BY <1>2, <1>4 DEF FilesInv
<1> QED
  BY <1>3, <1>6, <1>7, <1>8 DEF FilesInv

\* The user goes to another workspace, or to another page.
LEMMA LeaveKeepsFiles ==
  ASSUME FilesInv, Switch \/ Leave
  PROVE  FilesInv'
<1>1. CASE Switch
  <2>1. UNCHANGED <<loading, reading, fileOf, outcome>>
    BY <1>1 DEF Switch, Pane!SwitchWorkspace, vars
  <2>2. \A f \in Files : Promised(f)' = Promised(f)
    BY <2>1 DEF Promised
  <2> QED
    BY <2>1, <2>2 DEF FilesInv
<1>2. CASE Leave
  <2>1. /\ loading' = FALSE /\ reading' = [f \in Files |-> 0]
        /\ fileOf' = [r \in Requests |-> None]
    BY <1>2 DEF Leave, Pane!Visit, Pane!Blank
  <2>2. \A f \in Files : Promised(f)' = {}
    BY <2>1, FilesAssumption DEF Promised
  <2> QED
    BY <2>1, <2>2, FS_EmptySet DEF FilesInv
<1> QED
  BY <1>1, <1>2

\* Every step keeps the count of promises.
LEMMA NextKeepsFiles ==
  TypeOK /\ FilesInv /\ [FilesNext]_allVars => FilesInv'
<1> SUFFICES ASSUME TypeOK, FilesInv, [FilesNext]_allVars PROVE FilesInv'
  OBVIOUS
<1>1. CASE Next /\ UNCHANGED pane
  BY <1>1, HubKeepsFiles
<1>2. CASE UNCHANGED allVars
  BY <1>2, HubKeepsFiles DEF allVars
<1>3. CASE \E r \in Requests, f \in Files, s \in Sessions, w \in Workspaces \cup {None} :
             ReadFile(r, f, s, w)
  BY <1>3, ReadFileKeepsFiles
<1>4. CASE \E r \in Requests : Heard(r)
  BY <1>4, HeardKeepsFiles
<1>5. CASE Switch \/ Leave
  BY <1>5, LeaveKeepsFiles
<1> QED
  BY <1>1, <1>2, <1>3, <1>4, <1>5 DEF FilesNext

\* The pane counts the promises of the page, and each is of a request that was
\* sent.
LEMMA FilesAlwaysSound == FilesSpec => [](TypeOK /\ WaitingIsPending /\ FilesInv)
<1>1. FilesSpec => [](TypeOK /\ WaitingIsPending)
  BY FilesImplementHub, TypeCorrect, WaitingIsAlwaysPending, PTL
<1> QED
  BY <1>1, InitFilesInv, NextKeepsFiles, PTL DEF FilesSpec

\* With phones that read files the pane is the pane: an answer is one to a
\* request of the page, for the file that it asked for.
THEOREM FilesImplementPane == FilesSpec => Pane!Spec
<1>1. FilesInit => Pane!Init
  BY DEF FilesInit
<1>2. FilesInv => fileOf \in [Requests -> Files \cup {None}]
  BY DEF FilesInv
<1>3. FilesInv /\ [FilesNext]_allVars => [Pane!Next]_(Pane!vars)
  BY <1>2, FilesStepOfPane
<1> QED
  BY <1>1, <1>3, FilesAlwaysSound, PTL DEF FilesSpec, Pane!Spec

\* While the spinner of the phone turns, a request is settled or a timer of
\* the relay will settle it (relay/src/server.ts:289).
THEOREM SpinnerAlwaysTimed == FilesSpec => []SpinnerIsTimed
<1>1. WaitingIsPending /\ FilesInv => SpinnerIsTimed
  <2> SUFFICES ASSUME WaitingIsPending, FilesInv, loading
               PROVE  \E r \in Requests :
                        /\ fileOf[r] # None /\ outcome[r] # "unsent"
                        /\ outcome[r] = "waiting" => r \in pending
    BY DEF SpinnerIsTimed
  <2>1. PICK f \in Files : reading[f] > 0
    BY DEF FilesInv
  <2>2. Promised(f) # {}
    BY <2>1, FS_EmptySet DEF FilesInv
  <2>3. PICK r \in Requests : fileOf[r] = f
    BY <2>2 DEF Promised
  <2>4. fileOf[r] # None
    BY <2>3, FilesAssumption
  <2> QED
    BY <2>4 DEF FilesInv, WaitingIsPending
<1> QED
  BY <1>1, FilesAlwaysSound, PTL

=============================================================================

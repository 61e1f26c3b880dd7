------------------------------ MODULE RelayHub ------------------------------
(***************************************************************************)
(* The relay server (relay/src/server.ts): the sessions it has in its      *)
(* store, the WebSockets it has accepted, the in-memory routing table      *)
(* `peers` that joins the phone of a session to the agents of the same     *)
(* session, and the map of file requests that wait for an agent's answer.  *)
(*                                                                         *)
(* The server is one Node process, so one handler is one action.  What     *)
(* interleaves is the order in which sockets open, authenticate, speak and *)
(* close, the minute timer that prunes expired sessions, the five-second   *)
(* timer of a file request, and a restart of the process, which loses      *)
(* everything that is not in the SQLite file.                              *)
(*                                                                         *)
(* A socket is used once: a client that reconnects takes another one.      *)
(* `conn[k]` is "closing" after the relay called ws.close(): frames that   *)
(* were under way are still handled, nothing is sent any more.  A broken   *)
(* network makes the old socket of a client close long after its new one   *)
(* was accepted, because the relay sends no pings.                         *)
(***************************************************************************)
EXTENDS InsertionMap

CONSTANTS
  Sessions,    \* session ids the store may hand out (randomUUID)
  Sockets,     \* WebSocket objects, each one good for one connection
  Workspaces,  \* workspace ids an agent may announce
  Requests,    \* request ids of relayed file reads (randomUUID)
  None         \* JavaScript null / undefined

Roles  == {"agent", "mobile"}
Claims == [session : Sessions, role : Roles]
Entry  == [id : Workspaces, ws : Sockets]
Status == [agent : BOOLEAN, mobile : BOOLEAN]
Peers  == [mobile : Sockets \cup {None},
           agents : Seq(Entry),
           active : Workspaces \cup {None}]

ASSUME NoneAssumption ==
  /\ None \notin Sockets
  /\ None \notin Workspaces
  /\ None \notin Claims
  /\ None \notin Peers

VARIABLES
  row,      \* row[s]: the session's row in table `sessions`
  paired,   \* the sessions whose status column is 'paired'
  expired,  \* the sessions whose expires_at has passed
  conn,     \* conn[k]: readyState of a socket
  claims,   \* claims[k]: ws.claims, set by a successful auth frame
  wsId,     \* wsId[k]: ws.workspaceId, set by agent_hello
  peers,    \* peers[s]: the SessionPeers record, None when absent
  told,     \* told[k]: the last peer_status frame sent to socket k
  pending,  \* keys of pendingAgentRequests
  outcome,  \* outcome[r]: what the HTTP client of request r got
  asked     \* asked[r]: the socket that request r was sent to

store == <<row, paired, expired>>
links == <<conn, claims, wsId, peers, told>>
reqs  == <<pending, outcome, asked>>
vars  == <<row, paired, expired, conn, claims, wsId, peers, told,
           pending, outcome, asked>>

TypeOK ==
  /\ row \in [Sessions -> {"none", "live", "pruned"}]
  /\ paired \subseteq Sessions
  /\ expired \subseteq Sessions
  /\ conn \in [Sockets -> {"idle", "open", "closing", "closed"}]
  /\ claims \in [Sockets -> Claims \cup {None}]
  /\ wsId \in [Sockets -> Workspaces \cup {None}]
  /\ peers \in [Sessions -> Peers \cup {None}]
  /\ told \in [Sockets -> Status \cup {None}]
  /\ pending \subseteq Requests
  /\ outcome \in [Requests -> {"unsent", "waiting", "answered", "timeout",
                               "unavailable", "lost"}]
  /\ asked \in [Requests -> Sockets \cup {None}]

-----------------------------------------------------------------------------
(* The JavaScript Map `agents`, an InsertionMap.                            *)

MapGet(m, w) == IF w \in Keys(m) THEN m[Position(m, w)].ws ELSE None

\* Mutant: values() taken for keys().
LastValue(m) == IF m = <<>> THEN None ELSE m[Len(m)].ws

LastKey(m) == IF m = <<>> THEN None ELSE m[Len(m)].id

-----------------------------------------------------------------------------
(* Helpers of the server.                                                  *)

EmptyPeers == [mobile |-> None, agents |-> <<>>, active |-> None]

GetSessionPeers(s) == IF peers[s] = None THEN EmptyPeers ELSE peers[s]

\* Any frame a client sends is handled unless the socket is gone.
Readable(k) == conn[k] \in {"open", "closing"}

IsRole(k, role) == claims[k] # None /\ claims[k].role = role

PeerStatus(p) == [agent |-> p.agents # <<>>, mobile |-> p.mobile # None]

Listeners(p) == {p.mobile} \cup {p.agents[i].ws : i \in DOMAIN p.agents}

\* Mutant: only the phone is told.
BroadcastToPhone(p) ==
  [k \in Sockets |-> IF k = p.mobile /\ conn[k] = "open"
                     THEN PeerStatus(p) ELSE told[k]]

\* What the sockets have been told once peer_status is broadcast for p.
Broadcast(p) ==
  [k \in Sockets |-> IF k \in Listeners(p) /\ conn[k] = "open"
                     THEN PeerStatus(p) ELSE told[k]]

\* Mutant: the entry under the agent's former workspace stays.
RegisteredTwice(p, k, w) ==
  [p EXCEPT !.agents = Append(MapDelete(@, w), [id |-> w, ws |-> k]),
            !.active = w]

\* The routing table after socket k announced workspace w.
Registered(p, k, w) ==
  LET renamed == IF wsId[k] # None /\ wsId[k] # w
                 THEN MapDelete(p.agents, wsId[k])
                 ELSE p.agents
  IN [p EXCEPT !.agents = Append(MapDelete(renamed, w), [id |-> w, ws |-> k]),
               !.active = w]

\* Mutant: the phone's place is cleared whoever holds it.
DepartedAnyPhone(p, k) ==
  IF claims[k].role = "mobile"
  THEN [p EXCEPT !.mobile = None]
  ELSE IF wsId[k] = None
  THEN p
  ELSE LET rest == MapDelete(p.agents, wsId[k])
       IN [p EXCEPT !.agents = rest,
                    !.active = IF @ = wsId[k] THEN LastKey(rest) ELSE @]

\* Mutant: the active workspace is deleted in place of the socket's own.
DepartedActive(p, k) ==
  IF claims[k].role = "mobile"
  THEN [p EXCEPT !.mobile = IF @ = k THEN None ELSE @]
  ELSE LET rest == MapDelete(p.agents, p.active)
       IN [p EXCEPT !.agents = rest, !.active = LastKey(rest)]

\* Mutant: the active workspace is not chosen again.
DepartedKeepsActive(p, k) ==
  IF claims[k].role = "mobile"
  THEN [p EXCEPT !.mobile = IF @ = k THEN None ELSE @]
  ELSE IF wsId[k] = None
  THEN p
  ELSE [p EXCEPT !.agents = MapDelete(@, wsId[k])]

\* The routing table after socket k closed.
Departed(p, k) ==
  IF claims[k].role = "mobile"
  THEN [p EXCEPT !.mobile = IF @ = k THEN None ELSE @]
  ELSE IF wsId[k] = None
  THEN p
  ELSE LET rest == MapDelete(p.agents, wsId[k])
       IN [p EXCEPT !.agents = rest,
                    !.active = IF @ = wsId[k] THEN LastKey(rest) ELSE @]

\* The agent a frame of session s goes to; w is None when none is named.
ResolveTargetAgent(s, w) ==
  IF peers[s] = None THEN None
  ELSE LET p == peers[s]
       IN IF w # None THEN MapGet(p.agents, w)
          ELSE IF p.active # None THEN MapGet(p.agents, p.active)
          ELSE IF p.agents = <<>> THEN None
          ELSE p.agents[Len(p.agents)].ws

-----------------------------------------------------------------------------
Init ==
  /\ row = [s \in Sessions |-> "none"]
  /\ paired = {}
  /\ expired = {}
  /\ conn = [k \in Sockets |-> "idle"]
  /\ claims = [k \in Sockets |-> None]
  /\ wsId = [k \in Sockets |-> None]
  /\ peers = [s \in Sessions |-> None]
  /\ told = [k \in Sockets |-> None]
  /\ pending = {}
  /\ outcome = [r \in Requests |-> "unsent"]
  /\ asked = [r \in Requests |-> None]

-----------------------------------------------------------------------------
(* The store, and the handlers of the REST interface.                      *)

CreateSession(s) ==
  /\ row[s] = "none"
  /\ row' = [row EXCEPT ![s] = "live"]
  /\ UNCHANGED <<paired, expired, links, reqs>>

\* Pairing twice is allowed; a session whose time is over is refused even
\* while its row is still there.
Pair(s) ==
  /\ row[s] = "live"
  /\ s \notin expired
  /\ paired' = paired \cup {s}
  /\ UNCHANGED <<row, expired, links, reqs>>

\* The clock passes expires_at.
Expire(s) ==
  /\ row[s] = "live"
  /\ expired' = expired \cup {s}
  /\ UNCHANGED <<row, paired, links, reqs>>

PrunedRows == [s \in Sessions |-> IF row[s] = "live" /\ s \in expired
                                  THEN "pruned" ELSE row[s]]

PruneExpired ==
  /\ row' = PrunedRows
  /\ UNCHANGED <<paired, expired, links, reqs>>

\* GET .../files?path=: ask the agent and wait for its answer.
RequestFile(r, s, w) ==
  LET target == ResolveTargetAgent(s, w)
      sent   == target # None /\ conn[target] = "open"
  IN /\ row[s] # "none"
     /\ outcome[r] = "unsent"
     /\ outcome' = [outcome EXCEPT ![r] = IF sent THEN "waiting"
                                          ELSE "unavailable"]
     /\ pending' = IF sent THEN pending \cup {r} ELSE pending
     /\ asked' = [asked EXCEPT ![r] = IF sent THEN target ELSE None]
     /\ UNCHANGED <<store, links>>

\* The five-second timer of request r fires.
RequestTimeout(r) ==
  /\ r \in pending
  /\ pending' = pending \ {r}
  /\ outcome' = [outcome EXCEPT ![r] = "timeout"]
  /\ UNCHANGED <<store, links, asked>>

-----------------------------------------------------------------------------
(* The 'message' handler of a socket.                                      *)

Accept(k) ==
  /\ conn[k] = "idle"
  /\ conn' = [conn EXCEPT ![k] = "open"]
  /\ UNCHANGED <<store, claims, wsId, peers, told, reqs>>

StartClosing(k) ==
  /\ conn' = [conn EXCEPT ![k] = "closing"]
  /\ UNCHANGED <<store, claims, wsId, peers, told, reqs>>

\* Close code 1008, 4401 or 4404: a frame that is no JSON, a first frame
\* that is no auth or carries a token that does not verify, or (through
\* the null of store.append) a frame of a session that has no row.
FrameRefused(k) ==
  /\ Readable(k)
  /\ StartClosing(k)

\* A valid token of session s.  Only a session that was created has an
\* agent token and only one that was paired has a mobile token; both
\* outlive the row.
Authenticate(k, s, role) ==
  /\ Readable(k)
  /\ claims[k] = None
  /\ row[s] = "live"
  /\ role = "mobile" => s \in paired
  /\ LET old  == GetSessionPeers(s)
         next == IF role = "mobile" THEN [old EXCEPT !.mobile = k] ELSE old
     IN /\ claims' = [claims EXCEPT ![k] = [session |-> s, role |-> role]]
        /\ peers' = [peers EXCEPT ![s] = next]
        /\ told' = Broadcast(next)
  /\ UNCHANGED <<store, conn, wsId, reqs>>

AgentHello(k, w) ==
  /\ Readable(k)
  /\ IsRole(k, "agent")
  /\ row[claims[k].session] = "live"
  /\ LET s    == claims[k].session
         next == Registered(GetSessionPeers(s), k, w)
     IN /\ peers' = [peers EXCEPT ![s] = next]
        /\ told' = Broadcast(next)
  /\ wsId' = [wsId EXCEPT ![k] = w]
  /\ UNCHANGED <<store, conn, claims, reqs>>

\* Mutant: the entry of an answered request stays.
FileResponseKeepsEntry(k, r) ==
  /\ Readable(k)
  /\ IsRole(k, "agent")
  /\ r \in pending
  /\ claims[k].session = claims[asked[r]].session
  /\ outcome' = [outcome EXCEPT ![r] = "answered"]
  /\ UNCHANGED <<store, links, pending, asked>>

\* The first answer settles the request; a later one finds no entry.  The
\* agent may answer over another socket than the one it was asked on.
FileResponse(k, r) ==
  /\ Readable(k)
  /\ IsRole(k, "agent")
  /\ r \in pending
  /\ claims[k].session = claims[asked[r]].session
  /\ pending' = pending \ {r}
  /\ outcome' = [outcome EXCEPT ![r] = "answered"]
  /\ UNCHANGED <<store, links, asked>>

-----------------------------------------------------------------------------
(* The 'close' handler of a socket.                                        *)

\* Mutant: an empty SessionPeers record is kept.
SocketClosedKeepsRecord(k) ==
  /\ Readable(k)
  /\ conn' = [conn EXCEPT ![k] = "closed"]
  /\ LET s    == claims[k].session
         next == Departed(peers[s], k)
     IN IF claims[k] = None \/ peers[s] = None
        THEN UNCHANGED <<peers, told>>
        ELSE /\ peers' = [peers EXCEPT ![s] = next]
             /\ told' = Broadcast(next)
  /\ UNCHANGED <<store, claims, wsId, reqs>>

SocketClosed(k) ==
  /\ Readable(k)
  /\ conn' = [conn EXCEPT ![k] = "closed"]
  /\ LET s    == claims[k].session
         next == Departed(peers[s], k)
     IN IF claims[k] = None \/ peers[s] = None
        THEN UNCHANGED <<peers, told>>
        ELSE IF next.mobile = None /\ next.agents = <<>>
        THEN /\ peers' = [peers EXCEPT ![s] = None]
             /\ told' = told
        ELSE /\ peers' = [peers EXCEPT ![s] = next]
             /\ told' = Broadcast(next)
  /\ UNCHANGED <<store, claims, wsId, reqs>>

-----------------------------------------------------------------------------
(* The process.                                                            *)

\* The relay stops and is started again: the sockets drop, the maps are
\* empty, the HTTP clients see their connections reset, and expired
\* sessions are pruned before the port is open.
Restart ==
  /\ conn' = [k \in Sockets |-> IF conn[k] = "idle" THEN "idle" ELSE "closed"]
  /\ peers' = [s \in Sessions |-> None]
  /\ pending' = {}
  /\ outcome' = [r \in Requests |-> IF r \in pending THEN "lost"
                                    ELSE outcome[r]]
  /\ row' = PrunedRows
  /\ UNCHANGED <<paired, expired, claims, wsId, told, asked>>

\* agent_hello or status_snapshot of a session whose row was pruned: the
\* foreign key of the upsert fails, nothing catches the exception, and the
\* process ends.
WriteForPrunedSession(k) ==
  /\ Readable(k)
  /\ IsRole(k, "agent")
  /\ row[claims[k].session] = "pruned"
  /\ Restart

-----------------------------------------------------------------------------
Next ==
  \/ \E s \in Sessions : CreateSession(s) \/ Pair(s) \/ Expire(s)
  \/ PruneExpired
  \/ \E k \in Sockets :
       \/ Accept(k)
       \/ FrameRefused(k)
       \/ \E s \in Sessions, role \in Roles : Authenticate(k, s, role)
       \/ \E w \in Workspaces : AgentHello(k, w)
       \/ \E r \in Requests : FileResponse(k, r)
       \/ SocketClosed(k)
       \/ WriteForPrunedSession(k)
  \/ \E r \in Requests :
       \/ \E s \in Sessions, w \in Workspaces \cup {None} : RequestFile(r, s, w)
       \/ RequestTimeout(r)
  \/ Restart

Spec == Init /\ [][Next]_vars

-----------------------------------------------------------------------------
(* Safety.                                                                 *)

\* What the routing table says is so: an entry of `agents` is a socket that
\* has not closed, that authenticated as an agent of this very session and
\* whose latest agent_hello named this workspace; no workspace has two
\* entries; the phone is a socket of this session that has not closed.
\* (Registration, renaming, stale closes and restarts all write the table.)
RoutingTableSound ==
  \A s \in Sessions : peers[s] # None =>
    LET p == peers[s]
    IN /\ \A i \in DOMAIN p.agents :
            /\ Readable(p.agents[i].ws)
            /\ claims[p.agents[i].ws] = [session |-> s, role |-> "agent"]
            /\ wsId[p.agents[i].ws] = p.agents[i].id
       /\ \A i, j \in DOMAIN p.agents :
            p.agents[i].id = p.agents[j].id => i = j
       /\ p.mobile # None =>
            /\ Readable(p.mobile)
            /\ claims[p.mobile] = [session |-> s, role |-> "mobile"]

\* The active workspace is one that is connected, and there is one as soon
\* as any is: a frame of the phone that names no workspace finds an agent.
ActiveIsConnected ==
  \A s \in Sessions : peers[s] # None =>
    /\ peers[s].active \in Keys(peers[s].agents) \cup {None}
    /\ peers[s].active = None <=> peers[s].agents = <<>>

\* A SessionPeers record does not outlive the sockets of its session,
\* whatever the order in which they replace each other and close.
NoPeerEntryLeak ==
  \A s \in Sessions : peers[s] # None =>
    \E k \in Sockets : Readable(k) /\ claims[k] # None /\ claims[k].session = s

\* The last peer_status a routed, open socket got is the present one: no
\* registration, close or replacement forgets to announce itself.
PeerStatusCurrent ==
  \A s \in Sessions : peers[s] # None =>
    \A k \in Sockets : k \in Listeners(peers[s]) /\ conn[k] = "open" =>
      told[k] = PeerStatus(peers[s])

\* A file request waits exactly while it can still be settled: while its
\* timer runs and an answer would find its entry.
WaitingIsPending == pending = {r \in Requests : outcome[r] = "waiting"}

\* An agent that announced a workspace over a live socket is the one that
\* frames for this workspace go to, when nobody else announced it.
AgentReachable ==
  \A k \in Sockets :
    /\ conn[k] = "open" /\ IsRole(k, "agent") /\ wsId[k] # None
    /\ \A j \in Sockets \ {k} :
         Readable(j) /\ claims[j] # None => wsId[j] # wsId[k]
    => ResolveTargetAgent(claims[k].session, wsId[k]) = k

\* Frames for a workspace keep reaching the agent that serves it, whatever
\* other sockets of the session do, unless another live one carries the
\* same workspace before or after the step.
AgentKeepsItsPlace ==
  [][\A k \in Sockets :
       /\ conn[k] = "open" /\ conn'[k] = "open"
       /\ IsRole(k, "agent") /\ wsId[k] # None /\ wsId'[k] = wsId[k]
       /\ ResolveTargetAgent(claims[k].session, wsId[k]) = k
       /\ \A j \in Sockets \ {k} :
            Readable(j) /\ claims[j] # None
            /\ claims[j].session = claims[k].session
            => wsId[k] \notin {wsId[j], wsId'[j]}
       => ResolveTargetAgent(claims[k].session, wsId[k])' = k]_vars

\* A phone keeps its place until it closes, the relay restarts or another
\* phone authenticates: a late close of the phone's previous socket does
\* not unhook the socket that replaced it.
PhoneKeepsItsPlace ==
  [][\A s \in Sessions, k \in Sockets :
       /\ peers[s] # None /\ peers[s].mobile = k
       /\ conn[k] = "open" /\ conn'[k] = "open"
       => /\ peers'[s] # None
          /\ \/ peers'[s].mobile = k
             \/ \E j \in Sockets : claims[j] = None /\ claims'[j] # None
                                   /\ peers'[s].mobile = j]_vars

=============================================================================

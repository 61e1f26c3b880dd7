----------------------------- MODULE RelayStore -----------------------------
(***************************************************************************)
(* The tables of relay/src/store.ts: rows of message_history with the      *)
(* millisecond they were written at, the trim that follows every insert,   *)
(* the workspaces agents announced and their last snapshots, the minute    *)
(* timer that prunes expired sessions and old rows, and the lists a phone  *)
(* is given.                                                               *)
(*                                                                         *)
(* hist[s] holds the rows of session s in rowid order.  SQLite gives a new *)
(* row a rowid above every row that exists, so this is insertion order     *)
(* whatever rows were deleted before.  snaps[s] is in order of timestamp,   *)
(* which agents take from the same clock; no two are equal.                *)
(*                                                                         *)
(* A status_snapshot may name its workspace, and the relay does not check  *)
(* the name (server.ts:438).  Agents never do (relay-client.ts:133): their *)
(* snapshots go to the workspace of their socket, which agent_hello sets.  *)
(***************************************************************************)
EXTENDS Integers, FiniteSets, InsertionMap

CONSTANTS
  Sessions,        \* session ids
  Workspaces,      \* workspace ids
  None,            \* no workspace
  Limit,           \* HISTORY_LIMIT
  Retention,       \* HISTORY_RETENTION_MS
  Ttl,             \* RELAY_SESSION_TTL_MS
  MaxTime,         \* bound: the clock stops here
  MaxAppends       \* bound: messages appended to one session

ASSUME LimitAssumption == Limit \in Nat \ {0}
ASSUME NoneAssumption == None \notin Workspaces
ASSUME TimeAssumption == Retention \in Nat /\ Ttl \in Nat \ {0}
ASSUME BoundAssumption == MaxTime \in Nat /\ MaxAppends \in Nat

VARIABLES
  now,      \* Date.now()
  expires,  \* expires[s]: expires_at of the session's row, -1 without a row
  hist,     \* hist[s]: the rows of message_history
  count,    \* count[s]: messages appended to s so far
  listed,   \* listed[s]: the rows of session_workspaces
  snaps,    \* snaps[s]: the rows of workspace_snapshots, oldest first
  agents    \* agents[s]: ws.workspaceId of the session's agent sockets

tables == <<listed, snaps>>
vars   == <<now, expires, hist, count, tables, agents>>

HasRow(s) == expires[s] # -1

Row == [n : Nat, ts : Nat]

\* ide: does the snapshot describe an editor?
Snapshot == [id : Workspaces, ide : BOOLEAN]

TypeOK ==
  /\ now \in 0 .. MaxTime
  /\ expires \in [Sessions -> {-1} \cup 0 .. MaxTime + Ttl]
  /\ hist \in [Sessions -> Seq(Row)]
  /\ count \in [Sessions -> 0 .. MaxAppends]
  /\ listed \in [Sessions -> SUBSET Workspaces]
  /\ snaps \in [Sessions -> Seq(Snapshot)]
  /\ agents \in [Sessions -> SUBSET Workspaces]

-----------------------------------------------------------------------------
(* The statements on one session's rows.                                   *)

\* ORDER BY ts DESC, rowid DESC: row i comes before row j.
Newer(h, i, j) == h[i].ts > h[j].ts \/ (h[i].ts = h[j].ts /\ i > j)

\* Mutant: the oldest rows are kept.
TrimNewest(h) ==
  Entries(h, {i \in DOMAIN h :
                Cardinality({j \in DOMAIN h : Newer(h, i, j)}) < Limit})

\* DELETE ... LIMIT -1 OFFSET @limit: all but the newest Limit rows go.
Trim(h) ==
  Entries(h, {i \in DOMAIN h :
                Cardinality({j \in DOMAIN h : Newer(h, j, i)}) < Limit})

\* DELETE ... WHERE ts < cutoff.
DropOld(h) == Entries(h, {i \in DOMAIN h : h[i].ts >= now - Retention})

\* ORDER BY ts ASC alone.  SQLite walks idx_message_history_session_ts,
\* which is (session_id, ts DESC), backwards: rows of one millisecond come
\* out in falling rowid order.  The n-th row listed has n - 1 before it.
Before(h, i, j) == h[i].ts < h[j].ts \/ (h[i].ts = h[j].ts /\ i > j)

ListHistory(h) ==
  [n \in DOMAIN h |->
     h[CHOOSE i \in DOMAIN h :
         Cardinality({j \in DOMAIN h : Before(h, j, i)}) = n - 1].n]

-----------------------------------------------------------------------------
Init ==
  /\ now = 0
  /\ expires = [s \in Sessions |-> -1]
  /\ hist = [s \in Sessions |-> <<>>]
  /\ count = [s \in Sessions |-> 0]
  /\ listed = [s \in Sessions |-> {}]
  /\ snaps = [s \in Sessions |-> <<>>]
  /\ agents = [s \in Sessions |-> {}]

\* Session ids are fresh: a session that was pruned does not come back while
\* anything is left of it.
CreateSession(s) ==
  /\ ~HasRow(s)
  /\ count[s] = 0 /\ agents[s] = {}
  /\ expires' = [expires EXCEPT ![s] = now + Ttl]
  /\ UNCHANGED <<now, hist, count, tables, agents>>

\* store.append of a session without a row returns null and writes nothing.
AppendMessage(s) ==
  /\ HasRow(s)
  /\ count[s] < MaxAppends
  /\ count' = [count EXCEPT ![s] = @ + 1]
  /\ hist' = [hist EXCEPT ![s] = Trim(Append(@, [n |-> count[s] + 1, ts |-> now]))]
  /\ UNCHANGED <<now, expires, tables, agents>>

\* agent_hello.  Without a row the insert violates a foreign key: the process
\* ends (WriteForPrunedSession of RelayHub).
UpsertWorkspace(s, w) ==
  /\ HasRow(s)
  /\ listed' = [listed EXCEPT ![s] = @ \cup {w}]
  /\ agents' = [agents EXCEPT ![s] = @ \cup {w}]
  /\ UNCHANGED <<now, expires, hist, count, snaps>>

\* The last socket of w closes, by a restart too, or announces another one.
AgentGone(s, w) ==
  /\ w \in agents[s]
  /\ agents' = [agents EXCEPT ![s] = @ \ {w}]
  /\ UNCHANGED <<now, expires, hist, count, tables>>

\* An agent without an editor says null, which leaves what the row has.
\* Nothing here asks for a row of w in session_workspaces.
UpsertWorkspaceSnapshot(s, w, ide) ==
  /\ HasRow(s)
  /\ LET kept == w \in Keys(snaps[s]) /\ At(snaps[s], w).ide
     IN snaps' = [snaps EXCEPT ![s] =
                    Append(MapDelete(@, w), [id |-> w, ide |-> ide \/ kept])]
  /\ UNCHANGED <<now, expires, hist, count, listed, agents>>

\* status_snapshot, for the workspace of the socket it came by.
StatusSnapshot(s, w, ide) ==
  /\ w \in agents[s]
  /\ UpsertWorkspaceSnapshot(s, w, ide)

\* Mutant: the foreign key of the snapshots does not cascade.
PruneExpiredNotSnapshots ==
  LET gone == {s \in Sessions : expires[s] <= now}
  IN /\ expires' = [s \in Sessions |-> IF s \in gone THEN -1 ELSE expires[s]]
     /\ hist' = [s \in Sessions |-> IF s \in gone THEN <<>>
                                    ELSE Trim(DropOld(hist[s]))]
     /\ listed' = [s \in Sessions |-> IF s \in gone THEN {} ELSE listed[s]]
     /\ UNCHANGED <<now, count, snaps, agents>>

\* DELETE FROM sessions WHERE expires_at <= now, which cascades to the other
\* tables, then pruneHistory over what is left.
PruneExpired ==
  LET gone == {s \in Sessions : expires[s] <= now}
  IN /\ expires' = [s \in Sessions |-> IF s \in gone THEN -1 ELSE expires[s]]
     /\ hist' = [s \in Sessions |-> IF s \in gone THEN <<>>
                                    ELSE Trim(DropOld(hist[s]))]
     /\ listed' = [s \in Sessions |-> IF s \in gone THEN {} ELSE listed[s]]
     /\ snaps' = [s \in Sessions |-> IF s \in gone THEN <<>> ELSE snaps[s]]
     /\ UNCHANGED <<now, count, agents>>

Tick ==
  /\ now < MaxTime
  /\ now' = now + 1
  /\ UNCHANGED <<expires, hist, count, tables, agents>>

Next ==
  \/ \E s \in Sessions : CreateSession(s) \/ AppendMessage(s)
  \/ \E s \in Sessions, w \in Workspaces :
       \/ UpsertWorkspace(s, w)
       \/ AgentGone(s, w)
       \/ \E ide \in BOOLEAN : StatusSnapshot(s, w, ide)
  \/ PruneExpired
  \/ Tick

Spec == Init /\ [][Next]_vars

-----------------------------------------------------------------------------
(* What a phone reads of the tables.                                       *)

\* The workspace whose tree GET .../files without a path answers with; w is
\* None when none is named.
TreeOf(s, w) == IF w = None THEN FirstKey(snaps[s], None)
                ELSE IF w \in Keys(snaps[s]) THEN w ELSE None

\* What a phone is offered while no agent of the session is connected.
ListConnectedWorkspaces(s) == listed[s]

-----------------------------------------------------------------------------
(* What the history promises.                                              *)

numbers == [s \in Sessions |-> [i \in DOMAIN hist[s] |-> hist[s][i].n]]

\* The stored history is the bounded log a returning phone counts on: the
\* inserts, the trims, the retention and the cascade lose only the oldest
\* messages, whatever the order in which they run.
BoundedHistory == INSTANCE BoundedLog
  WITH isOpen <- [s \in Sessions |-> HasRow(s)], log <- numbers, count <- count

RefinesBoundedLog == BoundedHistory!Spec

\* Violated: the list in auth_ok is in the order in which the messages were relayed.
ReplayInOrder ==
  \A s \in Sessions : ListHistory(hist[s]) = numbers[s]

\* The tables keep in step: the phone is offered every workspace whose tree
\* the relay would serve, named or not, and neither serves anything of a
\* session that has ended, whatever agents sent before the minute timer came.
TablesAgree ==
  \A s \in Sessions :
    /\ \A w \in Workspaces \cup {None} :
         TreeOf(s, w) \in ListConnectedWorkspaces(s) \cup {None}
    /\ ~HasRow(s) => ListConnectedWorkspaces(s) = {} /\ ListHistory(hist[s]) = <<>>
=============================================================================

--------------------------- MODULE AdapterManager ---------------------------
(***************************************************************************)
(* The pool of adapters of the agent (agent/src/adapters/manager.ts): the  *)
(* Map of adapters and the active one, as a record, and the methods of the *)
(* class as functions from pool to pool.  The adapters of the CLIs that    *)
(* are installed are registered by the constructor and stay; the adapter   *)
(* of an editor comes and goes with the pipe that registered it.           *)
(***************************************************************************)
EXTENDS InsertionMap

CONSTANTS
  Installed,  \* the CLI adapters whose command the agent finds in its PATH
  Pipe,       \* the pipes an editor adapter may write to
  None        \* JavaScript null

CliIds     == {"codex-cli", "claude-cli"}
EditorId   == "vscode"    \* what every editor window registers as
AdapterIds == CliIds \cup {EditorId}
Adapter    == [id : AdapterIds, pipe : Pipe \cup {None}]
Pool       == [adapters : Seq(Adapter), active : AdapterIds \cup {None}]

ASSUME PoolAssumption ==
  /\ Installed \subseteq CliIds
  /\ None \notin Pipe
  /\ None \notin AdapterIds

\* tryRegister: skipped when the command is not found.
TryRegister(m, id) ==
  IF id \in Installed THEN MapSet(m, [id |-> id, pipe |-> None]) ELSE m

\* The constructor: Codex first, then Claude; the first one there is active.
NewPool ==
  LET found == TryRegister(TryRegister(<<>>, "codex-cli"), "claude-cli")
  IN [adapters |-> found, active |-> FirstKey(found, None)]

\* registerIpcAdapter: the editor takes priority.
RegisterIpcAdapter(pool, pipe) ==
  [adapters |-> MapSet(pool.adapters, [id |-> EditorId, pipe |-> pipe]),
   active   |-> EditorId]

\* Mutant: the active adapter is not chosen again.
UnregisterOnly(pool, id) ==
  [pool EXCEPT !.adapters = MapDelete(@, id)]

\* unregister: by id, whichever pipe the adapter belongs to by now.
Unregister(pool, id) ==
  LET rest == MapDelete(pool.adapters, id)
  IN [adapters |-> rest,
      active   |-> IF pool.active = id THEN FirstKey(rest, None)
                   ELSE pool.active]

\* setActive throws, and changes nothing, for an adapter it does not have.
Known(pool, id) == id \in Keys(pool.adapters)
SetActive(pool, id) == IF Known(pool, id) THEN [pool EXCEPT !.active = id] ELSE pool

\* The adapter send() hands a message to: the one named, else the active one.
Receiver(pool, tool) == IF tool # None THEN tool ELSE pool.active

=============================================================================

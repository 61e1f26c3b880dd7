------------------------------ MODULE PhoneTree ------------------------------
(***************************************************************************)
(* The tree of files on pages/index.vue and pages/code.vue: where it comes *)
(* from (an agent, the snapshots of a relay, the status the phone holds),  *)
(* and the workspace the user is in.                                       *)
(*                                                                         *)
(* A tree is the workspace it is of.  Requests are answered in any order;  *)
(* a page that is left loses its own.                                      *)
(***************************************************************************)
EXTENDS Naturals, Sequences, SequencesExt

CONSTANTS
  Modes,       \* subset of {"local", "relay"}
  Workspaces,  \* workspaces of the session; beside an agent there is one
  MaxOpen,     \* bound: requests under way
  None

Root == "root"  \* the node of the workspace itself, which is no list

VARIABLES
  mode,    \* of the connection
  screen,  \* the page that is open
  active,  \* activeWorkspaceId
  snaps,   \* workspaces the relay has a snapshot of
  cached,  \* agentStatus.fileTree
  tree,    \* fileTree, tree
  asks     \* the workspaces whose tree the page has asked for

vars == <<mode, screen, active, snaps, cached, tree, asks>>

TypeOK ==
  /\ mode \in Modes /\ screen \in {"index", "code"}
  /\ active \in Workspaces /\ snaps \subseteq Workspaces
  /\ cached \in Workspaces \cup {None}
  /\ tree \in Workspaces \cup {None, Root}
  /\ asks \in Seq(Workspaces) /\ Len(asks) <= MaxOpen

Init ==
  /\ mode \in Modes /\ screen \in {"index", "code"}
  /\ active \in Workspaces
  /\ snaps = {} /\ cached = None /\ tree = None
  /\ asks = <<active>>

\* loadFileTree, refreshTree.  Bound: MaxOpen requests count.
Ask(w) == asks' = IF Len(asks) < MaxOpen THEN Append(asks, w) ELSE asks

\* The phone connects, a file of this workspace changes, or the user presses
\* the button of code.vue.
LoadFileTree ==
  /\ Ask(active)
  /\ UNCHANGED <<mode, screen, active, snaps, cached, tree>>

Settled(i) ==
  /\ i \in DOMAIN asks
  /\ asks' = RemoveAt(asks, i)
  /\ UNCHANGED <<mode, screen, active, snaps, cached>>

\* GET .../files of the relay: the tree of the snapshot, or an empty one.
RelayAnswers(i) ==
  /\ mode = "relay" /\ Settled(i)
  /\ tree' = IF asks[i] \in snaps THEN asks[i] ELSE None

\* What the phone has of a status, whichever workspace it is of.
RelayFails(i) ==
  /\ mode = "relay" /\ Settled(i)
  /\ tree' = IF cached = None /\ screen = "index" THEN tree ELSE cached

\* GET /files of the agent: the root.  code.vue takes it for the list.
AgentAnswers(i) ==
  /\ mode = "local" /\ Settled(i)
  /\ tree' = IF screen = "index" THEN asks[i] ELSE Root

AgentFails(i) == mode = "local" /\ Settled(i) /\ UNCHANGED tree

\* applyStatusSnapshot keeps the tree of any workspace; the listener of
\* index.vue lets those of the active one pass.
TakeSnapshot(w) ==
  /\ cached' = w
  /\ tree' = IF screen = "index" /\ w = active THEN w ELSE tree

\* status_snapshot of an agent that connects or changes its adapter.
StatusSnapshot(w) ==
  /\ mode = "relay"
  /\ snaps' = snaps \cup {w}
  /\ TakeSnapshot(w)
  /\ UNCHANGED <<mode, screen, active, asks>>

\* fetchRelayStatus: the snapshot of the active workspace or the first, then
\* the history; its last snapshot may be any.
StatusAnswered(w) ==
  /\ mode = "relay" /\ w \in snaps
  /\ TakeSnapshot(w)
  /\ UNCHANGED <<mode, screen, active, snaps, asks>>

\* peer_status makes a status without a tree.
PeerStatus ==
  /\ mode = "relay"
  /\ cached' = None
  /\ UNCHANGED <<mode, screen, active, snaps, tree, asks>>

\* selectWorkspaceOrSession, and its watchers: code.vue asks for the tree,
\* index.vue does not.
Choose(w) ==
  /\ mode = "relay" /\ w # active
  /\ active' = w
  /\ IF screen = "code" THEN Ask(w) ELSE UNCHANGED asks
  /\ UNCHANGED <<mode, screen, snaps, cached, tree>>

\* Another page: it starts with no tree and asks for one.
Visit(p) ==
  /\ p # screen
  /\ screen' = p /\ tree' = None /\ asks' = <<active>>
  /\ UNCHANGED <<mode, active, snaps, cached>>

Next ==
  \/ LoadFileTree \/ PeerStatus
  \/ \E i \in DOMAIN asks :
       RelayAnswers(i) \/ RelayFails(i) \/ AgentAnswers(i) \/ AgentFails(i)
  \/ \E w \in Workspaces : StatusSnapshot(w) \/ StatusAnswered(w) \/ Choose(w)
  \/ \E p \in {"index", "code"} : Visit(p)

Spec == Init /\ [][Next]_vars

\* Violated: when nothing is under way, the tree on the screen is of the
\* workspace the user is in (README.md:63).
TreeIsOfWorkspace ==
  asks = <<>> => tree \notin Workspaces \ {active}

\* Violated beside an agent: the tree is a list of nodes (code.vue:78), which
\* is all that FileTree can show.
TreeIsAList == tree # Root
=============================================================================

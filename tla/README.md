# DevBridge: a TLA+ model of the relay, the agent, the editor extension and the phone

DevBridge lets a phone follow and steer coding agents that run in editors on a
developer's machine. This directory models the parts of it whose correctness
depends on the order of events: sockets that are replaced before they close,
sessions that expire while requests wait, timers that race answers, processes
that restart.

## 1. Inventory of the system

| part | source | state it keeps | operations | modelled in |
|---|---|---|---|---|
| Relay hub | `relay/src/server.ts`, `index.ts` | `peers` (per session: the phone's socket, the agents by workspace, the active workspace), `pendingAgentRequests`, the claims and workspace of every socket | REST: create session, pair, status, files; WebSocket: auth, agent_hello, relay_file_response, status_snapshot, any other frame (stored and routed), close; prune timer | `RelayHub`, with a phone's file pane in `RelayFiles` |
| Relay store | `relay/src/store.ts` | SQLite tables sessions, message_history, session_workspaces, workspace_snapshots | createSession, pair, append + trim, pruneExpired, pruneHistory, listHistory, upserts | `RelayStore`; sessions in `RelayHub` |
| Relay tokens | `relay/src/auth.ts` | none | sign, verify | a predicate of `RelayHub` |
| Relay client of the agent | `agent/src/relay-client.ts` | `ws`, `session`, `reconnectTimer`, `sessionRotationTimer`, `relay-session.json` | start, ensureSession, refreshSessionState, rotateSession, connect, reconnect, handleMessage | `AgentRelayClient`; its messages in `EditorTerminals`, `AgentAdapters` |
| Agent server | `agent/src/server.ts`, `index.ts` | sets of local WebSocket clients and mirrors | auth, routing to adapters and to the extension, endpoints of the services, broadcast | `EditorTerminals`, `AgentAdapters`, `AgentServices` |
| IPC server | `agent/src/ipc.ts` | pipes of the editor windows, the adapter each registered, `ideState`, `previewUrl` | accept, register, ide_snapshot, ide_event, cli_report, write, close | `EditorLink`, `PhonePage`, `AgentServices` |
| Adapters | `agent/src/adapters/*` | the Map of adapters, the active one; per CLI the pty and its buffer; the queue of Codex | register, unregister, setActive, send, spawn, output, exit | `AdapterManager`, `AgentAdapters` |
| CLI registry | `agent/src/cliRegistry.ts` | the Map of CLIs, `agent.config.json` | load, detectAll, applyExtensionReport, setDefault, addCustom, removeCustom, persist | `CliRegistry`, `AgentServices` |
| Push service | `agent/src/push.ts`, `nuxt-ui/composables/usePushNotifications.ts` | subscriptions, `push-subscriptions.json`; what the browser holds and the page shows | subscribe, unsubscribe, send and prune, load, refresh | `PushService`, `AgentServices` |
| Message queue | `agent/src/queue.ts` | a history nothing reads | emit | the address in `AgentAdapters` |
| Extension IPC client | `extension/src/ipcClient.ts`, `extension.ts` | socket, retry timer, `shouldConnect` | connect, retry, close, disconnect, toggle | `EditorLink` |
| Extension terminals | `extension/src/chatParticipant.ts`, `extension.ts` | VS Code's terminals, timers between a text and its Enter | inject_message, start, create, focus, kill | `EditorTerminals` |
| Extension reporters | `extension/src/ideReporter.ts`, ... | the last state of the editor | snapshot, events | `EditorLink`, `PhonePage` |
| Phone UI connection | `nuxt-ui/composables/useDevBridge.ts` | module globals `ws`, `retryTimer`, `suppressReconnect`, token, mode, workspaces, localStorage | connect, disconnect, send, pair, switchRelaySession, clearStoredSession, message handling | `DevBridge`; workspaces in `PhoneChat`, status in `PhonePage` |
| Phone UI pages | `nuxt-ui/pages/*.vue`, `useWorkspaceChatHistory.ts` | messages, histories in localStorage, the target, launches, the tree and the file on the screen, the list of CLIs | send, receive, save, load, choose, launch, select, refresh | `PhoneChat`, `PhonePage`, `PhoneFiles`, `PhoneTree`, `RelayFiles`, `AgentServices` |
| Agent pairing; files, projects, workspace identity, mDNS | `agent/src/auth.ts`, `files.ts`, `projects.ts`, `workspace.ts`, `transport/mdns.ts` | nothing that interleaves | read, sign, announce | not modelled |

How they interact. The agent asks the relay over REST for a session, shows its
pairing code as a QR code, and keeps a WebSocket to the relay. The phone pairs
over REST and keeps a WebSocket too, to the relay or to the agent itself. The
relay joins both in one `SessionPeers` record, stores every frame in the history,
and passes it on. Inside the agent, frames of the phone go to the active adapter,
which is the pty of a CLI or the pipe of an editor window, or as commands to
every window; the extension types them into a terminal. Output comes back through
the queue to the local clients and to the relay client. The editor describes
itself with snapshots; the phone asks for a status over HTTP and hears frames
over its socket, and neither is ordered against the other.

What is hard. All processes are single-threaded event loops, so a handler is
atomic up to its next `await`; the difficulty is the order of handlers. Sockets
and pipes close long after their successors opened (nothing pings). Handlers read
fields that may have been replaced since the handler was registered. Timers and
HTTP answers race. Flags of a process outlive it. Files are rewritten whole, and a
restart finds the last one that was written. Watchers of the phone's pages run on
lists that two answers bring in any order.

What makes each part correct:

- Relay hub: the routing table names live sockets only, under the workspace they
  announced; an agent that is connected is reachable; both ends know the present
  peer status; no record leaks; every file request ends.
- Relay store: the history is the newest messages in order, bounded, and lost
  oldest first.
- Relay client: whatever fails, something is under way that brings the agent
  back; one connection; the session on disk is the one in use; no exception ends
  the agent.
- Editor link: the active adapter is registered, the editor's adapter has a live
  pipe and a description, a window that stays is connected again.
- Terminals: a CLI is started once, messages arrive in order, once, and entered.
- Adapters: a message is typed once and in order, through exits and questions.
- CLI registry and push: the default a user chose and the subscription a phone
  made survive detections, reports, sends, failed writes and restarts.
- Phone: an unexpected close leads to a retry, a wanted one does not; one socket
  is current; what the chat shows is saved, under its workspace; the target is one
  of those offered; signs of waiting end.

`PROJECT.json` lists every part with its status, and under `hazards` the lines
where the code is exposed.

## 2. Modules

| module | models | kind |
|---|---|---|
| `InsertionMap`, `InsertionMapProofs` | a JavaScript Map as the sequence of its entries | operators, lemmas |
| `RelayHub` (`MCRelayHub`, `RelayHubProofs`) | relay/src/server.ts, with the session rows of store.ts | component |
| `BoundedLog` | what the history promises | abstract specification |
| `RelayStore` (`RelayStoreProofs`) | the tables of relay/src/store.ts; implements `BoundedLog` | component |
| `AgentRelayClient` (`MCAgentRelayClient`, `AgentRelayClientProofs`) | agent/src/relay-client.ts | component |
| `AdapterManager` | agent/src/adapters/manager.ts as functions on a pool | operators |
| `EditorLink` (`MCEditorLink`, `EditorProofs`) | ipcClient.ts of the windows, ipc.ts of the agent, and the manager | composition |
| `EditorTerminals` (`MCEditorTerminals`, `EditorProofs`) | the path of a message from the phone into a terminal | composition |
| `AgentAdapters` (`AgentAdaptersProofs`) | manager.ts, pty-adapter.ts, codex-cli.ts, claude-cli.ts and the process behind them | composition |
| `CliRegistry` | agent/src/cliRegistry.ts | component |
| `PushService` | agent/src/push.ts and usePushNotifications.ts | component |
| `AgentServices` (`AgentServicesProofs`) | both, with their endpoints, broadcasts, restarts and the settings page | composition |
| `DevBridge` (`MCDevBridge`, `PhoneProofs`) | the connection in nuxt-ui/composables/useDevBridge.ts | component |
| `PhoneChat` (`MCPhoneChat`, `PhoneProofs`) | the chat of index.vue and chat.vue, workspaces, histories | component |
| `PhonePage` (`PhoneProofs`) | targets, terminals, status answers and launches of the pages, with the agent and editor they come from | composition |
| `PhoneFiles` | the file on the screen of index.vue and code.vue | component |
| `RelayFiles` | a file between an agent and the screen: `RelayHub` and `PhoneFiles` | composition |
| `PhoneTree` | the tree of files on both pages, and where it comes from | component |

### RelayHub

One action per handler: `CreateSession`, `Pair`, `RequestFile` (REST),
`Accept`, `Authenticate`, `AgentHello`, `FileResponse`, `FrameRefused`,
`SocketClosed` (WebSocket), `RequestTimeout`, `PruneExpired`, `Expire` (time),
`Restart` and `WriteForPrunedSession` (the process; the second is the foreign
key exception that ends it). Helpers of the code keep their names:
`GetSessionPeers`, `ResolveTargetAgent`, `Broadcast`, `Registered`
(registerAgentWorkspace) and `Departed` (the close handler).

The JavaScript `Map` of agents is a sequence of entries in insertion order,
because `Array.from(map.keys()).at(-1)` depends on it. A socket is used once: a
client that reconnects takes a fresh one, which is how a late close of the old
one can happen. `told[k]` is the last peer_status a socket was sent. Envelopes,
snapshots and names are left out: routing of an envelope changes no state but
the history, which `RelayStore` models, and its destination is
`ResolveTargetAgent`, which `AgentReachable` is about.

The relay verifies a token without looking at the session's expiry, and tokens
outlive rows; `Authenticate` says so. Two live sockets of a session may announce
the same workspace; the property `AgentKeepsItsPlace` covers the steps in which
they do not, and `relay_stale_close` shows what happens when they do.

### RelayStore and BoundedLog

`hist[s]` is the rows of a session in rowid order with their millisecond. `Trim`
is the DELETE with OFFSET, `DropOld` the retention, `ListHistory` the SELECT a
phone's auth_ok is filled from. `ORDER BY ts ASC` leaves the order of equal
timestamps to SQLite, which walks the index `(session_id, ts DESC)` backwards:
ties come out in falling rowid order, and `ListHistory` says that.
The clock only moves forward: a wall clock that is set back is not modelled.
`BoundedLog` is the promise; the refinement maps a row to its number.

`listed[s]` are the workspaces agents announced in a session, `snaps[s]` their last
snapshots, a Map in order of timestamp: an upsert moves its workspace to the end.
A snapshot keeps one bit of its content, `ide`, which shows how a null leaves what
the former row had. The foreign keys cascade, so that `PruneExpired` empties all
tables of a session at once; `TablesAgree` is about what a phone can see of them
however late the minute timer is. `agents[s]` are the workspaces of the sockets of
agents, and `StatusSnapshot` is the upsert for one of them: the relay does not check the
workspace a snapshot names, but agents name none, and so it is that of the socket. That
the workspace is listed is not asked for; `TablesAgree` says that it is.

### AgentRelayClient

A method is cut at its awaits. `task[t]` is a method that waits for an HTTP
answer ("restore", "create", "refresh") and the step that receives the answer
runs to the next await. `caught` says whether an exception of that method is
caught by its caller. The functions on a link (`Connect`, `Dropped`, `Adopted`,
`ScheduleReconnect`, `ScheduleSessionRetry`, `OnDisk`) are the methods of the
class between awaits. `Ghost` is the object that spreading a null session
produces: it passes every `if (this.session)` and has no URL, no token and no id, so that
a refresh of it asks for a session nobody has and rotates. A closing socket still hands
on what arrived before (`Hears`). The relay appears as the set of its session rows.

### DevBridge

The module globals of the composable are the variables; `Globals` is the record
of them, and a function of the module (`Disconnect`, `Cleared`, `Adopted`, `Dial`,
`Schedule`) maps the globals it finds to those it leaves, so that a handler is the
composition of the calls it makes. `ws.close()` leaves a socket "closing" until
its close event, which may come when the globals belong to another connection.
Handlers read the global socket, except for the token, which `connect()`
captured (`given`). `call` holds what waits in an await: the probing of addresses
and the session list of a switch. `stray` counts pending timers `retryTimer` no
longer names. The servers are sets: the tokens that verify (`valid`) and whether
they can be reached (`up`); the agent refuses with auth_fail and code 1008, the
relay with 4401 or 4404 and no frame. `Acts` names what the user does in a run, so
that a property the code keeps only for a user who does less can be checked for
that user. The mode (`local` or `relay`) is a function of the token, because the
two are always assigned together; pages are served over http, where no mode is
forced. Left out: the messages, the workspace choice, the growth of the delay
between retries.

### InsertionMap and AdapterManager

The agents of a session and the adapters of an agent are JavaScript Maps of which
the code takes the first or the last key, so a function would lose too much.
`InsertionMap` gives the operations on the sequence of entries; its lemmas hold
for entries of any kind and serve the proofs of the hub and of the editor link.
`AdapterManager` writes the methods of the class as functions from a pool (Map and
active id) to a pool; the modules that compose it hold the pool in a variable.

### EditorLink

A pipe has two ends in two processes: `near` and `far`, and between them `wire`,
the lines that were written and not read. `Connect`, `Disconnect`, `RetryTimer`,
`Connected` and `Closed` are the methods and handlers of `IpcClient`, with
`Dropped` for what its close and error handlers do to the fields; `Accept`, `Read`
and `PipeClosed` are those of `IpcServer`. `Crash` and `Restart` are the agent's
process. A retry that was set while another one was pending is counted in `stray`:
it fires, and no field names it. Reconnection is what makes windows interesting:
a window may hold the closing end of one pipe and the opening end of another, and
the agent sees their events in any order.

### EditorTerminals

`clients` are the sockets the agent knows, `down[c]` the lines it wrote to one of them. A
line goes to one socket (`RelayMessage`: the adapter's) or to all of them
(`DirectMessage`, `Commands`). A window may have several sockets: `IpcClient.connect()`
and its retry timer dial whatever is open or under way, which is `EditorLink`'s subject;
here sockets open and close in any order (`OpenSocket`, `CloseSocket`), and one that
closes loses the lines that had not arrived. Every socket has its data handler and all
handlers of a window reach the same listeners, so the terminals, timers and keys are those
of the window, and each timer and key carries the socket its message came by (`via`).

`ReadLine` is the handler of the extension for the line at the head: `ToTerminal`,
`ToChat`, `Open`, `Focus`, and `ReadKill`. `Ensure` finds or makes a
terminal by its name, `SetTimer` sets the timer after which the text is typed (at
once, or after 1200 ms in a terminal that boots), and `Fire` types a text or its
Enter. Time is kept as the order it gives: a timer set earlier with a delay no
longer fires first (`MayFire`). A terminal that was disposed of is listed until
its close event, and its methods throw.

Assumed: a line arrives whole. `IpcClient` keeps one buffer for all its sockets and does
not empty it at a close, so that halves of lines may be put together; a line spoiled like
this does not parse and is dropped.

### AgentAdapters

The process of a CLI is external: it boots, may ask whether to trust the
directory, shows its prompt, prints and exits. `Write` writes to it and starts
one when there is none; a line that is read as an answer to the question is
consumed by it. What it prints arrives in chunks, and the adapter of Codex looks for its
question and its prompt in each chunk alone: `Show` may print the words in two chunks
(`"part"`), which the adapter passes over and `cut` remembers. `SendCodex`, `AnswerTrust` and `Flush` are `CodexCliAdapter`, whose
`ready` and `trusted` outlive the process; `SendPty` is the other one. The history
variables `given`, `typed` and `early` say what was handed over, written, and written
before a prompt. `Ended` is the end of the agent's process, after which it starts
with nothing in memory; `RelayAction` without an adapter causes it.

### CliRegistry, PushService, AgentServices

`clis` is the Map of entries and `config` the file. A detection holds the entries
whose command has not ended (`scans`), so that reports, additions, removals and
other detections fall between them. `choice` is the default a user chose and that
was written, and is forgotten when the file is. Two of the four built-in entries
are kept, the third and fourth have the same code.

In `PushService` an endpoint is a number that is used once, because the push service
of the browser never accepts one again; `live` is what it accepts. `sends` are the
fan-outs under way with the answers that are missing, `Prune` what the last answer
does. `kept` is what the agent saved for a phone that has not taken it back.

`AgentServices` puts both into one process with one restart: either file may be
broken by the crash (it is then read as absent). The list the settings page shows
is abstracted to whether it is the one the registry has (`cliList`); answers and
`clis_update` frames carry the same bit, and lose it when the list changes.

### PhoneChat, PhonePage, PhoneFiles, RelayFiles, PhoneTree

An action is a task of the browser together with the Vue watchers that run when it
ends. In `PhoneChat` a list of messages is the set of them; order, repetition and
the limits of 50 and 150 are left out. `ghost` is the list a page that was left
still holds in its typing timer, and `haunted` says that it has written. `Typing` is
setAiTyping(true) with its branch for a wait that is over (`GivesUp`), which adds a message
and so schedules a save. In
`PhonePage` two requests for the status may be answered in either order, and over
the relay the terminals reach the phone only with a status_snapshot.

`PhoneFiles` is the pane of the file: a tap or a `file_changed` frame starts a
request (`OpenFile`, `FileChanged`), and its answer is shown whichever file is
selected when it comes. The two pages differ in what they do with a failure. `RelayFiles` puts the pane on top of
`RelayHub`: its `ReadFile` is `OpenFile` together with `RequestFile` of the hub,
`Heard` is the answer of the hub reaching the pane, and every other step of the hub
goes on beside it, its restart included. `fileOf` forgets the requests of a page that
was left. `PhoneTree` has the three sources of a tree (GET /files of an agent, the
snapshot a relay keeps, the status the phone holds); a tree is the workspace it is
of, and `Root` is the node that is no list. It has no passing run: what it has to say is in section 4.

## 3. Runs

| run | instance | question |
|---|---|---|
| `relay_table` | 2 sessions, 3 sockets, 2 workspaces | is the routing table sound, the active workspace connected, the status current; does a record leak; who loses a place to whom? |
| `relay_files` | 1 session, 2 sockets, 2 requests for a file, both pages; restarts; fairness | does a request wait only while something can settle it, does the spinner of the phone end? |
| `store_log` | 1 session, 2 workspaces, limit 2, 4 messages, 5 instants | does the history implement `BoundedLog`, do the tables agree? |
| `client_session` | 4 sockets, 2 waiting methods, 2 sessions, 1 restart | does the client always recover, are timer and file right? |
| `bridge_reconnect` | an agent's and a relay's token, 2 sockets; page loads, servers that go away, tokens that expire; fairness | does the phone connect again, over one socket, and stop after a refusal? |
| `bridge_users` | an agent's token and two of the relay, 2 sockets, 1 waiting function; everything a user does | can a socket be let in with another session's token; do banner and status agree? |
| `editor_link` | 2 windows, one with 2 pipes; crashes, toggles; fairness | is the editor's adapter live and described, does a window return? |
| `editor_terminals` | 1 window with 2 sockets that come and go, 3 messages or commands, 2 terminals; fairness | is a CLI launched once, are messages in order, entered, and handled once per socket? |
| `phone_chat` | 2 workspaces, 2 messages; fairness | is what is shown saved, under its workspace; does the choice stay; does typing end? |
| `phone_page` | both modes, a shell and a CLI terminal | is the chosen target offered, does a launch end? |
| `agent_adapters` | 2 CLIs and an editor, 4 messages, 2 processes of each CLI; fairness | are messages typed once and in order, and what waits typed? |
| `agent_services` | 2 built-in entries and 1 custom, 2 detections, 1 phone, 2 subscriptions, 4 requests | does the default stay, and a live subscription? |

`TypeOK` is an invariant of every module too; to spend the runs on the other
properties it is listed in `relay_table` only. It can be added to the
`INVARIANTS` of any of the configurations.

Why the bounds are enough. Every hazard of the routing table needs a socket, its
replacement and a bystander or a phone: three sockets, and two workspaces for the
rename and for the choice of the active one; the second session shows that
records are kept apart. The trim is exercised when there are more messages than
`Limit`, and the retention when the clock passes `Retention` before `Ttl`.
Overlapping rotations need two waiting methods and two sessions, and a third and
fourth socket for the connections they strand. For the phone a replaced socket and
its successor are two sockets, and since a closed socket is used again there is no
limit on the number of its connections; `MaxStray` cuts behaviours with more than
one forgotten timer, and `Calls` those with more than one function in an await.
The hazards of the editor link are a pipe that closes after its successor opened,
in the same window (two pipes of `w1`) and in another (`w2`); pipes are used again.
Messages in a terminal overtake each other in threes: one that waits for the boot,
one that follows it, one more; two terminals let one be closed and made again. Two
sockets bring every line twice. What three messages do in two sockets is out of TLC's
reach in five minutes, so `BoundedSpec` (`MCEditorTerminals`) keeps the third message
and the second terminal for states in which nothing came by the second socket: a
message in each of two sockets, and one more message or command between the copies, are
checked, and so are three messages of one socket. The order of messages speaks of each
socket alone, and the theorems of section 5 have no such bound.
Two workspaces are one to be in and one to switch to; two messages are one that is
saved and one that is pending. Four messages let one be flushed, two wait, and one
follow; two processes of a CLI are one that died and its successor, whose flags
are the former's. Two subscriptions are one that died and one that was made during
the send that will prune the first, two detections overlap, and four requests are
an addition, a choice, a removal and a report or a send. Nothing in the actions of
these modules compares more of a kind.

Fairness is assumed in six runs. In `relay_files` the timer of a pending
request fires (setTimeout in a running event loop), and the promise of a fetch is
settled once the relay answered or went away; nothing is assumed of agents.
In `bridge_reconnect` timers fire, onMounted runs after a page load, a probe and a
connection attempt end one way or the other, a server that can be reached
answers an auth frame, and a closing socket closes: all of this a browser does by
itself. In `editor_link` a process reads what was written to it, handles the events
of its pipes and fires its timers; in `editor_terminals` (`BoundedSpec`, after
`FairTerminalsSpec`) the extension reads its sockets and its timers fire; in
`phone_chat` the timers of the typing indicator fire; in `agent_adapters` the event
loop delivers what a pty printed, and a process that
starts asks or shows its prompt. Nothing is assumed of users, of how long a server
or a CLI stays up, or of the network: `Recovers` and `WindowReturns` say what follows
from a server that stays up.

Deadlock is not checked where a run is bounded by construction: the store's
clock and message counters end, the client's sockets are used up, and the
messages, requests and processes of the last runs are counted.

## 4. Where the code does not keep its word

Each row is a property that TLC refutes. A configuration is in this directory, or
is that of a run with the property in the place of those it lists; the counterexample
is found within a minute. The quotation of what the repository says instead, and
the line, are under `findings` in `PROJECT.json`.

| property | module to run | configuration | what happens |
|---|---|---|---|
| `AgentReachable` | `MCRelayHub` | `relay_stale_close` | the close handler removes an agent by workspace id, without asking whether the entry is still this socket (server.ts:490): after a reconnect that overtakes the close nothing reaches the agent until it announces itself again |
| `ReplayInOrder` | `RelayStore` | `store_replay_same_ms` | messages of one millisecond are replayed in reverse order (store.ts:329) |
| `OneConnection` | `MCAgentRelayClient` | `client_crash` | the close event of a socket that a rotation replaced schedules a reconnect: the agent holds two connections (relay-client.ts:359) |
| `KeepsRunning` | `MCAgentRelayClient` | `client_crash` | a status answer that arrives during a rotation leaves a session without URL; the connect that follows throws where nothing catches it, and Node ends the process (relay-client.ts:114) |
| `NeverStranded` | `MCDevBridge` | `bridge_scan` | `disconnect()` without a socket leaves `suppressReconnect` set: after a QR scan the first unexpected close is not retried (useDevBridge.ts:492) |
| `RefusalRests` | `MCDevBridge` | `bridge_refused` | the close handler knows code 1008 only; the relay's 4401 and 4404 are retried for ever (useDevBridge.ts:481) |
| `WindowIsReachable` | `MCEditorLink` | `editor_link` | the close of one window's pipe unregisters the adapter of another (ipc.ts:115) |
| `TypedOncePerWindow` | `MCEditorTerminals` | `editor_terminals` | a window that holds two sockets reads every line twice and types every message twice (ipc.ts:290, ipcClient.ts:29, 52, 75) |
| `LinesAreWhole` | `MCEditorTerminals` | `editor_terminals` | two messages within the 30 ms before an Enter share a line (chatParticipant.ts:154) |
| `LauncherHasTerminal` | `MCEditorTerminals` | `editor_terminals` | over the relay a message for a CLI carries its target alone and ends in the chat channel (manager.ts:38) |
| `HistoryIsNeverMixed` | `MCPhoneChat` | `phone_history` | the typing timer of a page that was left saves its messages under the workspace that is active by then (index.vue:1392) |
| `NothingForgotten` | `MCPhoneChat` | `phone_history` | leaving or switching within 180 ms loses the last message (index.vue:1590) |
| `TargetIsKept` | `PhonePage` | `phone_target` | the stored target is replaced before the first status lists any terminal (index.vue:1737) |
| `StoredIsKept` | `PhonePage` | `phone_target` | chat.vue, opened before a status, stores `__new__` over the target (chat.vue:384) |
| `TargetIsOffered` | `PhonePage` | `phone_bash` | with a terminal named bash the page falls back to a target it does not offer (index.vue:1740) |
| `ListFollows` | `PhonePage` | `phone_list` | the list of terminals may stay wrong (useDevBridge.ts:621) |
| `StatusSettles` | `PhonePage` | `phone_list` | the history that a status answer replays makes the page ask for a status (useDevBridge.ts:575) |
| `ContentIsOfSelection` | `RelayFiles` | `relay_files` | the content of one file is shown under the name of another (index.vue:1133) |
| `TreeIsOfWorkspace` | `PhoneTree` | `phone_tree` | index.vue keeps the tree of the workspace that was left, and both pages take a late or a cached one of another (index.vue:1747) |
| `TreeIsAList` | `PhoneTree` | `phone_tree`, with `Modes = {"local"}` | code.vue takes the root node of an agent for the list of files (code.vue:134) |
| `NothingTypedEarly` | `AgentAdapters` | `adapters_early` | `ready` outlives the process: a restarted Codex is written to while it boots or asks (codex-cli.ts:12) |
| `PendingIsTypedWhileAlive` | `AgentAdapters` | `adapters_trust` | `trustAnswered` does too: a question asked again is never answered (codex-cli.ts:31) |
| `PreviewIsLatest` | `AgentAdapters` | `adapters_preview` | the status names the first address a CLI printed, the frames the last (pty-adapter.ts:66) |
| `PageFollows` | `AgentServices` | `agent_services` | the settings page keeps the list that came last, which may be the older one (settings.vue:453) |
| `ChangesAreAnnounced` | `AgentServices` | `agent_services` | three methods change the list without a call of `onChange` (cliRegistry.ts:159) |
| `ReportWins` | `AgentServices` | `agent_services` | a local detection overwrites the report of the editor (cliRegistry.ts:99) |
| `ShownIsRegistered` | `AgentServices` | `agent_services` | a phone shows itself subscribed without a subscription at the agent (usePushNotifications.ts:69) |

Two faults of the phone's connection are within the model but have no
configuration of their own. With `switch` in `Acts`, `AuthIsOffered` fails: the close
event of the socket the switch gave up sets the global `ws` to null
(useDevBridge.ts:475), and the open handler of its successor sends no auth frame. With
`pair`, `NeverStranded` fails: `authError` of a former token (line 483) stops the retry
for the new one. This is why `bridge_reconnect` is run for a user who only loads the
page.

## 5. Proofs

Proved for every value of the constants, from the named assumptions of the modules
alone (null is no socket, pipe, message or workspace; bounds are numbers; a page may
have one request under way):

| theorem | module | statement |
|---|---|---|
| `TypeCorrect` | `RelayHubProofs` | `Spec => []TypeOK` |
| `RoutingTableCorrect` | `RelayHubProofs` | `Spec => []RoutingTableSound` |
| `ActiveCorrect` | `RelayHubProofs` | `Spec => []ActiveIsConnected` |
| `NoPeerEntryLeaks` | `RelayHubProofs` | `Spec => []NoPeerEntryLeak` |
| `WaitingIsAlwaysPending` | `RelayHubProofs` | `Spec => []WaitingIsPending` |
| `PhoneKeepsPlace`, `AgentKeepsPlace` | `RelayHubProofs` | `Spec => PhoneKeepsItsPlace` and `AgentKeepsItsPlace`, action properties |
| `StatusAlwaysCurrent` | `RelayHubProofs` | `Spec => []PeerStatusCurrent` |
| `FilesImplementHub`, `FilesImplementPane` | `RelayHubProofs` | `FilesSpec => Spec` and `FilesSpec => Pane!Spec`, refinements: the composition implements both of its parts |
| `SpinnerAlwaysTimed` | `RelayHubProofs` | `FilesSpec => []SpinnerIsTimed` |
| `StoreTypeCorrect` | `RelayStoreProofs` | `Spec => []TypeOK` |
| `TablesAlwaysAgree` | `RelayStoreProofs` | `Spec => []TablesAgree` |
| `ReplayOnlyTiesTurn` | `RelayStoreProofs` | the replay is in the order of appending but for ties |
| `StoreRefinesBoundedLog` | `RelayStoreProofs` | `Spec => RefinesBoundedLog`, the refinement |
| `ClientTypeCorrect` | `AgentRelayClientProofs` | `Spec => []TypeOK` |
| `ClientNeverStranded` | `AgentRelayClientProofs` | `Spec => []NeverStranded` |
| `SessionAlwaysTimed` | `AgentRelayClientProofs` | `Spec => []SessionIsTimed` |
| `FileAlwaysNamesSession` | `AgentRelayClientProofs` | `Spec => []FileNamesSession` |
| `LinkTypeCorrect` | `EditorProofs` | `Spec => []TypeOK` |
| `ActiveAlwaysRegistered` | `EditorProofs` | `Spec => []ActiveIsRegistered` |
| `EditorAdapterAlwaysLive` | `EditorProofs` | `Spec => []EditorAdapterIsLive` |
| `EditorAlwaysDescribed` | `EditorProofs` | `Spec => []EditorIsDescribed` |
| `LinkNeverStranded` | `EditorProofs` | `Spec => []NeverStranded` |
| `TerminalsTypeCorrect` | `EditorProofs` | `TerminalsSpec => []TerminalsTypeOK` |
| `LaunchAlwaysFirst` | `EditorProofs` | `TerminalsSpec => []LaunchComesFirst` |
| `OnlyTheFirstEverWaits` | `EditorProofs` | `TerminalsSpec => []OnlyTheFirstWaits` |
| `AlwaysOncePerSocket` | `EditorProofs` | `TerminalsSpec => []OncePerSocket` |
| `OneSocketTypesOnce` | `EditorProofs` | `TerminalsSpec => []TypedOncePerWindow`, if every window has one socket at most |
| `MessagesAlwaysInOrder` | `AgentAdaptersProofs` | `Spec => []MessagesInOrder` |
| `TypedInOrder` | `AgentAdaptersProofs` | what is typed into a CLI rises with the order it was sent in |
| `LiveAlwaysSubscribed` | `AgentServicesProofs` | `Spec => []LiveStaysSubscribed` |
| `OnlyDeadArePruned` | `AgentServicesProofs` | what a send is about to drop is dead |
| `ChoiceAlwaysKept` | `AgentServicesProofs` | `Spec => []ChoiceIsKept` |
| `ServicesTypeCorrect` | `AgentServicesProofs` | `Spec => []TypeOK` |
| `BridgeTypeCorrect` | `PhoneProofs` | `Spec => []TypeOK` |
| `AlwaysTheRightToken` | `PhoneProofs` | `Spec => []RightToken` |
| `AlwaysWelcomeOrNot` | `PhoneProofs` | `Spec => []ConnectedIsWelcome` |
| `ReloadsKeepOneSocket`, `ReloadsAreOffered`, `ReloadsRest`, `ReloadsNeverStrand` | `PhoneProofs` | for a user who only loads the page: `OneSocket`, `AuthIsOffered`, `AgentRefusalRests`, `NeverStranded` |
| `ScreenAlwaysSaved` | `PhoneProofs` | `ChatSpec => []ScreenIsSaved` |
| `HistoryStaysHome` | `PhoneProofs` | `ChatSpec => []HistoryIsOfItsWorkspace` |
| `ChoiceStays` | `PhoneProofs` | `ChatSpec => ChosenWorkspaceStays`, an action property |
| `PageTypeCorrect` | `PhoneProofs` | `PageSpec => []PageTypeOK` |
| `ChosenAlwaysOffered` | `PhoneProofs` | `PageSpec => []ChosenIsOffered` |
| `LaunchingAlwaysTimed` | `PhoneProofs` | `PageSpec => []LaunchingIsTimed` |

The lemmas about Maps come first (`InsertionMapProofs`): `MapSet` and `MapDelete`
return a Map with one entry per key and keep every other entry, by the theorems on
sequences. Then, per component:

*Relay hub.* `TypeOK` is inductive. The soundness of the table is not: a close
finds the entry under the *workspace* of the socket, so that the entry it removes
and the entry it owns are related only through the name each routed socket last
announced. The inductive invariant `TablesSound` therefore says of every entry
that it is live, of the right session and role, and carries the name its socket
announced, that no name occurs twice, and that the active name is in the map
exactly while the map is not empty. `NoPeerEntryLeak` is inductive only beside it: a
record survives a close when its phone's slot or an agent's entry is left, and
that these belong to live sockets of this very session is what `TablesSound` says.
`WaitingIsPending` is inductive beside `TypeOK`, and `PhoneKeepsItsPlace` is one step
from `TypeOK`. `PeerStatusCurrent` and `AgentKeepsItsPlace` need `TablesSound` again:
whoever is told of a change is whoever is in the table afterwards, and a close or a
hello under another name takes no entry but the socket's own.

*File of a phone.* A step of `RelayFiles` is one of the hub, or leaves the hub alone; so
what is proved of the hub, `WaitingIsPending` among it, holds of the composition. It is
also a step of the pane, because a promise is only ever for a file. `FilesInv` relates
the two: the pane counts, for each file, exactly the promises of the open page, each of
a request that was sent, and the spinner turns only while a count is not zero. With
`WaitingIsPending` it gives `SpinnerIsTimed` (`RelayFiles`), the safety half of
`SpinnerEnds`, which no run repeats.

*Relay store.* The invariant says that each history is in the order of its timestamps
and not ahead of the clock, that snapshots are of listed workspaces, and that a
session without a row has no rows elsewhere, which is what the cascade leaves. What
the replay makes of ties, and that it turns nothing else round (`ReplayOnlyTiesTurn`), is
then a fact about `ListHistory`, which picks rows by rank. The refinement maps a step to appending and dropping from the front,
or to a stutter; dropping twice (by age, then by count) is dropping once.

*Relay client.* `NeverStranded` is not inductive by itself: a retry of `connect` is
something only while there is a session. `Inv` adds `Sound`: a session in use has its
rotation timer, the file names it or nothing, and a retry that will connect has a
session to connect with. The methods share functions on the same record of globals,
so each of those is shown once to keep `Inv`, with the methods that wait beside it.

*Editor link.* A close unregisters by id, so nothing about the editor's adapter is
inductive by itself. `LinkInv` adds to the types that a registered pipe is open at the
agent's end, that the editor's entry, if there is one, has a registered pipe, and that the
agent has a description whenever a registration is the next line of a pipe, because
the snapshot went before it; the last part is what makes `EditorIsDescribed` hold when
a registration is read.
`NeverStranded` needs only the types: each handler of a window leaves a connection
under way, a close to come or a retry.

*Terminals.* None of the three invariants is inductive: what may be typed depends on the
timers, these on the lines in the sockets, and these on what was sent. `TerminalsInv` says
of each window what its terminals and timers are (`WindowSound`), and of each socket where
its messages are (`SocketSound`). `PipeSound` and `Behind`: messages rise along a socket, and
what came by it is older than what it has yet to bring, so that a line brings a
message that is nowhere; a close that loses the end of the lines leaves this true.
`TerminalsSound`: a terminal that was not made yet has no
keys, which is why a command comes first. `TimersSound` and `Turn`: timers without a
delay are in the order of their messages and behind what was typed; a timer that waits
for a boot is of the earliest message of its terminal, and while it waits the others
were typed in order. `Once`: a message is in one place. All of these are said of one
socket, in whose eyes the timer of another is no more than that of an Enter (`Kind`). They
are facts about values, not about steps, so each thing that can happen to them is one lemma:
a message waits
(`WaitSound`), is lost or shown (`ElsewhereSound`), its timer goes (`DropSound`), its
text is typed (`TypeSound`), another key is typed (`SameTextsSound`), a timer of another
socket is set (`BesideSound`). A handler
combines two or three of them, for its own socket and for the others of the window.
`MayFire` is needed in one place only: a timer without a
delay fires before those set after it. With one socket in a window all its texts came by
that socket, and `Once` gives `TypedOncePerWindow` (`OneSocketTypesOnce`).

*Adapters.* `OrderInv` says that messages given are those typed followed by those that
wait, and that nothing waits once the prompt was seen, without which a message sent
then would overtake them. Each call of `Write` is a concatenation, and the cases are
its associativity and unit.

*Push.* `PushInv` says that every endpoint anywhere was made before, so that a new
one is in no list of dead ones; that dead endpoints of a send are not among the live;
and that what was kept is in the list and in the file, without which a restart would
lose it.

*CLI registry.* `RegistryInv` says that no id occurs twice in the list or in the file,
that exactly the entries the user added are custom, and that the file holds the choice
twice over: in the field `load()` reads first, and in the custom entries, of which the
chosen one and no other is marked. Without the second part a load could bring back an
older default beside the chosen one.

*Connection of the phone.* What holds whatever the user does is small: a socket
carries the token it was made for, an open current socket was offered it, and a
connection shows no banner of a refusal. What holds of one socket, of the offer and of
the rest after a refusal holds only for a user who loads the page and does nothing
else; `bridge_scan` and `bridge_users` show what scanning, pairing and switching break.
For that user `Alone` says that at most one function waits or one socket is not closed,
never both and neither beside a retry timer, that all of them have the token of
now, and that `suppressReconnect` and the banner are left set only by a refusal.

*Chat.* `ChatInv` says that the active workspace is the stored one, so that a page load
or a status leaves it; that what agents said belongs to a workspace; that the settings
show no message; and, while no page that was left has written, that the screen holds
messages of the active key as the histories hold those of theirs.

*Page.* Every watcher ends in `Settle`, and what it leaves is on offer: that is one
lemma. `PageInv` says beside it that a frame names what its type says, and that a CLI is
listed only where there is one.

Model-checked only: everything about liveness, which TLAPS does not do: `SpinnerEnds`,
`EveryTextEntered` and the other properties with `~>` or `<>`.

## 6. Plan and what is not modelled

Done: the modules above, and a proof of every safety invariant and action property
their runs check. Next: `RelayLink`, hub and relay clients composed over channels, with
an abstract link that both implement. The hub and the client are each checked against
the other as an environment now.

Not modelled, and why:

- signing and checking of tokens, pairing codes of the agent: libraries without
  state that interleaves; the hub says which tokens verify;
- reads of files, projects and the workspace's identity, mDNS: I/O;
- rendering, quick replies, the activity feed and network tests of the pages,
  the mirror view, the patterns that find questions in output: formatting or
  display of what the modelled state says;
- delivery of terminal output over the relay: the agent drops what it cannot send
  and no document promises otherwise, so there is no property to state;
- wall clocks that are set back;
- halves of lines: in the one buffer of `IpcClient` those of two sockets, or of a socket
  that closed and its successor, may meet (ipcClient.ts:53); every line of `EditorLink` and
  `EditorTerminals` arrives whole.

----------------------------- MODULE EditorLink -----------------------------
(***************************************************************************)
(* The link between the editor windows and the agent: the IpcClient of     *)
(* each window (extension/src/ipcClient.ts) with the commands that use it  *)
(* (extension.ts), the IpcServer of the agent (agent/src/ipc.ts) and the   *)
(* adapters that the server registers for its pipes.                       *)
(*                                                                         *)
(* The ends of a pipe live in two processes, each with its own events: a   *)
(* window connects before the agent accepts, what it wrote is read after   *)
(* it destroyed its end, and the agent learns of a close when it comes to  *)
(* it.  The ends that one window gives up and takes up are events of       *)
(* different sockets, which the agent sees in any order.  Deactivation and *)
(* reload of a window are `Toggle` twice: deactivate() disconnects and     *)
(* activate() connects.                                                    *)
(***************************************************************************)
EXTENDS AdapterManager

CONSTANTS
  Windows,    \* editor windows with the extension
  MaxStray    \* bound: pending retries that reconnectTimer no longer names

ASSUME LinkAssumption ==
  /\ MaxStray \in Nat
  /\ Pipe \subseteq Windows \X Nat

Client == [should : BOOLEAN, connected : BOOLEAN, socket : Pipe \cup {None},
           timer : BOOLEAN, stray : 0 .. MaxStray]

VARIABLES
  near,     \* near[p]: the window's end of pipe p
  far,      \* far[p]: the agent's end
  wire,     \* wire[p]: lines the window wrote and the agent has not read
  reg,      \* the pipes whose registeredAdapterId is set
  win,      \* win[w]: the fields of the window's IpcClient
  pool,     \* the AdapterManager
  ide,      \* has the agent an ideState?
  running   \* is the agent's process there?

client == <<near, win>>
server == <<far, reg, pool, ide, running>>
vars   == <<near, far, wire, reg, win, pool, ide, running>>

Owner(p) == p[1]
Own(w)   == {p \in Pipe : Owner(p) = w}

TypeOK ==
  /\ near \in [Pipe -> {"free", "dialing", "open", "destroyed"}]
  /\ far \in [Pipe -> {"none", "backlog", "open"}]
  /\ wire \in [Pipe -> Seq({"snapshot", "register"})]
  /\ reg \subseteq Pipe
  /\ win \in [Windows -> Client]
  /\ pool \in Pool
  /\ ide \in BOOLEAN
  /\ running \in BOOLEAN

Init ==
  /\ near = [p \in Pipe |-> "free"]
  /\ far = [p \in Pipe |-> "none"]
  /\ wire = [p \in Pipe |-> <<>>]
  /\ reg = {}
  /\ win = [w \in Windows |-> [should |-> FALSE, connected |-> FALSE,
                               socket |-> None, timer |-> FALSE, stray |-> 0]]
  /\ pool = NewPool
  /\ ide = FALSE
  /\ running = TRUE

-----------------------------------------------------------------------------
(* The window.                                                             *)

\* A pipe can be taken once both ends have forgotten the former connection.
Free(p) == near[p] = "free" /\ far[p] = "none" /\ wire[p] = <<>>

\* net.createConnection
Dial(w) == \E p \in Own(w) : Free(p) /\ near' = [near EXCEPT ![p] = "dialing"]

\* connect(): always dials, whatever is under way.
Connect(w) ==
  /\ Dial(w)
  /\ win' = [win EXCEPT ![w].should = TRUE]
  /\ UNCHANGED <<wire, server>>

\* disconnect(): only the current socket is destroyed, only the last timer
\* is cleared.
Disconnect(w) ==
  /\ win' = [win EXCEPT ![w] = [@ EXCEPT !.should = FALSE, !.connected = FALSE,
                                         !.socket = None, !.timer = FALSE]]
  /\ near' = IF win[w].socket = None THEN near
             ELSE [near EXCEPT ![win[w].socket] = "destroyed"]
  /\ UNCHANGED <<wire, server>>

\* The command devbridge.toggleBridge.
Toggle(w) == IF win[w].connected THEN Disconnect(w) ELSE Connect(w)

\* A retry fires: _tryConnect gives up when the client was switched off.
Retry(w) ==
  /\ IF win[w].should THEN Dial(w) ELSE UNCHANGED near
  /\ UNCHANGED <<wire, server>>

RetryTimer(w) ==
  /\ win[w].timer
  /\ win' = [win EXCEPT ![w].timer = FALSE]
  /\ Retry(w)

StrayTimer(w) ==
  /\ win[w].stray > 0
  /\ win' = [win EXCEPT ![w].stray = @ - 1]
  /\ Retry(w)

\* Mutant: the registration is written first.
GreetingRegisters == <<"register", "snapshot">>

\* Mutant: only a first connection registers.
GreetingDescribes == <<"snapshot">>

\* The listeners of 'connected' run before the registration is written.
Greeting == <<"snapshot", "register">>

\* The 'connect' event.  The kernel has queued the connection for accept().
Connected(p) ==
  /\ near[p] = "dialing"
  /\ running
  /\ near' = [near EXCEPT ![p] = "open"]
  /\ win' = [win EXCEPT ![Owner(p)].connected = TRUE, ![Owner(p)].socket = p]
  /\ far' = [far EXCEPT ![p] = "backlog"]
  /\ wire' = [wire EXCEPT ![p] = Greeting]
  /\ UNCHANGED <<reg, pool, ide, running>>

\* Mutant: only a connection that was there is tried again.
DroppedOnce(c) ==
  [c EXCEPT !.connected = FALSE, !.socket = None,
            !.timer = c.should /\ c.connected]

\* What the 'close' handler makes of the client, whichever socket closed: the
\* retry that was pending goes on unnamed.  Bound: MaxStray of them count.
Dropped(c) ==
  [c EXCEPT !.connected = FALSE, !.socket = None,
            !.timer = c.should,
            !.stray = IF c.should /\ c.timer /\ @ < MaxStray THEN @ + 1 ELSE @]

\* The 'close' event: a connection refused, reset or destroyed.
Closed(p) ==
  /\ \/ near[p] = "dialing" /\ ~running
     \/ near[p] = "open" /\ far[p] = "none"
     \/ near[p] = "destroyed"
  /\ near' = [near EXCEPT ![p] = "free"]
  /\ win' = [win EXCEPT ![Owner(p)] = Dropped(@)]
  /\ UNCHANGED <<wire, server>>

\* The editor, a terminal or the workspace changed: sendSnapshot().  Bound:
\* one such line is under way at a time.
Report(w) ==
  /\ win[w].connected
  /\ wire[win[w].socket] = <<>>
  /\ far[win[w].socket] # "none"
  /\ wire' = [wire EXCEPT ![win[w].socket] = <<"snapshot">>]
  /\ UNCHANGED <<near, win, server>>

-----------------------------------------------------------------------------
(* The agent.                                                              *)

\* handleClient
Accept(p) ==
  /\ running
  /\ far[p] = "backlog"
  /\ far' = [far EXCEPT ![p] = "open"]
  /\ UNCHANGED <<client, wire, reg, pool, ide, running>>

\* handleMessage: register
Register(p) ==
  /\ Head(wire[p]) = "register"
  /\ reg' = reg \cup {p}
  /\ pool' = RegisterIpcAdapter(pool, p)
  /\ UNCHANGED ide

\* handleMessage: ide_snapshot
Snapshot(p) ==
  /\ Head(wire[p]) = "snapshot"
  /\ ide' = TRUE
  /\ UNCHANGED <<reg, pool>>

\* One line of socket.on('data').
Read(p) ==
  /\ far[p] = "open"
  /\ wire[p] # <<>>
  /\ Register(p) \/ Snapshot(p)
  /\ wire' = [wire EXCEPT ![p] = Tail(@)]
  /\ UNCHANGED <<client, far, running>>

\* Mutant: the adapter of a pipe that failed stays.
PipeForgotten(p) ==
  /\ far[p] = "open"
  /\ wire[p] = <<>>
  /\ near[p] \in {"free", "destroyed"}
  /\ far' = [far EXCEPT ![p] = "none"]
  /\ reg' = reg \ {p}
  /\ UNCHANGED <<client, wire, pool, ide, running>>

\* socket.on('close'), with or without 'error' before it.
PipeClosed(p) ==
  /\ far[p] = "open"
  /\ wire[p] = <<>>
  /\ near[p] \in {"free", "destroyed"}
  /\ far' = [far EXCEPT ![p] = "none"]
  /\ reg' = reg \ {p}
  /\ pool' = IF p \in reg THEN Unregister(pool, EditorId) ELSE pool
  /\ UNCHANGED <<client, wire, ide, running>>

\* A phone switches the adapter: adapter_toggle.
Toggled(id) ==
  /\ running
  /\ Known(pool, id)
  /\ pool' = SetActive(pool, id)
  /\ UNCHANGED <<client, wire, far, reg, ide, running>>

\* The agent ends.  The kernel closes its end of every pipe.
Crash ==
  /\ running
  /\ running' = FALSE
  /\ far' = [p \in Pipe |-> "none"]
  /\ wire' = [p \in Pipe |-> <<>>]
  /\ reg' = {}
  /\ UNCHANGED <<client, pool, ide>>

\* The container's restart policy starts it again.
Restart ==
  /\ ~running
  /\ running' = TRUE
  /\ pool' = NewPool
  /\ ide' = FALSE
  /\ UNCHANGED <<client, wire, far, reg>>

-----------------------------------------------------------------------------
Next ==
  \/ \E w \in Windows : Toggle(w) \/ RetryTimer(w) \/ StrayTimer(w) \/ Report(w)
  \/ \E p \in Pipe : Connected(p) \/ Closed(p) \/ Accept(p) \/ Read(p)
                     \/ PipeClosed(p)
  \/ \E id \in AdapterIds : Toggled(id)
  \/ Crash
  \/ Restart

Spec == Init /\ [][Next]_vars

\* Timers fire, sockets report how they ended, a process in its event loop
\* comes to what waits for it, and the restart policy is kept.
Fairness ==
  /\ \A w \in Windows : WF_vars(RetryTimer(w)) /\ WF_vars(StrayTimer(w))
  /\ \A p \in Pipe : /\ WF_vars(Connected(p)) /\ WF_vars(Closed(p))
                     /\ WF_vars(Accept(p)) /\ WF_vars(Read(p))
                     /\ WF_vars(PipeClosed(p))
  /\ WF_vars(Restart)

FairSpec == Spec /\ Fairness

-----------------------------------------------------------------------------
(* Properties.                                                             *)

\* There is an active adapter exactly while there is one at all, and it is
\* one of them: unregister (manager.ts:91) keeps this when the active editor
\* goes away, whatever order the pipes of several windows close in.
ActiveIsRegistered ==
  IF pool.adapters = <<>> THEN pool.active = None ELSE Known(pool, pool.active)

\* The adapter of the editor writes to a pipe the agent still has open and
\* that registered it (ipc.ts:127): no message of a phone is handed to a pipe
\* whose close was seen, whichever windows close, reconnect or replace it.
EditorAdapterIsLive ==
  running => \A i \in DOMAIN pool.adapters :
               pool.adapters[i].id = EditorId =>
                 /\ pool.adapters[i].pipe \in reg
                 /\ far[pool.adapters[i].pipe] = "open"

\* While the editor's adapter is there, the agent can tell a phone what the
\* editor shows: the snapshot of a connection (ideReporter.ts:27) is written
\* before its registration (ipcClient.ts:47-49), also after a restart.
EditorIsDescribed == running /\ Known(pool, EditorId) => ide

\* A client that is switched on and not connected has a connection under way,
\* one whose close is to come, or a retry pending (ipcClient.ts:72-76): no
\* order of toggles, late closes and retries leaves a window disconnected for
\* ever.
NeverStranded ==
  \A w \in Windows :
    win[w].should /\ ~win[w].connected =>
      \/ win[w].timer \/ win[w].stray > 0
      \/ \E p \in Own(w) : near[p] \in {"dialing", "destroyed"}

\* Once the agent stays up and nobody toggles, every window that is switched
\* on is registered again (check.md: the extension loops until it finds the
\* socket of the agent).
WindowReturns ==
  \A w \in Windows :
    <>[](running /\ win[w].should) => <>[](\E p \in Own(w) : p \in reg)

\* Violated: a window whose pipe is registered can be reached.  The close of
\* another pipe unregisters by id (ipc.ts:115).
WindowIsReachable == running /\ reg # {} => Known(pool, EditorId)

=============================================================================

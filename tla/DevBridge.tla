------------------------------ MODULE DevBridge ------------------------------
(***************************************************************************)
(* The phone's connection (nuxt-ui/composables/useDevBridge.ts): module    *)
(* globals hold the current socket, the token, one retry timer and the     *)
(* flag suppressReconnect, which tells the close handler that the close    *)
(* was wanted.                                                             *)
(*                                                                         *)
(* A browser closes a socket asynchronously: ws.close() returns at once    *)
(* and the close event comes later, when the globals may belong to another *)
(* connection.  Handlers read the globals, except for the token of the     *)
(* first frame, which connect() captured.  connect() waits for the probing *)
(* of addresses when no base URL is known, and a session switch waits for  *)
(* the list of sessions.                                                   *)
(*                                                                         *)
(* A socket that has closed fires no more events and stands for a new one  *)
(* the next time it is used.                                               *)
(***************************************************************************)
EXTENDS Naturals

CONSTANTS
  Tokens,    \* tokens the phone may be given
  RelayTokens, \* those of them that are for the relay; others are the agent's
  Sockets,   \* WebSocket objects alive at one time
  Calls,     \* bound: functions that wait in an await at one time
  MaxStray,  \* bound: pending timers that retryTimer does not name
  Acts,      \* what the user does
  None

ASSUME NoneAssumption == None \notin Tokens /\ None \notin Sockets
ASSUME TokenAssumption == RelayTokens \subseteq Tokens
ASSUME BoundAssumption == MaxStray \in Nat
ASSUME ActsAssumption == Acts \subseteq {"reload", "pair", "scan", "clear", "switch"}

VARIABLES
  token,     \* token.value
  stored,    \* localStorage vb:token
  ws,        \* the global socket
  sock,      \* sock[k]: readyState; "closing" until the close event
  at,        \* at[k]: the server that k was made for
  given,     \* given[k]: the token that connect() captured for k
  offered,   \* offered[k]: the token of the first frame sent over k
  denied,    \* denied[k]: k was closed with code 1008
  timer,     \* retryTimer names a timer that is pending
  stray,     \* pending timers that retryTimer names no more
  suppress,  \* suppressReconnect
  status,    \* status.value
  authError, \* authError.value is set
  base,      \* whose address _baseUrl is
  call,      \* call[c]: what an asynchronous function waits for
  valid,     \* the tokens that verify at the server
  refused,   \* the tokens the server has refused since the page was loaded
  up         \* the server can be reached

ui   == <<token, stored, ws, sock, at, given, offered, denied, timer, stray,
          suppress, status, authError, base>>
vars == <<ui, call, valid, refused, up>>

\* mode.value, which is set together with the token.
Mode(t) == IF t \in RelayTokens THEN "relay" ELSE "local"

Idle == [does |-> "nothing", with |-> None]

TypeOK ==
  /\ token \in Tokens \cup {None} /\ stored \in Tokens \cup {None}
  /\ ws \in Sockets \cup {None}
  /\ sock \in [Sockets -> {"closed", "connecting", "open", "closing"}]
  /\ at \in [Sockets -> {"local", "relay", None}]
  /\ given \in [Sockets -> Tokens \cup {None}]
  /\ offered \in [Sockets -> Tokens \cup {None}]
  /\ denied \in [Sockets -> BOOLEAN]
  /\ timer \in BOOLEAN /\ stray \in 0 .. MaxStray
  /\ suppress \in BOOLEAN
  /\ status \in {"disconnected", "connecting", "connected"}
  /\ authError \in BOOLEAN /\ base \in {"local", "relay", None}
  /\ call \in [Calls -> [does : {"nothing", "probe", "switch"},
                         with : Tokens \cup {None}]]
  /\ valid \subseteq Tokens /\ refused \subseteq Tokens
  /\ up \in BOOLEAN

-----------------------------------------------------------------------------
(* The globals as a record: a function of the module maps the globals it   *)
(* finds to those it leaves.                                               *)

Globals == [token |-> token, stored |-> stored, ws |-> ws, sock |-> sock,
            at |-> at, given |-> given, offered |-> offered, denied |-> denied,
            timer |-> timer, stray |-> stray, suppress |-> suppress,
            status |-> status, authError |-> authError, base |-> base]

Becomes(g) ==
  /\ g.stray <= MaxStray
  /\ token' = g.token /\ stored' = g.stored /\ ws' = g.ws /\ sock' = g.sock
  /\ at' = g.at /\ given' = g.given /\ offered' = g.offered /\ denied' = g.denied
  /\ timer' = g.timer /\ stray' = g.stray /\ suppress' = g.suppress
  /\ status' = g.status /\ authError' = g.authError /\ base' = g.base

\* ws.close(): the close event is still to come.
Close(g, k) ==
  IF k # None /\ g.sock[k] \in {"connecting", "open"}
  THEN [g EXCEPT !.sock[k] = "closing"] ELSE g

\* retryTimer = setTimeout(connect): a timer it named stays pending.
Schedule(g) ==
  [g EXCEPT !.stray = IF g.timer THEN @ + 1 ELSE @, !.timer = TRUE]

Disconnect(g) ==
  [Close(g, g.ws) EXCEPT !.timer = FALSE, !.suppress = TRUE, !.ws = None,
                         !.status = "disconnected"]

\* Mutant: the new socket is not made the global one.
DialUnnamed(g, k, t, url) ==
  [g EXCEPT !.status = "connecting", !.base = url, !.at[k] = url,
            !.sock[k] = "connecting", !.given[k] = t, !.offered[k] = None,
            !.denied[k] = FALSE]

\* connect() once the base URL is known: socket k with token t.
Dial(g, k, t, url) ==
  [g EXCEPT !.status = "connecting", !.base = url, !.at[k] = url, !.ws = k,
            !.sock[k] = "connecting", !.given[k] = t, !.offered[k] = None,
            !.denied[k] = FALSE]

\* clearStoredSession().
Cleared(g) ==
  [Disconnect(g) EXCEPT !.token = None, !.stored = None, !.base = None]

\* A token is taken over from a pairing, a QR code or a switch.
Adopted(g, t) == [g EXCEPT !.token = t, !.stored = t, !.base = Mode(t)]

\* connect() from the globals g: the relay's URL is known, the address of
\* an agent has to be probed for when _baseUrl is not set.
Connect(g, k, c) ==
  IF g.token = None
  THEN Becomes([g EXCEPT !.status = "disconnected"]) /\ UNCHANGED call
  ELSE IF g.base # None \/ Mode(g.token) = "relay"
  THEN /\ Becomes(Dial(g, k, g.token, IF g.base = None THEN "relay" ELSE g.base))
       /\ UNCHANGED call
  ELSE /\ Becomes([g EXCEPT !.status = "connecting"])
       /\ call' = [call EXCEPT ![c] = [does |-> "probe", with |-> g.token]]

Fresh(k) == sock[k] = "closed"
Free(c)  == call[c] = Idle

-----------------------------------------------------------------------------
Init ==
  /\ token = None
  /\ stored \in Tokens \cup {None}
  /\ ws = None
  /\ sock = [k \in Sockets |-> "closed"]
  /\ at = [k \in Sockets |-> None]
  /\ given = [k \in Sockets |-> None]
  /\ offered = [k \in Sockets |-> None]
  /\ denied = [k \in Sockets |-> FALSE]
  /\ timer = FALSE /\ stray = 0
  /\ suppress = FALSE
  /\ status = "disconnected"
  /\ authError = FALSE /\ base = None
  /\ call = [c \in Calls |-> Idle]
  /\ valid = Tokens /\ refused = {}
  /\ up = TRUE

-----------------------------------------------------------------------------
(* The user.                                                               *)

\* onMounted: the stored token is taken up once.
Mount(k, c) ==
  /\ "reload" \in Acts
  /\ token = None /\ status = "disconnected" /\ stored # None
  /\ Fresh(k) /\ Free(c)
  /\ Connect([Globals EXCEPT !.token = stored], k, c)
  /\ UNCHANGED <<valid, refused, up>>

\* The page is loaded again: only localStorage survives.
Reload ==
  /\ "reload" \in Acts
  /\ Becomes([Globals EXCEPT
       !.token = None, !.ws = None, !.timer = FALSE, !.stray = 0,
       !.suppress = FALSE, !.status = "disconnected", !.authError = FALSE,
       !.base = None, !.sock = [k \in Sockets |-> "closed"]])
  /\ call' = [c \in Calls |-> Idle]
  /\ refused' = {}
  /\ UNCHANGED <<valid, up>>

\* The answer of pairAt() or pairRelay().
Pair(t, k, c) ==
  /\ "pair" \in Acts
  /\ t \in valid
  /\ Fresh(k) /\ Free(c)
  /\ Connect(Adopted(Globals, t), k, c)
  /\ UNCHANGED <<valid, refused, up>>

\* pairFromRoute() with an agent's token in the QR code: clear, then connect.
Scan(t, k, c) ==
  /\ "scan" \in Acts
  /\ t \in valid \ RelayTokens
  /\ Fresh(k) /\ Free(c)
  /\ Connect(Adopted(Cleared(Globals), t), k, c)
  /\ UNCHANGED <<valid, refused, up>>

Clear ==
  /\ "clear" \in Acts
  /\ Becomes(Cleared(Globals))
  /\ UNCHANGED <<call, valid, refused, up>>

\* switchRelaySession() up to its await.
Switch(t, c) ==
  /\ "switch" \in Acts
  /\ {t, token} \subseteq RelayTokens /\ t # token
  /\ Free(c)
  /\ Becomes([Adopted(Disconnect(Globals), t) EXCEPT !.authError = FALSE])
  /\ call' = [call EXCEPT ![c] = [does |-> "switch", with |-> None]]
  /\ UNCHANGED <<valid, refused, up>>

-----------------------------------------------------------------------------
(* What the asynchronous functions wait for.                               *)

\* fetchRelaySessions() ends, whatever it found.
SwitchGoesOn(c, k) ==
  /\ call[c].does = "switch"
  /\ Fresh(k)
  /\ Becomes(IF token = None THEN [Globals EXCEPT !.status = "disconnected"]
             ELSE Dial(Globals, k, token, base))
  /\ call' = [call EXCEPT ![c] = Idle]
  /\ UNCHANGED <<valid, refused, up>>

\* detectBestUrl() found the agent.
ProbeOk(c, k) ==
  /\ call[c].does = "probe"
  /\ up
  /\ Fresh(k)
  /\ Becomes(Dial(Globals, k, call[c].with, "local"))
  /\ call' = [call EXCEPT ![c] = Idle]
  /\ UNCHANGED <<valid, refused, up>>

ProbeFailed(c) ==
  /\ call[c].does = "probe"
  /\ ~up
  /\ Becomes(Schedule([Globals EXCEPT !.status = "disconnected"]))
  /\ call' = [call EXCEPT ![c] = Idle]
  /\ UNCHANGED <<valid, refused, up>>

RetryTimer(k, c) ==
  /\ timer
  /\ Fresh(k) /\ Free(c)
  /\ Connect([Globals EXCEPT !.timer = FALSE], k, c)
  /\ UNCHANGED <<valid, refused, up>>

\* Mutant: a timer fires that was cleared or has fired.
StrayTimerAgain(k, c) ==
  /\ Fresh(k) /\ Free(c)
  /\ Connect([Globals EXCEPT !.stray = @ - 1], k, c)
  /\ UNCHANGED <<valid, refused, up>>

StrayTimer(k, c) ==
  /\ stray > 0
  /\ Fresh(k) /\ Free(c)
  /\ Connect([Globals EXCEPT !.stray = @ - 1], k, c)
  /\ UNCHANGED <<valid, refused, up>>

-----------------------------------------------------------------------------
(* The handlers of socket k.                                               *)

\* Mutant: the frame is kept until the global socket is open.
OpenBuffered(k) ==
  /\ sock[k] = "connecting"
  /\ up
  /\ LET g == [Globals EXCEPT !.sock[k] = "open"]
     IN Becomes(IF ws # None /\ offered[ws] = None
                THEN [g EXCEPT !.offered[ws] = given[k]] ELSE g)
  /\ UNCHANGED <<call, valid, refused, up>>

\* onopen: the token goes to the global socket.  There may be none, and
\* send() on one that is connecting throws, which ends the handler.
Open(k) ==
  /\ sock[k] = "connecting"
  /\ up
  /\ LET g == [Globals EXCEPT !.sock[k] = "open"]
     IN Becomes(IF ws # None /\ g.sock[ws] = "open" /\ offered[ws] = None
                THEN [g EXCEPT !.offered[ws] = given[k]] ELSE g)
  /\ UNCHANGED <<call, valid, refused, up>>

\* Mutant: a socket that cannot connect schedules a retry of its own.
ConnectFailedRetries(k) ==
  /\ sock[k] = "connecting"
  /\ ~up
  /\ Becomes(Schedule(Close([Globals EXCEPT !.sock[k] = "closing"], ws)))
  /\ UNCHANGED <<call, valid, refused, up>>

\* onerror: the global socket is closed; k's own close event follows.
ConnectFailed(k) ==
  /\ sock[k] = "connecting"
  /\ ~up
  /\ Becomes(Close([Globals EXCEPT !.sock[k] = "closing"], ws))
  /\ UNCHANGED <<call, valid, refused, up>>

Verifies(k) == offered[k] \in valid /\ at[k] = Mode(offered[k])

\* Mutant: an earlier error is not taken back.
AuthOkKeepsError(k) ==
  /\ sock[k] = "open" /\ Verifies(k)
  /\ status # "connected"
  /\ Becomes([Globals EXCEPT !.status = "connected"])
  /\ UNCHANGED <<call, valid, refused, up>>

AuthOk(k) ==
  /\ sock[k] = "open" /\ Verifies(k)
  /\ status # "connected"
  /\ Becomes([Globals EXCEPT !.status = "connected", !.authError = FALSE])
  /\ UNCHANGED <<call, valid, refused, up>>

\* The agent sends auth_fail and closes with 1008; the relay closes with
\* 4401 or 4404 and says nothing.
Refused(k) ==
  /\ sock[k] = "open" /\ offered[k] # None /\ ~Verifies(k)
  /\ refused' = refused \cup {offered[k]}
  /\ Becomes(IF at[k] = "relay"
             THEN [Globals EXCEPT !.sock[k] = "closing"]
             ELSE Disconnect([Globals EXCEPT !.sock[k] = "closing",
                                !.denied[k] = TRUE, !.authError = TRUE]))
  /\ UNCHANGED <<call, valid, up>>

\* Mutant: the close handler retries whatever was wanted or refused.
CloseEventRetries(k) ==
  /\ sock[k] = "closing"
  /\ LET g == [Globals EXCEPT !.sock[k] = "closed", !.status = "disconnected",
                              !.ws = None]
     IN Becomes(Schedule(g))
  /\ UNCHANGED <<call, valid, refused, up>>

\* Mutant: a close with authError unset is not retried either.
CloseEventQuiet(k) ==
  /\ sock[k] = "closing"
  /\ LET g == [Globals EXCEPT !.sock[k] = "closed", !.status = "disconnected",
                              !.ws = None]
     IN Becomes(IF suppress THEN [g EXCEPT !.suppress = FALSE] ELSE g)
  /\ UNCHANGED <<call, valid, refused, up>>

\* onclose, which clears the globals whoever they belong to.
CloseEvent(k) ==
  /\ sock[k] = "closing"
  /\ LET g == [Globals EXCEPT !.sock[k] = "closed", !.status = "disconnected",
                              !.ws = None]
         e == [g EXCEPT !.authError = authError \/ denied[k]]
     IN Becomes(IF suppress THEN [g EXCEPT !.suppress = FALSE]
                ELSE IF e.authError THEN e ELSE Schedule(e))
  /\ UNCHANGED <<call, valid, refused, up>>

-----------------------------------------------------------------------------
(* The server.                                                             *)

\* It stops: every connection breaks.
ServerDown ==
  /\ up
  /\ up' = FALSE
  /\ sock' = [k \in Sockets |-> IF sock[k] = "open" THEN "closing" ELSE sock[k]]
  /\ UNCHANGED <<token, stored, ws, at, given, offered, denied, timer, stray,
                 suppress, status, authError, base, call, valid, refused>>

ServerUp ==
  /\ ~up
  /\ up' = TRUE
  /\ UNCHANGED <<ui, call, valid, refused>>

Invalidate(t) ==
  /\ t \in valid
  /\ valid' = valid \ {t}
  /\ UNCHANGED <<ui, call, refused, up>>

Next ==
  \/ \E k \in Sockets, c \in Calls :
       \/ Mount(k, c) \/ RetryTimer(k, c) \/ StrayTimer(k, c)
       \/ ProbeOk(c, k) \/ SwitchGoesOn(c, k)
       \/ \E t \in Tokens : Pair(t, k, c) \/ Scan(t, k, c)
  \/ \E t \in Tokens, c \in Calls : Switch(t, c)
  \/ Reload
  \/ Clear
  \/ \E c \in Calls : ProbeFailed(c)
  \/ \E k \in Sockets :
       \/ Open(k) \/ ConnectFailed(k) \/ AuthOk(k) \/ Refused(k)
       \/ CloseEvent(k)
  \/ ServerDown
  \/ ServerUp
  \/ \E t \in Tokens : Invalidate(t)

Spec == Init /\ [][Next]_vars

\* Timers fire, a connection attempt ends, probes and servers answer and a
\* closing socket closes.  Users and servers are free.
Fairness ==
  /\ WF_vars(\E k \in Sockets, c \in Calls : Mount(k, c))
  /\ WF_vars(\E k \in Sockets, c \in Calls : RetryTimer(k, c))
  /\ WF_vars(\E k \in Sockets, c \in Calls : ProbeOk(c, k))
  /\ WF_vars(\E c \in Calls : ProbeFailed(c))
  /\ \A k \in Sockets : /\ WF_vars(Open(k) \/ ConnectFailed(k))
                        /\ WF_vars(AuthOk(k) \/ Refused(k))
                        /\ WF_vars(CloseEvent(k))

FairSpec == Spec /\ Fairness

-----------------------------------------------------------------------------
\* Something that is bound to lead to a connection or to a refusal.
UnderWay ==
  \/ timer \/ stray > 0
  \/ \E c \in Calls : ~Free(c)
  \/ \E k \in Sockets : \/ sock[k] \in {"connecting", "closing"}
                        \/ sock[k] = "open" /\ offered[k] # None

\* A phone that has a token nobody refused is connected or on its way: no
\* close, failed probe, wanted disconnect or former refusal leaves it
\* waiting for nothing.
NeverStranded == token # None /\ token \notin refused => UnderWay

\* A socket that is open has been sent its auth frame: none waits for ever
\* to be let in.
AuthIsOffered == \A k \in Sockets : sock[k] = "open" => offered[k] # None

\* Retries never run beside each other: one socket connects or is open.
OneSocket ==
  \A j, k \in Sockets :
    sock[j] \in {"connecting", "open"} /\ sock[k] \in {"connecting", "open"}
    => j = k

Resting == ~timer /\ stray = 0 /\ \A c \in Calls : Free(c)

\* A token the agent has refused is not offered again by a retry.
AgentRefusalRests == token \in refused \ RelayTokens => Resting

\* A token any server has refused is not offered again by a retry.
RefusalRests == token \in refused => Resting

\* A socket is let in with the token it was made for: a late open of a
\* socket that was replaced never authenticates its successor.
RightToken ==
  \A k \in Sockets : sock[k] = "open" => offered[k] \in {None, given[k]}

\* The banner that asks for another QR code and the status "connected" do
\* not appear together, whatever sockets answer late.
ConnectedIsWelcome == status = "connected" => ~authError

\* While the server stays up and the token good, the phone connects, and
\* comes back after every close.
Recovers ==
  <>[](up /\ token \in valid) => []<>(status = "connected")
=============================================================================

----------------------------- MODULE PhoneProofs -----------------------------
(***************************************************************************)
(* Theorems about the phone: its connection (DevBridge), the chat that its *)
(* pages share (PhoneChat) and the target of a message (PhonePage).  They  *)
(* share no variable: each is proved of its own specification.             *)
(***************************************************************************)
EXTENDS DevBridge, PhoneChat, PhonePage, SequenceTheorems, TLAPS

-----------------------------------------------------------------------------
(* The connection.  The functions of DevBridge map globals to globals, so  *)
(* each is shown to keep what is claimed of the globals; an action then    *)
(* keeps it because it becomes what one of them leaves.                    *)

\* The values the globals take.
State ==
  [token : Tokens \cup {None}, stored : Tokens \cup {None},
   ws : Sockets \cup {None},
   sock : [Sockets -> {"closed", "connecting", "open", "closing"}],
   at : [Sockets -> {"local", "relay", None}],
   given : [Sockets -> Tokens \cup {None}],
   offered : [Sockets -> Tokens \cup {None}],
   denied : [Sockets -> BOOLEAN],
   timer : BOOLEAN, stray : Nat, suppress : BOOLEAN,
   status : {"disconnected", "connecting", "connected"},
   authError : BOOLEAN, base : {"local", "relay", None}]

\* Globals are typed when the variables are.
LEMMA GlobalsTyped == TypeOK => Globals \in State
  BY BoundAssumption DEF TypeOK, Globals, State

\* A socket is offered its own token, and the global socket has been offered
\* it when it is open.
SocketsSound(g) ==
  /\ \A k \in Sockets : g.offered[k] \in {None, g.given[k]}
  /\ g.ws # None /\ g.sock[g.ws] = "open" => g.offered[g.ws] # None
  /\ \A k \in Sockets : g.sock[k] = "connecting" => g.given[k] # None

\* The banner excludes the status connected.
Sound(g) == SocketsSound(g) /\ (g.status = "connected" => ~g.authError)

Fine(g) == g \in State /\ Sound(g)

LEMMA CloseFine ==
  ASSUME NEW g \in State, SocketsSound(g), NEW k \in Sockets \cup {None}
  PROVE  Close(g, k) \in State /\ SocketsSound(Close(g, k))
  BY NoneAssumption DEF Fine, Sound, SocketsSound, State, Close

LEMMA ScheduleFine ==
  ASSUME NEW g, Fine(g)
  PROVE  Fine(Schedule(g))
<1> DEFINE n == IF g.timer THEN g.stray + 1 ELSE g.stray
<1>1. n \in Nat /\ g \in State /\ Sound(g)
  BY DEF Fine, State
<1>2. Schedule(g) = [g EXCEPT !.stray = n, !.timer = TRUE]
  BY DEF Schedule
<1> HIDE DEF n
<1>3. Schedule(g) \in State
  BY <1>1, <1>2 DEF State
<1>4. Sound(Schedule(g))
  BY <1>1, <1>2 DEF Sound, SocketsSound, State
<1> QED
  BY <1>3, <1>4 DEF Fine

LEMMA DisconnectFine ==
  ASSUME NEW g \in State, SocketsSound(g)
  PROVE  Fine(Disconnect(g))
<1> DEFINE c == Close(g, g.ws)
<1>1. g.ws \in Sockets \cup {None}
  BY DEF Fine, State
<1>2. c \in State /\ SocketsSound(c)
  BY <1>1, CloseFine
<1>3. Disconnect(g) = [c EXCEPT !.timer = FALSE, !.suppress = TRUE, !.ws = None,
                                !.status = "disconnected"]
  BY DEF Disconnect
<1> HIDE DEF c
<1>4. Disconnect(g) \in State
  BY <1>2, <1>3 DEF State
<1>5. Sound(Disconnect(g))
  BY <1>2, <1>3 DEF Sound, SocketsSound, State
<1> QED
  BY <1>4, <1>5 DEF Fine

LEMMA DialFine ==
  ASSUME NEW g, Fine(g), NEW k \in Sockets, NEW t \in Tokens,
         NEW url \in {"local", "relay", None}
  PROVE  Fine(Dial(g, k, t, url))
<1>1. g \in State /\ Sound(g)
  BY DEF Fine
<1>2. Dial(g, k, t, url) \in State
  BY <1>1 DEF Dial, State
<1>3. Sound(Dial(g, k, t, url))
  BY <1>1, NoneAssumption DEF Dial, State, Sound, SocketsSound
<1> QED
  BY <1>2, <1>3 DEF Fine

LEMMA ClearedFine ==
  ASSUME NEW g, Fine(g)
  PROVE  Fine(Cleared(g))
<1> DEFINE d == Disconnect(g)
<1>1. d \in State /\ Sound(d)
  BY DisconnectFine DEF Fine, Sound
<1>2. Cleared(g) = [d EXCEPT !.token = None, !.stored = None, !.base = None]
  BY DEF Cleared
<1> HIDE DEF d
<1>3. Cleared(g) \in State
  BY <1>1, <1>2 DEF State
<1>4. Sound(Cleared(g))
  BY <1>1, <1>2 DEF Sound, SocketsSound, State
<1> QED
  BY <1>3, <1>4 DEF Fine

LEMMA AdoptedFine ==
  ASSUME NEW g, Fine(g), NEW t \in Tokens
  PROVE  Fine(Adopted(g, t)) /\ Adopted(g, t).token = t
<1>1. g \in State /\ Sound(g) /\ Mode(t) \in {"local", "relay"}
  BY DEF Fine, Mode
<1>2. Adopted(g, t) = [g EXCEPT !.token = t, !.stored = t, !.base = Mode(t)]
  BY DEF Adopted
<1>3. Adopted(g, t) \in State /\ Adopted(g, t).token = t
  BY <1>1, <1>2 DEF State
<1>4. Sound(Adopted(g, t))
  BY <1>1, <1>2 DEF Sound, SocketsSound, State
<1> QED
  BY <1>3, <1>4 DEF Fine

-----------------------------------------------------------------------------
(* What an action leaves.                                                  *)

\* What an asynchronous function waits for; one that probes has a token.
CallState == [does : {"nothing", "switch"}, with : Tokens \cup {None}]
             \cup [does : {"probe"}, with : Tokens]

\* The globals after a step are those it becomes.
LEMMA BecomesThem ==
  ASSUME NEW g \in State, Becomes(g)
  PROVE  Globals' = g /\ stray' <= MaxStray
  BY DEF Becomes, Globals, State

\* The variables beside the globals.
RestSound ==
  call \in [Calls -> CallState] /\ valid \subseteq Tokens /\ refused \subseteq Tokens
  /\ up \in BOOLEAN

\* What is claimed in every state.
Inv == TypeOK /\ Sound(Globals) /\ RestSound

LEMMA InvParts == Inv => Fine(Globals) /\ RestSound
  BY GlobalsTyped DEF Inv, Fine

\* A step to sound globals keeps the invariant.
LEMMA BecomesKeeps ==
  ASSUME NEW g, Fine(g), Becomes(g), RestSound'
  PROVE  Inv'
<1>1. Globals' = g /\ stray' <= MaxStray /\ g \in State /\ Sound(g)
  BY BecomesThem DEF Fine
<1>2. Globals' \in State /\ Sound(Globals')
  BY <1>1
<1>3. TypeOK'
  BY <1>1, <1>2, BoundAssumption DEF State, Globals, TypeOK, RestSound, CallState
<1> QED
  BY <1>2, <1>3 DEF Inv

\* connect() from sound globals leaves sound ones.
LEMMA ConnectKeeps ==
  ASSUME NEW g, Fine(g), NEW k \in Sockets, NEW c \in Calls, Connect(g, k, c),
         RestSound, UNCHANGED <<valid, refused, up>>
  PROVE  Inv'
<1>1. g \in State /\ g.token \in Tokens \cup {None} /\ g.base \in {"local", "relay", None}
  BY DEF Fine, State
<1>2. CASE g.token = None
  <2> DEFINE d == [g EXCEPT !.status = "disconnected"]
  <2>1. Becomes(d) /\ RestSound'
    BY <1>2 DEF Connect, RestSound
  <2>2. Fine(d)
    BY DEF Fine, State, Sound, SocketsSound
  <2> QED
    BY <2>1, <2>2, BecomesKeeps
<1>3. CASE g.token # None /\ (g.base # None \/ Mode(g.token) = "relay")
  <2> DEFINE url == IF g.base = None THEN "relay" ELSE g.base
             d == Dial(g, k, g.token, url)
  <2>1. Becomes(d) /\ RestSound'
    BY <1>3 DEF Connect, RestSound
  <2>2. url \in {"local", "relay", None}
    BY <1>1
  <2>3. Fine(d)
    BY <1>1, <1>3, <2>2, DialFine
  <2> QED
    BY <2>1, <2>3, BecomesKeeps
<1>4. CASE g.token # None /\ ~(g.base # None \/ Mode(g.token) = "relay")
  <2> DEFINE d == [g EXCEPT !.status = "connecting"]
  <2>1. Becomes(d) /\ call' = [call EXCEPT ![c] = [does |-> "probe", with |-> g.token]]
    BY <1>4 DEF Connect
  <2>2. RestSound'
    <3>1. [does |-> "probe", with |-> g.token] \in CallState
      BY <1>1, <1>4 DEF CallState
    <3> QED
      BY <2>1, <3>1 DEF RestSound
  <2>3. Fine(d)
    BY DEF Fine, State, Sound, SocketsSound
  <2> QED
    BY <2>1, <2>2, <2>3, BecomesKeeps
<1> QED
  BY <1>2, <1>3, <1>4

\* A handler that opens socket k keeps the invariant: when the global socket
\* is an open one that was sent no token, it is k itself.
LEMMA OpenKeeps ==
  ASSUME Inv, NEW k \in Sockets, Open(k)
  PROVE  Inv'
<1> DEFINE g == [Globals EXCEPT !.sock[k] = "open"]
           e == [g EXCEPT !.offered[ws] = given[k]]
<1>1. Fine(Globals) /\ RestSound
  BY InvParts
<1>2. RestSound' /\ sock[k] = "connecting"
  BY <1>1 DEF Open, RestSound
<1>3. g \in State /\ Globals \in State /\ Sound(Globals)
  BY <1>1 DEF Fine, State
<1>4. /\ g.sock = [sock EXCEPT ![k] = "open"]
      /\ g.ws = ws /\ g.offered = offered /\ g.given = given
      /\ g.status = status /\ g.authError = authError
      /\ sock \in [Sockets -> {"closed", "connecting", "open", "closing"}]
      /\ offered \in [Sockets -> Tokens \cup {None}]
      /\ given \in [Sockets -> Tokens \cup {None}]
      /\ ws \in Sockets \cup {None}
  BY <1>3 DEF Globals, State
<1>5. /\ \A j \in Sockets : offered[j] \in {None, given[j]}
      /\ ws # None /\ sock[ws] = "open" => offered[ws] # None
      /\ \A j \in Sockets : sock[j] = "connecting" => given[j] # None
      /\ status = "connected" => ~authError
  BY <1>3 DEF Sound, SocketsSound, Globals
<1>6. CASE ws # None /\ g.sock[ws] = "open" /\ offered[ws] = None
  <2>1. ws = k
    <3> HIDE DEF g
    <3> QED
      BY <1>4, <1>5, <1>6
  <2>2. Becomes(e)
    BY <1>6 DEF Open
  <2>3. /\ e \in State /\ e.offered = [offered EXCEPT ![ws] = given[k]]
        /\ e.sock = g.sock /\ e.ws = ws /\ e.given = given
        /\ e.status = status /\ e.authError = authError
    <3> HIDE DEF g
    <3> QED
      BY <1>3, <1>4, <2>1 DEF State
  <2> HIDE DEF e, g
  <2>4. given[k] # None /\ k \in Sockets
    BY <1>2, <1>5
  <2>5. \A j \in Sockets : e.sock[j] = "connecting" => e.given[j] # None
    BY <1>4, <1>5, <2>3
  <2>6. \A j \in Sockets : e.offered[j] \in {None, e.given[j]}
    BY <1>4, <1>5, <2>1, <2>3
  <2>7. e.ws # None /\ e.sock[e.ws] = "open" => e.offered[e.ws] # None
    BY <1>4, <2>1, <2>3, <2>4
  <2>8. Sound(e)
    BY <1>5, <2>3, <2>5, <2>6, <2>7 DEF Sound, SocketsSound
  <2> QED
    BY <1>2, <2>2, <2>3, <2>8, BecomesKeeps DEF Fine
<1>7. CASE ~(ws # None /\ g.sock[ws] = "open" /\ offered[ws] = None)
  <2>1. Becomes(g)
    BY <1>7 DEF Open
  <2> HIDE DEF g
  <2>2. Sound(g)
    BY <1>4, <1>5, <1>7 DEF Sound, SocketsSound
  <2> QED
    BY <1>2, <1>3, <2>1, <2>2, BecomesKeeps DEF Fine
<1> QED
  BY <1>6, <1>7

\* A refusal keeps the invariant.
LEMMA RefusedKeeps ==
  ASSUME Inv, NEW k \in Sockets, Refused(k)
  PROVE  Inv'
<1> DEFINE g == [Globals EXCEPT !.sock[k] = "closing"]
           e == [Globals EXCEPT !.sock[k] = "closing", !.denied[k] = TRUE,
                                !.authError = TRUE]
<1>1. Fine(Globals) /\ RestSound
  BY InvParts
<1>2. RestSound'
  BY <1>1 DEF Refused, RestSound, TypeOK, Inv
<1>3. CASE at[k] = "relay"
  <2>1. Becomes(g)
    BY <1>3 DEF Refused
  <2>2. Fine(g)
    BY <1>1 DEF Fine, State, Sound, SocketsSound
  <2> QED
    BY <1>2, <2>1, <2>2, BecomesKeeps
<1>4. CASE at[k] # "relay"
  <2>1. Becomes(Disconnect(e))
    BY <1>4 DEF Refused
  <2>2. e \in State /\ SocketsSound(e)
    BY <1>1 DEF Fine, State, Sound, SocketsSound
  <2> HIDE DEF e
  <2>3. Fine(Disconnect(e))
    BY <2>2, DisconnectFine
  <2> QED
    BY <1>2, <2>1, <2>3, BecomesKeeps
<1> QED
  BY <1>3, <1>4

\* A close event keeps the invariant.
LEMMA CloseEventKeeps ==
  ASSUME Inv, NEW k \in Sockets, CloseEvent(k)
  PROVE  Inv'
<1> DEFINE g == [Globals EXCEPT !.sock[k] = "closed", !.status = "disconnected",
                                !.ws = None]
           e == [g EXCEPT !.authError = authError \/ denied[k]]
           q == [g EXCEPT !.suppress = FALSE]
<1>1. Fine(Globals) /\ RestSound
  BY InvParts
<1>2. RestSound'
  BY <1>1 DEF CloseEvent, RestSound
<1>3. Fine(g) /\ g.status = "disconnected"
  BY <1>1 DEF Fine, State, Sound, SocketsSound
<1>4. Becomes(IF suppress THEN q ELSE IF e.authError THEN e ELSE Schedule(e))
  BY DEF CloseEvent
<1> HIDE DEF g
<1>5. Fine(q)
  BY <1>3 DEF Fine, State, Sound, SocketsSound
<1>6. Fine(e)
  <2> DEFINE b == authError \/ denied[k]
  <2>1. b \in BOOLEAN
    OBVIOUS
  <2>2. e = [g EXCEPT !.authError = b]
    OBVIOUS
  <2> HIDE DEF b
  <2> QED
    BY <1>3, <2>1, <2>2 DEF Fine, State, Sound, SocketsSound
<1> HIDE DEF e, q
<1>7. Fine(Schedule(e))
  BY <1>6, ScheduleFine
<1> QED
  BY <1>2, <1>4, <1>5, <1>6, <1>7, BecomesKeeps

\* What the user does keeps the invariant.
LEMMA UserKeeps ==
  ASSUME Inv,
         \/ \E k \in Sockets, c \in Calls :
              Mount(k, c) \/ \E t \in Tokens : Pair(t, k, c) \/ Scan(t, k, c)
         \/ \E t \in Tokens, c \in Calls : Switch(t, c)
         \/ Reload \/ Clear
  PROVE  Inv'
<1>0. Fine(Globals) /\ RestSound /\ Globals \in State
  BY InvParts DEF Fine
<1>1. ASSUME NEW k \in Sockets, NEW c \in Calls, Mount(k, c) PROVE Inv'
  <2> DEFINE g == [Globals EXCEPT !.token = stored]
  <2>1. Connect(g, k, c) /\ UNCHANGED <<valid, refused, up>>
    BY <1>1 DEF Mount
  <2>2. stored \in Tokens \cup {None}
    BY DEF Inv, TypeOK
  <2>3. Fine(g)
    BY <1>0, <2>2 DEF Fine, State, Sound, SocketsSound
  <2> QED
    BY <1>0, <2>1, <2>3, ConnectKeeps
<1>2. CASE Reload
  <2> DEFINE g == [Globals EXCEPT
                     !.token = None, !.ws = None, !.timer = FALSE, !.stray = 0,
                     !.suppress = FALSE, !.status = "disconnected",
                     !.authError = FALSE, !.base = None,
                     !.sock = [j \in Sockets |-> "closed"]]
  <2>1. Becomes(g)
    BY <1>2 DEF Reload
  <2>2. RestSound'
    BY <1>0, <1>2 DEF Reload, RestSound, CallState, Idle
  <2>3. g \in State
    BY <1>0 DEF State
  <2>4. Sound(g)
    BY <1>0 DEF Fine, State, Sound, SocketsSound
  <2> QED
    BY <2>1, <2>2, <2>3, <2>4, BecomesKeeps DEF Fine
<1>3. ASSUME NEW k \in Sockets, NEW c \in Calls, NEW t \in Tokens, 
             Pair(t, k, c)
      PROVE  Inv'
  <2>1. Fine(Adopted(Globals, t))
    BY <1>0, AdoptedFine
  <2> QED
    BY <1>0, <1>3, <2>1, ConnectKeeps DEF Pair
<1>4. ASSUME NEW k \in Sockets, NEW c \in Calls, NEW t \in Tokens, 
             Scan(t, k, c)
      PROVE  Inv'
  <2>1. Fine(Adopted(Cleared(Globals), t))
    BY <1>0, ClearedFine, AdoptedFine
  <2> QED
    BY <1>0, <1>4, <2>1, ConnectKeeps DEF Scan
<1>5. CASE Clear
  <2>1. Fine(Cleared(Globals))
    BY <1>0, ClearedFine
  <2>2. Becomes(Cleared(Globals)) /\ RestSound'
    BY <1>0, <1>5 DEF Clear, RestSound
  <2> QED
    BY <2>1, <2>2, BecomesKeeps
<1>6. ASSUME NEW c \in Calls, NEW t \in Tokens, Switch(t, c) PROVE Inv'
  <2> DEFINE a == Adopted(Disconnect(Globals), t)
             g == [a EXCEPT !.authError = FALSE]
  <2>1. Becomes(g)
    BY <1>6 DEF Switch
  <2>2. Fine(a)
    BY <1>0, DisconnectFine, AdoptedFine DEF Fine, Sound
  <2> HIDE DEF a
  <2>3. Fine(g)
    BY <2>2 DEF Fine, State, Sound, SocketsSound
  <2>4. RestSound'
    BY <1>0, <1>6 DEF Switch, RestSound, CallState
  <2> QED
    BY <2>1, <2>3, <2>4, BecomesKeeps
<1> QED
  BY <1>1, <1>2, <1>3, <1>4, <1>5, <1>6

\* An asynchronous function that goes on, and a timer that fires, keep it.
LEMMA AwaitedKeeps ==
  ASSUME Inv, NEW c \in Calls,
         \/ \E k \in Sockets : \/ SwitchGoesOn(c, k) \/ ProbeOk(c, k)
                              \/ RetryTimer(k, c) \/ StrayTimer(k, c)
         \/ ProbeFailed(c)
  PROVE  Inv'
<1>0. Fine(Globals) /\ RestSound /\ Globals \in State
  BY InvParts DEF Fine
<1>i. call[c] \in CallState /\ Idle \in CallState
  BY <1>0 DEF RestSound, CallState, Idle
<1>t. /\ token \in Tokens \cup {None} /\ base \in {"local", "relay", None}
      /\ stray \in Nat
  BY BoundAssumption DEF Inv, TypeOK
<1>1. ASSUME NEW k \in Sockets, SwitchGoesOn(c, k) PROVE Inv'
  <2> DEFINE d == [Globals EXCEPT !.status = "disconnected"]
  <2>1. /\ token = None => Becomes(d)
        /\ token # None => Becomes(Dial(Globals, k, token, base))
        /\ call' = [call EXCEPT ![c] = Idle] /\ UNCHANGED <<valid, refused, up>>
    BY <1>1 DEF SwitchGoesOn
  <2>2. RestSound'
    BY <1>0, <1>i, <2>1 DEF RestSound
  <2>3. Fine(d)
    BY <1>0 DEF Fine, State, Sound, SocketsSound
  <2>4. token # None => Fine(Dial(Globals, k, token, base))
    BY <1>0, <1>t, DialFine
  <2> QED
    BY <2>1, <2>2, <2>3, <2>4, BecomesKeeps
<1>2. ASSUME NEW k \in Sockets, ProbeOk(c, k) PROVE Inv'
  <2>1. /\ Becomes(Dial(Globals, k, call[c].with, "local"))
        /\ call' = [call EXCEPT ![c] = Idle] /\ UNCHANGED <<valid, refused, up>>
        /\ call[c].does = "probe"
    BY <1>2 DEF ProbeOk
  <2>2. call[c].with \in Tokens
    BY <1>i, <2>1 DEF CallState
  <2>3. RestSound'
    BY <1>0, <1>i, <2>1 DEF RestSound
  <2>4. Fine(Dial(Globals, k, call[c].with, "local"))
    BY <1>0, <2>2, DialFine
  <2> QED
    BY <2>1, <2>3, <2>4, BecomesKeeps
<1>3. CASE ProbeFailed(c)
  <2> DEFINE d == [Globals EXCEPT !.status = "disconnected"]
  <2>1. /\ Becomes(Schedule(d))
        /\ call' = [call EXCEPT ![c] = Idle] /\ UNCHANGED <<valid, refused, up>>
    BY <1>3 DEF ProbeFailed
  <2>2. RestSound'
    BY <1>0, <1>i, <2>1 DEF RestSound
  <2>3. Fine(d)
    BY <1>0 DEF Fine, State, Sound, SocketsSound
  <2> QED
    BY <2>1, <2>2, <2>3, ScheduleFine, BecomesKeeps
<1>4. ASSUME NEW k \in Sockets, RetryTimer(k, c) PROVE Inv'
  <2> DEFINE g == [Globals EXCEPT !.timer = FALSE]
  <2>1. Connect(g, k, c) /\ UNCHANGED <<valid, refused, up>>
    BY <1>4 DEF RetryTimer
  <2>2. Fine(g)
    BY <1>0 DEF Fine, State, Sound, SocketsSound
  <2> QED
    BY <1>0, <2>1, <2>2, ConnectKeeps
<1>5. ASSUME NEW k \in Sockets, StrayTimer(k, c) PROVE Inv'
  <2> DEFINE g == [Globals EXCEPT !.stray = stray - 1]
  <2>1. /\ Connect([Globals EXCEPT !.stray = @ - 1], k, c)
        /\ UNCHANGED <<valid, refused, up>> /\ stray > 0
    BY <1>5 DEF StrayTimer
  <2>2. g = [Globals EXCEPT !.stray = @ - 1]
    BY DEF Globals
  <2>3. stray - 1 \in Nat
    BY <1>t, <2>1
  <2>4. Fine(g)
    BY <1>0, <2>3 DEF Fine, State, Sound, SocketsSound
  <2> QED
    BY <1>0, <2>1, <2>2, <2>4, ConnectKeeps
<1> QED
  BY <1>1, <1>2, <1>3, <1>4, <1>5

\* The events of socket k keep it.
LEMMA SocketKeeps ==
  ASSUME Inv, NEW k \in Sockets,
         \/ Open(k) \/ ConnectFailed(k) \/ AuthOk(k) \/ Refused(k) \/ CloseEvent(k)
  PROVE  Inv'
<1>0. Fine(Globals) /\ RestSound /\ Globals \in State
  BY InvParts DEF Fine
<1>1. CASE ConnectFailed(k)
  <2> DEFINE g == [Globals EXCEPT !.sock[k] = "closing"]
  <2>1. Becomes(Close(g, ws)) /\ UNCHANGED <<call, valid, refused, up>>
    BY <1>1 DEF ConnectFailed
  <2>2. g \in State /\ SocketsSound(g) /\ ws \in Sockets \cup {None}
    BY <1>0 DEF State, Fine, Sound, SocketsSound, Globals
  <2>3. g.status = "connected" => ~g.authError
    BY <1>0 DEF State, Fine, Sound
  <2> HIDE DEF g
  <2>4. Close(g, ws) \in State /\ SocketsSound(Close(g, ws))
    BY <2>2, CloseFine
  <2>5. Fine(Close(g, ws))
    BY <2>2, <2>3, <2>4 DEF Fine, Sound, Close, State
  <2>6. RestSound'
    BY <1>0, <2>1 DEF RestSound
  <2> QED
    BY <2>1, <2>5, <2>6, BecomesKeeps
<1>2. CASE AuthOk(k)
  <2> DEFINE g == [Globals EXCEPT !.status = "connected", !.authError = FALSE]
  <2>1. Becomes(g) /\ UNCHANGED <<call, valid, refused, up>>
    BY <1>2 DEF AuthOk
  <2>2. Fine(g)
    BY <1>0 DEF Fine, State, Sound, SocketsSound
  <2>3. RestSound'
    BY <1>0, <2>1 DEF RestSound
  <2> QED
    BY <2>1, <2>2, <2>3, BecomesKeeps
<1> QED
  BY <1>1, <1>2, OpenKeeps, RefusedKeeps, CloseEventKeeps

\* The server's own steps keep it.
LEMMA ServerKeeps ==
  ASSUME Inv, ServerDown \/ ServerUp \/ \E t \in Tokens : Invalidate(t)
  PROVE  Inv'
<1>0. TypeOK /\ RestSound /\ Sound(Globals)
  BY DEF Inv
<1>1. CASE ServerDown
  <2> DEFINE g == [Globals EXCEPT !.sock = sock']
  <2>1. sock' = [k \in Sockets |-> IF sock[k] = "open" THEN "closing" ELSE sock[k]]
    BY <1>1 DEF ServerDown
  <2>2. sock' \in [Sockets -> {"closed", "connecting", "open", "closing"}]
    BY <1>0, <2>1 DEF TypeOK
  <2>3. TypeOK' /\ RestSound'
    BY <1>0, <1>1, <2>2 DEF ServerDown, TypeOK, RestSound
  <2>4. Sound(Globals)'
    <3>1. \A k \in Sockets : sock'[k] \in {"open", "connecting"} => sock'[k] = sock[k]
      BY <2>1
    <3>2. UNCHANGED <<given, offered, ws, status, authError>>
      BY <1>1 DEF ServerDown
    <3>3. ws \in Sockets \cup {None}
      BY <1>0 DEF TypeOK
    <3> QED
      BY <1>0, <3>1, <3>2, <3>3 DEF Globals, Sound, SocketsSound
  <2> QED
    BY <2>3, <2>4 DEF Inv
<1>2. CASE ServerUp \/ \E t \in Tokens : Invalidate(t)
  <2>1. UNCHANGED <<ui, call, refused>> /\ valid' \subseteq valid /\ up' \in BOOLEAN
    BY <1>0, <1>2 DEF ServerUp, Invalidate, TypeOK
  <2>2. TypeOK' /\ RestSound'
    BY <1>0, <2>1 DEF ui, TypeOK, RestSound
  <2>3. Sound(Globals)'
    BY <1>0, <2>1 DEF ui, Globals, Sound, SocketsSound
  <2> QED
    BY <2>2, <2>3 DEF Inv
<1> QED
  BY <1>1, <1>2

\* Every step keeps the invariant.
LEMMA NextKeeps == Inv /\ [Next]_vars => Inv'
<1> SUFFICES ASSUME Inv, [Next]_vars PROVE Inv'
  OBVIOUS
<1>1. CASE UNCHANGED vars
  BY <1>1 DEF vars, ui, Inv, TypeOK, RestSound, Globals, Sound, SocketsSound
<1>2. CASE \E k \in Sockets, c \in Calls :
             \/ Mount(k, c) \/ RetryTimer(k, c) \/ StrayTimer(k, c)
             \/ ProbeOk(c, k) \/ SwitchGoesOn(c, k)
             \/ \E t \in Tokens : Pair(t, k, c) \/ Scan(t, k, c)
  BY <1>2, UserKeeps, AwaitedKeeps
<1>3. CASE \E k \in Sockets :
             \/ Open(k) \/ ConnectFailed(k) \/ AuthOk(k) \/ Refused(k)
             \/ CloseEvent(k)
  BY <1>3, SocketKeeps
<1>4. CASE ServerDown \/ ServerUp \/ \E t \in Tokens : Invalidate(t)
  BY <1>4, ServerKeeps
<1>5. CASE \E t \in Tokens, c \in Calls : Switch(t, c)
  BY <1>5, UserKeeps
<1>6. CASE Reload \/ Clear \/ \E c \in Calls : ProbeFailed(c)
  BY <1>6, UserKeeps, AwaitedKeeps
<1> QED
  BY <1>1, <1>2, <1>3, <1>4, <1>5, <1>6 DEF Next

\* The invariant holds in every state.
LEMMA InvHolds == Spec => []Inv
<1>1. Init => Inv
  <2> SUFFICES ASSUME Init PROVE Inv
    OBVIOUS
  <2>1. TypeOK
    <3>1. Idle \in [does : {"nothing", "probe", "switch"}, with : Tokens \cup {None}]
      BY DEF Idle
    <3>2. stray \in 0 .. MaxStray
      BY BoundAssumption DEF Init
    <3> QED
      BY <3>1, <3>2 DEF Init, TypeOK
  <2>2. RestSound
    BY DEF Init, RestSound, CallState, Idle
  <2>3. Sound(Globals)
    BY DEF Init, Globals, Sound, SocketsSound
  <2> QED
    BY <2>1, <2>2, <2>3 DEF Inv
<1>2. Inv /\ [Next]_vars => Inv'
  BY NextKeeps
<1> QED
  BY <1>1, <1>2, PTL DEF Spec

\* The globals always have their types.
THEOREM BridgeTypeCorrect == Spec => []TypeOK
<1>1. Inv => TypeOK
  BY DEF Inv
<1> QED
  BY <1>1, InvHolds, PTL

\* Whatever the user does and however late a replaced socket opens, a socket
\* is sent no other token than the one it was made for.
THEOREM AlwaysTheRightToken == Spec => []RightToken
<1>1. Inv => RightToken
  BY DEF Inv, Sound, SocketsSound, Globals, RightToken
<1> QED
  BY <1>1, InvHolds, PTL

\* The banner of a refusal never appears on a phone that is connected.
THEOREM AlwaysWelcomeOrNot == Spec => []ConnectedIsWelcome
<1>1. Inv => ConnectedIsWelcome
  BY DEF Inv, Sound, Globals, ConnectedIsWelcome
<1> QED
  BY <1>1, InvHolds, PTL

-----------------------------------------------------------------------------
(* A phone whose user only loads the page.                                 *)

\* The agent has refused the token.
TurnedAway == token \in refused \ RelayTokens

\* One thing is under way at a time: a timer, a probe or a socket, which
\* are all for the one token; nothing is once the agent has refused it.
Alone ==
  /\ stray = 0
  /\ token = None => base = None /\ refused = {} /\ ~timer
  /\ token # None => base \in {None, Mode(token)}
  /\ suppress \/ authError => TurnedAway
  /\ \A c \in Calls : call[c] # Idle =>
       /\ token # None /\ Mode(token) = "local" /\ ~timer /\ ~TurnedAway
       /\ call[c].does = "probe" /\ call[c].with = token
       /\ \A d \in Calls : call[d] # Idle => c = d
       /\ \A k \in Sockets : sock[k] = "closed"
  /\ \A k \in Sockets : sock[k] # "closed" =>
       /\ token # None /\ given[k] = token /\ at[k] = Mode(token) /\ ~timer
       /\ \A j \in Sockets : sock[j] # "closed" => j = k
       /\ sock[k] # "closing" => ws = k /\ ~TurnedAway
       /\ TurnedAway => suppress
       /\ denied[k] => TurnedAway
  /\ timer => ~TurnedAway
  /\ token # None /\ ~TurnedAway => UnderWay

\* The globals that connect() leaves of g when it makes socket k.
Dialled(g, k) ==
  /\ UNCHANGED call
  /\ token' = g.token /\ stray' = g.stray /\ timer' = g.timer
  /\ suppress' = g.suppress /\ authError' = g.authError /\ ws' = k
  /\ base' = IF g.base = None THEN "relay" ELSE g.base
  /\ sock' = [g.sock EXCEPT ![k] = "connecting"]
  /\ given' = [g.given EXCEPT ![k] = g.token]
  /\ at' = [g.at EXCEPT ![k] = base']
  /\ denied' = [g.denied EXCEPT ![k] = FALSE]

\* Those that it leaves when it has to probe first.
Probing(g, c) ==
  /\ call' = [call EXCEPT ![c] = [does |-> "probe", with |-> g.token]]
  /\ token' = g.token /\ stray' = g.stray /\ timer' = g.timer
  /\ suppress' = g.suppress /\ authError' = g.authError /\ ws' = g.ws
  /\ base' = g.base /\ sock' = g.sock /\ given' = g.given /\ at' = g.at
  /\ denied' = g.denied

\* connect() with a token makes a socket or probes.
LEMMA ConnectDials ==
  ASSUME NEW g \in State, g.token # None, NEW k \in Sockets, NEW c \in Calls,
         Connect(g, k, c)
  PROVE  \/ (g.base # None \/ Mode(g.token) = "relay") /\ Dialled(g, k)
         \/ g.base = None /\ Mode(g.token) # "relay" /\ Probing(g, c)
<1>1. CASE g.base # None \/ Mode(g.token) = "relay"
  <2> DEFINE url == IF g.base = None THEN "relay" ELSE g.base
  <2>1. Becomes(Dial(g, k, g.token, url)) /\ UNCHANGED call
    BY <1>1 DEF Connect
  <2> HIDE DEF url
  <2>2. base' = url
    BY <2>1 DEF Becomes, Dial, State
  <2> QED
    BY <1>1, <2>1, <2>2 DEF Becomes, Dial, State, Dialled, url
<1>2. CASE ~(g.base # None \/ Mode(g.token) = "relay")
  BY <1>2 DEF Connect, Becomes, State, Probing
<1> QED
  BY <1>1, <1>2

\* A connection attempt of a phone that does nothing else.
LEMMA AttemptIsAlone ==
  ASSUME Inv, Alone, NEW g \in State, NEW k \in Sockets, NEW c \in Calls,
         Connect(g, k, c), UNCHANGED <<valid, refused, up>>,
         g.token \in Tokens, g.token \notin refused \ RelayTokens,
         g.base \in {None, Mode(g.token)}, g.timer = FALSE, g.stray = 0,
         g.suppress = FALSE, g.authError = FALSE,
         \A d \in Calls : call[d] = Idle, \A j \in Sockets : g.sock[j] = "closed"
  PROVE  Alone'
<1>1. g.token # None /\ Mode(g.token) \in {"local", "relay"}
  BY NoneAssumption DEF Mode
<1>2. CASE (g.base # None \/ Mode(g.token) = "relay") /\ Dialled(g, k)
  <2>1. base' = Mode(g.token)
    BY <1>1, <1>2 DEF Dialled
  <2>2. /\ \A j \in Sockets : sock'[j] = IF j = k THEN "connecting" ELSE "closed"
        /\ given'[k] = g.token /\ at'[k] = Mode(g.token) /\ ~denied'[k]
    BY <1>2, <2>1 DEF Dialled, State
  <2>3. UnderWay'
    BY <2>2 DEF UnderWay
  <2>4. /\ call' = call /\ token' = g.token /\ stray' = 0 /\ timer' = FALSE
        /\ suppress' = FALSE /\ authError' = FALSE /\ ws' = k
        /\ refused' = refused
    BY <1>2 DEF Dialled
  <2>5. ~TurnedAway'
    BY <2>4 DEF TurnedAway
  <2> QED
    BY <1>1, <2>1, <2>2, <2>3, <2>4, <2>5 DEF Alone
<1>3. CASE g.base = None /\ Mode(g.token) # "relay" /\ Probing(g, c)
  <2> DEFINE p == [does |-> "probe", with |-> g.token]
  <2>1. p # Idle /\ p.does = "probe" /\ p.with = g.token
    BY DEF Idle
  <2>2. call' = [call EXCEPT ![c] = p] /\ call \in [Calls -> CallState]
    BY <1>3 DEF Probing, Inv, RestSound
  <2> HIDE DEF p
  <2>3. /\ \A d \in Calls : call'[d] = IF d = c THEN p ELSE Idle
        /\ \A j \in Sockets : sock'[j] = "closed"
        /\ token' = g.token /\ stray' = 0 /\ timer' = FALSE
        /\ suppress' = FALSE /\ authError' = FALSE /\ base' = None
        /\ refused' = refused
    BY <1>3, <2>2 DEF Probing
  <2>4. UnderWay'
    BY <2>1, <2>3 DEF UnderWay, Free
  <2>5. ~TurnedAway'
    BY <2>3 DEF TurnedAway
  <2> QED
    BY <1>1, <1>3, <2>1, <2>3, <2>4, <2>5 DEF Alone
<1> QED
  BY <1>1, <1>2, <1>3, ConnectDials

\* The user of a phone that does nothing else leaves it alone.
LEMMA UserAlone ==
  ASSUME Inv, Alone,
         Reload \/ \E k \in Sockets, c \in Calls : Mount(k, c) \/ RetryTimer(k, c)
  PROVE  Alone'
<1>0. Globals \in State /\ TypeOK
  BY InvParts DEF Fine, Inv
<1>1. CASE Reload
  <2>1. /\ token' = None /\ base' = None /\ timer' = FALSE /\ stray' = 0
        /\ suppress' = FALSE /\ authError' = FALSE /\ refused' = {}
        /\ sock' = [k \in Sockets |-> "closed"]
        /\ call' = [c \in Calls |-> Idle]
    BY <1>0, <1>1 DEF Reload, Becomes, State
  <2> QED
    BY <2>1 DEF Alone, TurnedAway
<1>2. ASSUME NEW k \in Sockets, NEW c \in Calls, Mount(k, c)
      PROVE  Alone'
  <2> DEFINE g == [Globals EXCEPT !.token = stored]
  <2>1. /\ Connect(g, k, c) /\ UNCHANGED <<valid, refused, up>>
        /\ token = None /\ stored \in Tokens
    BY <1>0, <1>2 DEF Mount, TypeOK
  <2>2. /\ g \in State /\ g.token = stored /\ g.base = base /\ g.timer = timer
        /\ g.stray = stray /\ g.suppress = suppress /\ g.authError = authError
        /\ g.sock = sock
    BY <1>0, <2>1 DEF State, Globals
  <2>3. /\ base = None /\ refused = {} /\ ~timer /\ stray = 0
        /\ ~suppress /\ ~authError
    BY <2>1 DEF Alone, TurnedAway
  <2>4. /\ \A d \in Calls : call[d] = Idle
        /\ \A j \in Sockets : sock[j] = "closed"
    BY <2>1 DEF Alone
  <2>5. suppress = FALSE /\ authError = FALSE /\ timer = FALSE
    BY <1>0, <2>3 DEF TypeOK
  <2> HIDE DEF g
  <2> QED
    BY <2>1, <2>2, <2>3, <2>4, <2>5, AttemptIsAlone
<1>3. ASSUME NEW k \in Sockets, NEW c \in Calls, RetryTimer(k, c)
      PROVE  Alone'
  <2> DEFINE g == [Globals EXCEPT !.timer = FALSE]
  <2>1. Connect(g, k, c) /\ UNCHANGED <<valid, refused, up>> /\ timer
    BY <1>3 DEF RetryTimer
  <2>2. /\ g \in State /\ g.token = token /\ g.base = base /\ g.timer = FALSE
        /\ g.stray = stray /\ g.suppress = suppress /\ g.authError = authError
        /\ g.sock = sock
    BY <1>0 DEF State, Globals
  <2>3. /\ token \in Tokens /\ ~TurnedAway /\ stray = 0 /\ base \in {None, Mode(token)}
        /\ ~suppress /\ ~authError
    BY <1>0, <2>1 DEF Alone, TypeOK
  <2>4. /\ \A d \in Calls : call[d] = Idle
        /\ \A j \in Sockets : sock[j] = "closed"
    BY <2>1 DEF Alone
  <2>5. suppress = FALSE /\ authError = FALSE
    BY <1>0, <2>3 DEF TypeOK
  <2> HIDE DEF g
  <2> QED
    BY <2>1, <2>2, <2>3, <2>4, <2>5, AttemptIsAlone DEF TurnedAway
<1> QED
  BY <1>1, <1>2, <1>3

\* An answer to a probe does.
LEMMA ProbeAlone ==
  ASSUME Inv, Alone, NEW c \in Calls,
         ProbeFailed(c) \/ \E k \in Sockets : ProbeOk(c, k)
  PROVE  Alone'
<1>0. Globals \in State /\ TypeOK
  BY InvParts DEF Fine, Inv
<1>1. /\ call[c] # Idle /\ call' = [call EXCEPT ![c] = Idle]
      /\ UNCHANGED refused
  BY DEF ProbeOk, ProbeFailed, Idle
<1>2. /\ token # None /\ Mode(token) = "local" /\ ~timer /\ ~TurnedAway
      /\ call[c].with = token
      /\ \A d \in Calls : call[d] # Idle => c = d
      /\ \A k \in Sockets : sock[k] = "closed"
  BY <1>1 DEF Alone
<1>3. /\ \A d \in Calls : call'[d] = Idle
      /\ stray = 0 /\ ~suppress /\ ~authError
  BY <1>0, <1>1, <1>2 DEF Alone, TypeOK
<1>4. ASSUME NEW k \in Sockets, ProbeOk(c, k)
      PROVE  Alone'
  <2>1. /\ token' = token /\ stray' = stray /\ timer' = timer /\ ws' = k
        /\ suppress' = suppress /\ authError' = authError /\ base' = "local"
        /\ sock' = [sock EXCEPT ![k] = "connecting"]
        /\ given' = [given EXCEPT ![k] = token]
        /\ at' = [at EXCEPT ![k] = "local"]
        /\ denied' = [denied EXCEPT ![k] = FALSE]
    BY <1>0, <1>2, <1>4 DEF ProbeOk, Becomes, Dial, State, Globals
  <2>2. /\ \A j \in Sockets : sock'[j] = IF j = k THEN "connecting" ELSE "closed"
        /\ given'[k] = token /\ at'[k] = "local" /\ ~denied'[k]
    BY <1>0, <1>2, <2>1 DEF TypeOK
  <2>3. UnderWay'
    BY <2>2 DEF UnderWay
  <2>4. ~TurnedAway'
    BY <1>1, <1>2, <2>1 DEF TurnedAway
  <2> QED
    BY <1>2, <1>3, <2>1, <2>2, <2>3, <2>4 DEF Alone, Mode
<1>5. ASSUME ProbeFailed(c) PROVE Alone'
  <2>1. /\ token' = token /\ stray' = stray /\ timer' = TRUE
        /\ suppress' = suppress /\ authError' = authError /\ base' = base
        /\ sock' = sock
    BY <1>0, <1>2, <1>5 DEF ProbeFailed, Becomes, Schedule, State, Globals
  <2>2. UnderWay' /\ ~TurnedAway'
    BY <1>1, <1>2, <2>1 DEF UnderWay, TurnedAway
  <2> QED
    BY <1>2, <1>3, <2>1, <2>2 DEF Alone, Mode
<1> QED
  BY <1>4, <1>5

\* What there is beside a socket that has not closed: nothing.
LEMMA SocketIsAlone ==
  ASSUME Inv, Alone, NEW k \in Sockets, sock[k] # "closed"
  PROVE  /\ token # None /\ given[k] = token /\ at[k] = Mode(token)
         /\ timer = FALSE /\ stray = 0
         /\ \A c \in Calls : call[c] = Idle
         /\ \A j \in Sockets : j # k => sock[j] = "closed"
         /\ sock[k] # "closing" => ws = k /\ ~TurnedAway
         /\ TurnedAway => suppress
         /\ denied[k] => TurnedAway
         /\ base \in {None, Mode(token)}
         /\ suppress \/ authError => TurnedAway
  BY DEF Alone, Inv, TypeOK

\* It is alone again when only that socket has changed and is still there.
LEMMA StillAlone ==
  ASSUME Inv, Alone, NEW k \in Sockets, sock[k] # "closed",
         NEW q \in {"open", "closing"}, sock' = [sock EXCEPT ![k] = q],
         UNCHANGED <<call, token, timer, stray, base, given, at>>,
         refused \subseteq refused',
         q = "closing" \/ (ws' = k /\ ~TurnedAway'),
         TurnedAway' => suppress',
         suppress' \/ authError' => TurnedAway',
         denied'[k] => TurnedAway',
         ~TurnedAway' => UnderWay'
  PROVE  Alone'
<1>1. \A j \in Sockets : sock'[j] = IF j = k THEN q ELSE "closed"
  BY SocketIsAlone DEF Inv, TypeOK
<1>2. q # "closed"
  OBVIOUS
<1>3. \A c \in Calls : call'[c] = Idle
  BY SocketIsAlone
<1>4. /\ token' # None /\ given'[k] = token' /\ at'[k] = Mode(token')
      /\ timer' = FALSE /\ stray' = 0 /\ base' \in {None, Mode(token')}
  BY SocketIsAlone
<1> QED
  BY <1>1, <1>2, <1>3, <1>4 DEF Alone

\* The events of its socket leave the phone alone.
LEMMA EventAlone ==
  ASSUME Inv, Alone, NEW k \in Sockets,
         Open(k) \/ ConnectFailed(k) \/ AuthOk(k) \/ Refused(k)
  PROVE  Alone'
<1>0. Globals \in State /\ TypeOK /\ SocketsSound(Globals)
  BY InvParts DEF Fine, Inv, Sound
<1>1. sock[k] \in {"connecting", "open"}
  BY DEF Open, ConnectFailed, AuthOk, Refused
<1>2. /\ token # None /\ given[k] = token /\ at[k] = Mode(token)
      /\ ws = k /\ ~TurnedAway /\ ~suppress /\ ~authError /\ ~denied[k]
  BY <1>1, SocketIsAlone
<1>i. /\ offered[k] \in {None, given[k]}
      /\ sock[k] = "open" => offered[k] # None
  BY <1>0, <1>2, NoneAssumption DEF SocketsSound, Globals
<1>3. CASE Open(k)
  <2>1. /\ sock' = [sock EXCEPT ![k] = "open"]
        /\ UNCHANGED <<call, token, timer, stray, base, given, at, refused, ws,
                       suppress, authError, denied>>
    BY <1>0, <1>3 DEF Open, Becomes, State, Globals
  <2>2. offered'[k] # None
    <3>1. given[k] # None
      BY <1>2
    <3>2. CASE offered[k] = None
      <4>1. offered' = [offered EXCEPT ![k] = given[k]]
        BY <1>0, <1>2, <1>3, <3>2, NoneAssumption DEF Open, Becomes, State, Globals
      <4> QED
        BY <1>0, <3>1, <4>1 DEF TypeOK
    <3>3. CASE offered[k] # None
      <4>1. offered' = offered
        BY <1>0, <1>2, <1>3, <3>3 DEF Open, Becomes, State, Globals
      <4> QED
        BY <3>3, <4>1
    <3> QED
      BY <3>2, <3>3
  <2>3. ~TurnedAway' /\ sock'[k] = "open"
    BY <1>0, <1>2, <2>1 DEF TurnedAway, TypeOK
  <2>4. UnderWay'
    BY <2>2, <2>3 DEF UnderWay
  <2> QED
    BY <1>1, <1>2, <2>1, <2>3, <2>4, StillAlone
<1>4. CASE ConnectFailed(k)
  <2>1. /\ sock' = [sock EXCEPT ![k] = "closing"]
        /\ UNCHANGED <<call, token, timer, stray, base, given, at, refused, ws,
                       suppress, authError, denied>>
    BY <1>0, <1>2, <1>4 DEF ConnectFailed, Close, Becomes, State, Globals
  <2>2. ~TurnedAway' /\ sock'[k] = "closing"
    BY <1>0, <1>2, <2>1 DEF TurnedAway, TypeOK
  <2>3. UnderWay'
    BY <2>2 DEF UnderWay
  <2> QED
    BY <1>1, <1>2, <2>1, <2>2, <2>3, StillAlone
<1>5. CASE AuthOk(k)
  <2>1. /\ sock[k] = "open" /\ sock' = sock /\ authError' = FALSE
        /\ UNCHANGED <<call, token, timer, stray, base, given, at, refused, ws,
                       suppress, denied, offered>>
    BY <1>0, <1>5 DEF AuthOk, Becomes, State, Globals
  <2>2. sock' = [sock EXCEPT ![k] = "open"]
    BY <1>0, <2>1 DEF TypeOK
  <2>3. ~TurnedAway'
    BY <1>2, <2>1 DEF TurnedAway
  <2>4. UnderWay'
    BY <1>i, <2>1 DEF UnderWay
  <2> QED
    BY <1>1, <1>2, <2>1, <2>2, <2>3, <2>4, StillAlone
<1>6. CASE Refused(k)
  <2>1. /\ offered[k] = token /\ refused' = refused \cup {token} /\ UNCHANGED call
    BY <1>2, <1>6, <1>i DEF Refused
  <2>2. CASE at[k] = "relay"
    <3>1. /\ sock' = [sock EXCEPT ![k] = "closing"]
          /\ UNCHANGED <<token, timer, stray, base, given, at, suppress,
                         authError, denied>>
      BY <1>0, <1>6, <2>2 DEF Refused, Becomes, State, Globals
    <3>2. ~TurnedAway'
      BY <1>2, <2>2, <3>1 DEF TurnedAway, Mode
    <3>3. sock'[k] = "closing"
      BY <1>0, <3>1 DEF TypeOK
    <3>4. UnderWay'
      BY <3>3 DEF UnderWay
    <3> QED
      BY <1>1, <1>2, <2>1, <3>1, <3>2, <3>4, StillAlone
  <2>3. CASE at[k] # "relay"
    <3>1. /\ sock' = [sock EXCEPT ![k] = "closing"] /\ timer' = FALSE
          /\ suppress' = TRUE /\ UNCHANGED <<token, stray, base, given, at>>
      <4> DEFINE e == [Globals EXCEPT !.sock[k] = "closing", !.denied[k] = TRUE,
                                      !.authError = TRUE]
      <4>1. Becomes(Disconnect(e))
        BY <1>6, <2>3 DEF Refused
      <4>s. e \in State
        BY <1>0 DEF State
      <4>f. /\ e.ws = k /\ e.sock = [sock EXCEPT ![k] = "closing"]
            /\ e.token = token /\ e.stray = stray /\ e.base = base
            /\ e.given = given /\ e.at = at
        BY <1>2 DEF Globals
      <4>k. e.sock[k] = "closing"
        BY <1>0, <4>f DEF TypeOK
      <4>2. /\ e \in State /\ e.ws = k /\ e.sock = [sock EXCEPT ![k] = "closing"]
            /\ e.sock[k] = "closing"
            /\ e.token = token /\ e.stray = stray /\ e.base = base
            /\ e.given = given /\ e.at = at
        BY <4>s, <4>f, <4>k
      <4> HIDE DEF e
      <4>3. Disconnect(e) = [e EXCEPT !.timer = FALSE, !.suppress = TRUE, !.ws = None,
                                      !.status = "disconnected"]
        BY <4>2 DEF Disconnect, Close
      <4> QED
        BY <4>1, <4>2, <4>3 DEF Becomes, State
    <3>2. TurnedAway'
      BY <1>2, <2>1, <2>3, <3>1 DEF TurnedAway, Mode
    <3>3. timer' = timer
      BY <1>1, <3>1, SocketIsAlone
    <3> QED
      BY <1>1, <2>1, <3>1, <3>2, <3>3, StillAlone
  <2> QED
    BY <2>2, <2>3
<1> QED
  BY <1>3, <1>4, <1>5, <1>6

\* Its close event does: the socket is gone, and a retry is scheduled unless
\* the agent has refused the token.
LEMMA CloseAlone ==
  ASSUME Inv, Alone, NEW k \in Sockets, CloseEvent(k)
  PROVE  Alone'
<1>0. Globals \in State /\ TypeOK
  BY InvParts DEF Fine, Inv
<1>1. sock[k] = "closing" /\ UNCHANGED <<call, refused>>
  BY DEF CloseEvent
<1>2. /\ token # None /\ timer = FALSE /\ stray = 0
      /\ \A c \in Calls : call[c] = Idle
      /\ \A j \in Sockets : j # k => sock[j] = "closed"
      /\ TurnedAway => suppress
      /\ denied[k] => TurnedAway
      /\ base \in {None, Mode(token)}
      /\ suppress \/ authError => TurnedAway
  BY <1>1, SocketIsAlone
<1>3. /\ sock' = [sock EXCEPT ![k] = "closed"]
      /\ UNCHANGED <<token, base>>
  <2>1. CASE suppress
    BY <1>0, <2>1 DEF CloseEvent, Becomes, State, Globals
  <2>2. CASE ~suppress /\ (authError \/ denied[k])
    BY <1>0, <2>2 DEF CloseEvent, Becomes, State, Globals
  <2>3. CASE ~suppress /\ ~(authError \/ denied[k])
    BY <1>0, <2>3 DEF CloseEvent, Schedule, Becomes, State, Globals
  <2> QED
    BY <2>1, <2>2, <2>3
<1>4. \A j \in Sockets : sock'[j] = "closed"
  BY <1>0, <1>2, <1>3 DEF TypeOK
<1>5. TurnedAway' <=> TurnedAway
  BY <1>1, <1>3 DEF TurnedAway
<1>6. CASE suppress
  <2>1. UNCHANGED <<timer, stray, authError>> /\ suppress' = FALSE
    BY <1>0, <1>6 DEF CloseEvent, Becomes, State, Globals
  <2> QED
    BY <1>1, <1>2, <1>3, <1>4, <1>5, <1>6, <2>1 DEF Alone
<1>7. CASE ~suppress
  <2>1. ~TurnedAway /\ ~authError /\ ~denied[k]
    BY <1>2, <1>7
  <2>2. timer' = TRUE /\ stray' = 0 /\ ~suppress' /\ ~authError'
    BY <1>0, <1>2, <1>7, <2>1 DEF CloseEvent, Schedule, Becomes, State, Globals
  <2>3. UnderWay'
    BY <2>2 DEF UnderWay
  <2> QED
    BY <1>1, <1>2, <1>3, <1>4, <1>5, <2>1, <2>2, <2>3 DEF Alone
<1> QED
  BY <1>6, <1>7

\* The server's steps do.
LEMMA ServerAlone ==
  ASSUME Inv, Alone, ServerDown \/ ServerUp \/ \E t \in Tokens : Invalidate(t)
  PROVE  Alone'
<1>0. TypeOK
  BY DEF Inv
<1>1. UNCHANGED <<token, stray, timer, suppress, authError, base, call, refused,
                  given, at, denied, ws>>
  BY DEF ServerDown, ServerUp, Invalidate, ui
<1>2. TurnedAway' <=> TurnedAway
  BY <1>1 DEF TurnedAway
<1>3. CASE ServerDown
  <2>1. \A k \in Sockets : sock'[k] = IF sock[k] = "open" THEN "closing" ELSE sock[k]
    BY <1>3 DEF ServerDown
  <2>2. ~TurnedAway /\ token # None => UnderWay'
    <3> SUFFICES ASSUME ~TurnedAway, token # None PROVE UnderWay'
      OBVIOUS
    <3>1. UnderWay
      BY DEF Alone
    <3>2. CASE \E k \in Sockets : \/ sock[k] \in {"connecting", "closing"}
                                  \/ sock[k] = "open" /\ offered[k] # None
      <4>1. PICK k \in Sockets : sock[k] \in {"connecting", "closing", "open"}
        BY <3>2
      <4>2. sock'[k] \in {"connecting", "closing"}
        BY <2>1, <4>1
      <4> QED
        BY <4>2 DEF UnderWay
    <3>3. CASE timer \/ stray > 0 \/ \E c \in Calls : ~Free(c)
      BY <1>1, <3>3 DEF UnderWay, Free
    <3> QED
      BY <3>1, <3>2, <3>3 DEF UnderWay
  <2>3. \A k \in Sockets :
          /\ sock'[k] = "closed" <=> sock[k] = "closed"
          /\ sock'[k] # "closing" => sock'[k] = sock[k]
    BY <2>1
  <2>4. ASSUME NEW k \in Sockets, sock'[k] # "closed"
        PROVE  /\ token # None /\ given[k] = token /\ at[k] = Mode(token) /\ ~timer
               /\ \A j \in Sockets : sock'[j] # "closed" => j = k
               /\ sock'[k] # "closing" => ws = k /\ ~TurnedAway
               /\ TurnedAway => suppress
               /\ denied[k] => TurnedAway
    BY <2>3, <2>4 DEF Alone
  <2>5. ASSUME NEW c \in Calls, call[c] # Idle
        PROVE  /\ token # None /\ Mode(token) = "local" /\ ~timer /\ ~TurnedAway
               /\ call[c].does = "probe" /\ call[c].with = token
               /\ \A d \in Calls : call[d] # Idle => c = d
               /\ \A k \in Sockets : sock'[k] = "closed"
    BY <2>3, <2>5 DEF Alone
  <2>6. /\ stray = 0
        /\ token = None => base = None /\ refused = {} /\ ~timer
        /\ token # None => base \in {None, Mode(token)}
        /\ suppress \/ authError => TurnedAway
        /\ timer => ~TurnedAway
    BY DEF Alone
  <2> QED
    BY <1>1, <1>2, <2>2, <2>4, <2>5, <2>6 DEF Alone
<1>4. CASE ServerUp \/ \E t \in Tokens : Invalidate(t)
  <2>1. UNCHANGED <<sock, offered>>
    BY <1>4 DEF ServerUp, Invalidate, ui
  <2>2. UnderWay' <=> UnderWay
    BY <1>1, <2>1 DEF UnderWay, Free
  <2> QED
    BY <1>1, <1>2, <2>1, <2>2 DEF Alone
<1> QED
  BY <1>3, <1>4

\* Every step of a phone whose user only loads the page leaves it alone.
LEMMA NextAlone ==
  ASSUME Acts = {"reload"}, Inv, Alone, [Next]_vars
  PROVE  Alone'
<1>1. CASE UNCHANGED vars
  <2>1. TurnedAway' <=> TurnedAway
    BY <1>1 DEF vars, ui, TurnedAway
  <2>2. UnderWay' <=> UnderWay
    BY <1>1 DEF vars, ui, UnderWay, Free
  <2> QED
    BY <1>1, <2>1, <2>2 DEF vars, ui, Alone
<1>2. CASE \E k \in Sockets, c \in Calls :
             \/ Mount(k, c) \/ RetryTimer(k, c) \/ StrayTimer(k, c)
             \/ ProbeOk(c, k) \/ SwitchGoesOn(c, k)
             \/ \E t \in Tokens : Pair(t, k, c) \/ Scan(t, k, c)
  <2>1. \A k \in Sockets, c \in Calls, t \in Tokens :
          ~Pair(t, k, c) /\ ~Scan(t, k, c)
    BY DEF Pair, Scan
  <2>2. \A k \in Sockets, c \in Calls : ~StrayTimer(k, c)
    BY DEF StrayTimer, Alone
  <2>3. \A k \in Sockets, c \in Calls : ~SwitchGoesOn(c, k)
    BY DEF SwitchGoesOn, Alone, Idle
  <2> QED
    BY <1>2, <2>1, <2>2, <2>3, UserAlone, ProbeAlone
<1>3. CASE \E k \in Sockets :
             \/ Open(k) \/ ConnectFailed(k) \/ AuthOk(k) \/ Refused(k)
             \/ CloseEvent(k)
  BY <1>3, EventAlone, CloseAlone
<1>4. CASE ServerDown \/ ServerUp \/ \E t \in Tokens : Invalidate(t)
  BY <1>4, ServerAlone
<1>5. CASE \E t \in Tokens, c \in Calls : Switch(t, c)
  BY <1>5 DEF Switch
<1>6. CASE Reload \/ Clear \/ \E c \in Calls : ProbeFailed(c)
  <2>1. ~Clear
    BY DEF Clear
  <2> QED
    BY <1>6, <2>1, UserAlone, ProbeAlone
<1> QED
  BY <1>1, <1>2, <1>3, <1>4, <1>5, <1>6 DEF Next

\* It is alone in every state.
LEMMA AloneHolds == Acts = {"reload"} => (Spec => [](Inv /\ Alone))
<1> SUFFICES ASSUME Acts = {"reload"} PROVE Spec => [](Inv /\ Alone)
  OBVIOUS
<1>1. Init => Alone
  BY DEF Init, Alone, TurnedAway
<1>2. Inv /\ Alone /\ [Next]_vars => Alone'
  BY NextAlone
<1> QED
  BY <1>1, <1>2, InvHolds, PTL DEF Spec

\* When the user does nothing but load the page, its retries never run
\* beside each other.
THEOREM ReloadsKeepOneSocket == Acts = {"reload"} => (Spec => []OneSocket)
<1> SUFFICES ASSUME Acts = {"reload"} PROVE Spec => []OneSocket
  OBVIOUS
<1>1. Inv /\ Alone => OneSocket
  BY DEF Alone, OneSocket
<1> QED
  BY <1>1, AloneHolds, PTL

\* Its open socket has been sent the token: none waits for ever to be let in.
THEOREM ReloadsAreOffered == Acts = {"reload"} => (Spec => []AuthIsOffered)
<1> SUFFICES ASSUME Acts = {"reload"} PROVE Spec => []AuthIsOffered
  OBVIOUS
<1>1. ASSUME Inv, Alone PROVE AuthIsOffered
  <2> SUFFICES ASSUME NEW k \in Sockets, sock[k] = "open" PROVE offered[k] # None
    BY DEF AuthIsOffered
  <2>1. ws = k
    BY <1>1 DEF Alone
  <2> QED
    BY <1>1, <2>1, NoneAssumption DEF Inv, Sound, SocketsSound, Globals
<1> QED
  BY <1>1, AloneHolds, PTL

\* It does not offer a token again that the agent has refused.
THEOREM ReloadsRest == Acts = {"reload"} => (Spec => []AgentRefusalRests)
<1> SUFFICES ASSUME Acts = {"reload"} PROVE Spec => []AgentRefusalRests
  OBVIOUS
<1>1. Inv /\ Alone => AgentRefusalRests
  BY DEF Alone, TurnedAway, AgentRefusalRests, Resting, Free
<1> QED
  BY <1>1, AloneHolds, PTL

\* And with any other token it is connected or on its way.
THEOREM ReloadsNeverStrand == Acts = {"reload"} => (Spec => []NeverStranded)
<1> SUFFICES ASSUME Acts = {"reload"} PROVE Spec => []NeverStranded
  OBVIOUS
<1>1. Inv /\ Alone => NeverStranded
  BY DEF Alone, TurnedAway, NeverStranded
<1> QED
  BY <1>1, AloneHolds, PTL

-----------------------------------------------------------------------------
(* The chat.                                                               *)

\* What is said of the histories while no page that was left has written one:
\* each message is where it belongs, and so is what is shown.
HomeSound ==
  /\ \A k \in Key : \A m \in saved[k] : home[m] \in {k, Session}
  /\ \A m \in shown : home[m] \in {KeyOf(active), Session}

\* The inductive invariant.  The workspace that is active is the one that is
\* stored; what an agent said belongs to a workspace.
ChatInv ==
  /\ ChatTypeOK
  /\ active = choice
  /\ \A m \in log : home[m] \in Workspaces
  /\ mounted = "settings" => shown = {}
  /\ ScreenIsSaved
  /\ ~haunted => HomeSound

\* A workspace, or none, has a key.
LEMMA KeyOfType ==
  ASSUME NEW w \in Workspaces \cup {Nothing}
  PROVE  /\ KeyOf(w) \in Key
         /\ w # Nothing => KeyOf(w) = w
         /\ w = Nothing => KeyOf(w) = Session
  BY DEF KeyOf, Key

\* No workspace, and no key, is Nothing.
LEMMA NothingIsNoKey ==
  Nothing \notin Workspaces /\ Nothing \notin Key /\ Session \notin Workspaces
  BY ChatAssumption DEF Key

\* The choice is left as it is when there is one.
LEMMA SyncKeeps ==
  ASSUME ChatInv, NEW list \in SUBSET Workspaces, Sync(list)
  PROVE  /\ active' \in Workspaces \cup {Nothing} /\ active' = choice' /\ rw' = list
         /\ active # Nothing => active' = active
<1>1. choice \in Workspaces \cup {Nothing} /\ active = choice
  BY DEF ChatInv, ChatTypeOK
<1> QED
  BY <1>1 DEF Sync, SetActive

\* What a page takes in is shown, is saved or about to be, and belongs to the
\* workspace: a switch that a status brings is one from none.
LEMMA TakeKeeps ==
  ASSUME ChatInv, NEW ms \in SUBSET Message, Take(ms),
         connected' \in BOOLEAN, rw' \in SUBSET Workspaces,
         active' \in Workspaces \cup {Nothing}, active' = choice',
         home' \in [Message -> Key \cup {Nothing}], log' \in SUBSET Message,
         \A m \in log' : home'[m] \in Workspaces,
         \A m \in Message : home[m] # Nothing => home'[m] = home[m],
         \A m \in ms : home'[m] = KeyOf(active'),
         active = Nothing \/ active' = active \/ ms = {}
  PROVE  ChatInv'
<1> DEFINE new == IF mounted = "settings" THEN {} ELSE ms
           all == shown \cup new
           key == KeyOf(active')
<1>1. /\ saved' = IF mounted = "chat" /\ new # {} THEN [saved EXCEPT ![key] = all] ELSE saved
      /\ saveTimer' = (saveTimer \/ (mounted = "index" /\ new # {}))
      /\ shown' = IF Switched /\ mounted # "settings" THEN saved'[key] ELSE all
      /\ UNCHANGED <<mounted, ghost, haunted>>
  BY DEF Take, Show
<1>2. /\ saved \in [Key -> SUBSET Message] /\ shown \in SUBSET Message
      /\ home \in [Message -> Key \cup {Nothing}] /\ mounted \in Page
      /\ active \in Workspaces \cup {Nothing}
  BY DEF ChatInv, ChatTypeOK
<1>3. /\ key \in Key /\ KeyOf(active) \in Key /\ all \in SUBSET Message
      /\ new \in SUBSET ms
  BY <1>2, KeyOfType
<1>4. typing' \in BOOLEAN /\ deadline' \in {"none", "ahead", "passed"}
  BY DEF Take, TypingStops, ChatInv, ChatTypeOK
<1> HIDE DEF new, all, key
<1>5. saved' \in [Key -> SUBSET Message]
  BY <1>1, <1>2, <1>3
<1>6. shown' \in SUBSET Message
  BY <1>1, <1>3, <1>5
<1>7. ChatTypeOK'
  BY <1>1, <1>4, <1>5, <1>6 DEF ChatInv, ChatTypeOK
<1>8. mounted' = "settings" => shown' = {}
  BY <1>1 DEF ChatInv, new, all
<1>9. ScreenIsSaved'
  <2> SUFFICES ASSUME ~haunted, mounted # "settings",
                      ~(mounted = "index" /\ saveTimer')
               PROVE  shown' = saved'[key]
    BY <1>1 DEF ScreenIsSaved, key
  <2>1. CASE Switched
    BY <1>1, <2>1
  <2>2. CASE ~Switched
    <3>1. key = KeyOf(active) /\ shown' = all
      BY <1>1, <2>2 DEF Switched, key
    <3>2. CASE new = {}
      <4>1. saved' = saved /\ all = shown /\ ~(mounted = "index" /\ saveTimer)
        BY <1>1, <3>2 DEF all
      <4> QED
        BY <3>1, <4>1 DEF ChatInv, ScreenIsSaved
    <3>3. CASE new # {}
      <4>1. mounted = "chat"
        BY <1>1, <1>2, <3>3 DEF Page
      <4> QED
        BY <1>1, <1>2, <1>3, <3>1, <3>3, <4>1
    <3> QED
      BY <3>2, <3>3
  <2> QED
    BY <2>1, <2>2
<1>10. ASSUME ~haunted PROVE HomeSound'
  <2>1. HomeSound
    BY <1>10 DEF ChatInv
  <2>2. \A k \in Key : \A m \in saved[k] : home'[m] \in {k, Session}
    <3> TAKE k \in Key
    <3> TAKE m \in saved[k]
    <3>1. m \in Message /\ home[m] \in {k, Session}
      BY <1>2, <2>1 DEF HomeSound
    <3>2. home[m] # Nothing
      BY <3>1, NothingIsNoKey DEF Key
    <3> QED
      BY <3>1, <3>2
  <2>3. \A m \in shown : home'[m] \in {KeyOf(active), Session}
    <3> TAKE m \in shown
    <3>1. m \in Message /\ home[m] \in {KeyOf(active), Session}
      BY <1>2, <2>1 DEF HomeSound
    <3>2. home[m] # Nothing
      BY <1>3, <3>1, NothingIsNoKey DEF Key
    <3> QED
      BY <3>1, <3>2
  <2>4. new = {} \/ \A m \in all : home'[m] \in {key, Session}
    <3> SUFFICES ASSUME new # {} PROVE \A m \in all : home'[m] \in {key, Session}
      OBVIOUS
    <3>1. KeyOf(active) = Session \/ KeyOf(active) = key
      BY <1>3, KeyOfType DEF key
    <3>2. \A m \in new : home'[m] = key
      BY <1>3 DEF key
    <3> QED
      BY <2>3, <3>1, <3>2 DEF all
  <2>5. \A k \in Key : \A m \in saved'[k] : home'[m] \in {k, Session}
    <3> TAKE k \in Key
    <3>1. CASE saved'[k] = saved[k]
      BY <2>2, <3>1
    <3>2. CASE saved'[k] # saved[k]
      <4>1. k = key /\ saved'[k] = all /\ new # {}
        BY <1>1, <1>2, <1>3, <3>2
      <4> QED
        BY <2>4, <4>1
    <3> QED
      BY <3>1, <3>2
  <2>6. \A m \in shown' : home'[m] \in {key, Session}
    <3>1. CASE Switched /\ mounted # "settings"
      BY <1>1, <1>3, <2>5, <3>1
    <3>2. CASE mounted = "settings"
      BY <1>1, <1>8, <3>2
    <3>3. CASE ~Switched
      BY <1>1, <2>3, <2>4, <3>3 DEF Switched, key, all
    <3> QED
      BY <3>1, <3>2, <3>3
  <2> QED
    BY <2>5, <2>6 DEF HomeSound, key
<1> QED
  BY <1>1, <1>7, <1>8, <1>9, <1>10 DEF ChatInv

\* The answer of the relay, and the histories it holds.
LEMMA HistoryHome ==
  ASSUME ChatInv, active' \in Workspaces \cup {Nothing}
  PROVE  History \in SUBSET Message /\ \A m \in History : home[m] = KeyOf(active')
<1>1. \A m \in History : m \in log /\ home[m] = active' /\ home[m] \in Workspaces
  BY DEF History, ChatInv
<1>2. \A m \in History : active' # Nothing
  BY <1>1, NothingIsNoKey
<1> QED
  BY <1>1, <1>2, KeyOfType DEF ChatInv, ChatTypeOK

\* The bridge hears of the workspaces.
LEMMA BridgeKeeps ==
  ASSUME ChatInv,
         \/ \E list \in SUBSET Workspaces : Authenticated(list) \/ StatusAnswer(list)
         \/ \E w \in Workspaces : WorkspaceConnected(w) \/ WorkspaceDisconnected(w)
  PROVE  ChatInv'
<1>1. PICK list \in SUBSET Workspaces, ms \in {History, {}} :
        /\ Sync(list) /\ Take(ms)
        /\ connected' \in BOOLEAN
        /\ UNCHANGED <<home, log>>
  <2>1. CASE \E list \in SUBSET Workspaces : Authenticated(list) \/ StatusAnswer(list)
    BY <2>1 DEF Authenticated, StatusAnswer, ChatInv, ChatTypeOK
  <2>2. CASE \E w \in Workspaces : WorkspaceConnected(w) \/ WorkspaceDisconnected(w)
    <3>1. PICK w \in Workspaces : WorkspaceConnected(w) \/ WorkspaceDisconnected(w)
      BY <2>2
    <3>2. (rw \cup {w}) \in SUBSET Workspaces /\ (rw \ {w}) \in SUBSET Workspaces
      BY DEF ChatInv, ChatTypeOK
    <3> QED
      BY <3>1, <3>2
      DEF WorkspaceConnected, WorkspaceDisconnected, ChatInv, ChatTypeOK
  <2> QED
    BY <2>1, <2>2
<1>2. /\ active' \in Workspaces \cup {Nothing} /\ active' = choice' /\ rw' = list
      /\ active # Nothing => active' = active
  BY <1>1, SyncKeeps
<1>3. ms \in SUBSET Message /\ \A m \in ms : home[m] = KeyOf(active')
  BY <1>2, HistoryHome
<1>4. /\ home \in [Message -> Key \cup {Nothing}] /\ log \in SUBSET Message
      /\ \A m \in log : home[m] \in Workspaces
  BY DEF ChatInv, ChatTypeOK
<1>5. /\ rw' \in SUBSET Workspaces
      /\ home' \in [Message -> Key \cup {Nothing}] /\ log' \in SUBSET Message
      /\ \A m \in log' : home'[m] \in Workspaces
      /\ \A m \in Message : home[m] # Nothing => home'[m] = home[m]
      /\ \A m \in ms : home'[m] = KeyOf(active')
      /\ active = Nothing \/ active' = active \/ ms = {}
  BY <1>1, <1>2, <1>3, <1>4
<1> QED
  BY <1>1, <1>2, <1>3, <1>5, TakeKeeps

\* The user chooses a workspace.
LEMMA ChooseKeeps == ASSUME ChatInv, NEW w \in Workspaces, Choose(w) PROVE ChatInv'
<1>1. /\ Take({}) /\ active' = w /\ choice' = w
      /\ UNCHANGED <<connected, rw, home, log>>
  BY DEF Choose, SetActive
<1>2. /\ connected' \in BOOLEAN /\ rw' \in SUBSET Workspaces
      /\ home' \in [Message -> Key \cup {Nothing}] /\ log' \in SUBSET Message
      /\ \A m \in log' : home'[m] \in Workspaces
      /\ \A m \in Message : home[m] # Nothing => home'[m] = home[m]
  BY <1>1 DEF ChatInv, ChatTypeOK
<1> QED
  BY <1>1, <1>2, TakeKeeps

\* An agent answers.
LEMMA AnswerKeeps ==
  ASSUME ChatInv, NEW m \in Message, NEW w \in Workspaces, Answer(m, w)
  PROVE  ChatInv'
<1> DEFINE ms == IF connected /\ w = active THEN {m} ELSE {}
<1>1. /\ home[m] = Nothing /\ home' = [home EXCEPT ![m] = w] /\ log' = log \cup {m}
      /\ UNCHANGED <<connected, rw, active, choice>> /\ Take(ms)
  BY DEF Answer, bridge
<1>2. /\ home \in [Message -> Key \cup {Nothing}] /\ log \in SUBSET Message
      /\ \A n \in log : home[n] \in Workspaces
      /\ connected \in BOOLEAN /\ rw \in SUBSET Workspaces
      /\ active \in Workspaces \cup {Nothing} /\ active = choice
  BY DEF ChatInv, ChatTypeOK
<1>3. \A n \in Message : home'[n] = IF n = m THEN w ELSE home[n]
  BY <1>1, <1>2
<1>4. ms \in SUBSET Message /\ \A n \in ms : home'[n] = KeyOf(active')
  BY <1>1, <1>3, KeyOfType, NothingIsNoKey
<1> HIDE DEF ms
<1>5. /\ connected' \in BOOLEAN /\ rw' \in SUBSET Workspaces
      /\ active' \in Workspaces \cup {Nothing} /\ active' = choice'
      /\ active' = active
  BY <1>1, <1>2
<1>6. home' \in [Message -> Key \cup {Nothing}]
  BY <1>1, <1>2 DEF Key
<1>7. log' \in SUBSET Message /\ \A n \in log' : home'[n] \in Workspaces
  BY <1>1, <1>2, <1>3
<1>8. \A n \in Message : home[n] # Nothing => home'[n] = home[n]
  BY <1>1, <1>3
<1> QED
  BY <1>1, <1>4, <1>5, <1>6, <1>7, <1>8, TakeKeeps

\* The sign that the AI is typing.
LEMMA TypingType ==
  ASSUME ChatInv, Typing \/ TypingStops
  PROVE  typing' \in BOOLEAN /\ deadline' \in {"none", "ahead", "passed"}
  BY DEF Typing, TypingStops, ChatInv, ChatTypeOK

\* A step that writes no history and leaves alone what is shown, or takes it
\* from the history it is now of.
LEMMA ScreenKeeps ==
  ASSUME ChatInv, UNCHANGED <<home, log, saved, haunted>>,
         connected' \in BOOLEAN, rw' \in SUBSET Workspaces,
         active' = active, choice' = choice, mounted' \in Page,
         typing' \in BOOLEAN, deadline' \in {"none", "ahead", "passed"},
         saveTimer' \in BOOLEAN, ghost' = Nothing \/ ghost' \in SUBSET Message,
         \/ mounted' = mounted /\ shown' = shown /\ saveTimer' = saveTimer
         \/ mounted' = "index" /\ mounted = mounted' /\ shown' = shown /\ saveTimer'
         \/ mounted' = "settings" /\ shown' = {}
         \/ mounted' # "settings" /\ shown' = saved[KeyOf(active)]
  PROVE  ChatInv'
<1>1. KeyOf(active) \in Key /\ saved[KeyOf(active)] \in SUBSET Message
  BY KeyOfType DEF ChatInv, ChatTypeOK
<1>2. ChatTypeOK'
  BY <1>1 DEF ChatInv, ChatTypeOK
<1>3. mounted' = "settings" => shown' = {}
  BY DEF ChatInv
<1>4. ScreenIsSaved'
  BY DEF ChatInv, ScreenIsSaved
<1>5. ~haunted => HomeSound'
  BY <1>1 DEF ChatInv, HomeSound
<1> QED
  BY <1>2, <1>3, <1>4, <1>5 DEF ChatInv

LEMMA QuietKeeps ==
  ASSUME ChatInv,
         \/ AiTyping \/ AdapterExit \/ Disconnected \/ ToSettings \/ ToIndex
         \/ Late \/ TypingTimeout \/ \E p \in Page : LoadPage(p)
  PROVE  ChatInv'
<1>1. /\ UNCHANGED <<home, log, saved, haunted>>
      /\ choice' = choice /\ active' = active
  BY DEF AiTyping, AdapterExit, Disconnected, ToSettings, ToIndex, Late,
         TypingTimeout, LoadPage, bridge, ChatInv
<1>2. /\ connected \in BOOLEAN /\ rw \in SUBSET Workspaces /\ mounted \in Page
      /\ saveTimer \in BOOLEAN /\ (ghost = Nothing \/ ghost \in SUBSET Message)
      /\ typing \in BOOLEAN /\ deadline \in {"none", "ahead", "passed"}
      /\ shown \in SUBSET Message /\ active = choice
  BY DEF ChatInv, ChatTypeOK
<1>3. typing' \in BOOLEAN /\ deadline' \in {"none", "ahead", "passed"}
  BY <1>2, TypingType
  DEF AiTyping, AdapterExit, Disconnected, ToSettings, ToIndex, Late, TypingTimeout,
      LoadPage, TypingStops
<1>4. /\ connected' \in BOOLEAN /\ rw' \in SUBSET Workspaces /\ mounted' \in Page
      /\ saveTimer' \in BOOLEAN /\ (ghost' = Nothing \/ ghost' \in SUBSET Message)
  BY <1>2
  DEF AiTyping, AdapterExit, Disconnected, ToSettings, ToIndex, Late, TypingTimeout,
      LoadPage, bridge, Page, GivesUp
<1>5. \/ mounted' = mounted /\ shown' = shown /\ saveTimer' = saveTimer
      \/ mounted' = "index" /\ mounted = mounted' /\ shown' = shown /\ saveTimer'
      \/ mounted' = "settings" /\ shown' = {}
      \/ mounted' # "settings" /\ shown' = saved[KeyOf(active)]
  BY <1>2
  DEF AiTyping, AdapterExit, Disconnected, ToSettings, ToIndex, Late,
      TypingTimeout, LoadPage, GivesUp
<1> QED
  BY <1>1, <1>3, <1>4, <1>5, ScreenKeeps

\* The user writes.
LEMMA SayKeeps == ASSUME ChatInv, NEW m \in Message, Say(m) PROVE ChatInv'
<1> DEFINE key == KeyOf(active)
           all == shown \cup {m}
<1>1. /\ home[m] = Nothing /\ mounted \in {"index", "chat"}
      /\ home' = [home EXCEPT ![m] = key]
      /\ shown' = all /\ saveTimer' = (saveTimer \/ mounted = "index")
      /\ saved' = IF mounted = "chat" THEN [saved EXCEPT ![key] = all] ELSE saved
      /\ UNCHANGED <<connected, rw, active, choice, log, mounted, ghost, haunted>>
  BY DEF Say, AppendUser, bridge
<1>2. /\ saved \in [Key -> SUBSET Message] /\ shown \in SUBSET Message
      /\ home \in [Message -> Key \cup {Nothing}]
      /\ \A n \in log : n \in Message /\ home[n] \in Workspaces
  BY DEF ChatInv, ChatTypeOK
<1>3. key \in Key /\ all \in SUBSET Message
  BY <1>2, KeyOfType DEF ChatInv, ChatTypeOK
<1>4. typing' \in BOOLEAN /\ deadline' \in {"none", "ahead", "passed"}
  BY TypingType DEF Say
<1> HIDE DEF key, all
<1>5. /\ saved' \in [Key -> SUBSET Message]
      /\ home' \in [Message -> Key \cup {Nothing}]
  BY <1>1, <1>2, <1>3
<1>6. ChatTypeOK'
  BY <1>1, <1>3, <1>4, <1>5 DEF ChatInv, ChatTypeOK
<1>7. \A n \in Message : home'[n] = IF n = m THEN key ELSE home[n]
  BY <1>1, <1>2
<1>8. \A n \in log' : home'[n] \in Workspaces
  BY <1>1, <1>2, <1>7, NothingIsNoKey
<1>9. ScreenIsSaved'
  BY <1>1, <1>2, <1>3 DEF ScreenIsSaved, key
<1>10. ASSUME ~haunted PROVE HomeSound'
  <2>1. HomeSound
    BY <1>10 DEF ChatInv
  <2>2. \A n \in all : home'[n] \in {key, Session}
    BY <1>2, <1>7, <2>1 DEF all, key, HomeSound
  <2>3. \A k \in Key : \A n \in saved[k] : home'[n] \in {k, Session}
    <3> TAKE k \in Key
    <3> TAKE n \in saved[k]
    <3>1. n \in Message /\ home[n] \in {k, Session}
      BY <1>2, <2>1 DEF HomeSound
    <3>2. n # m
      BY <1>1, <3>1, NothingIsNoKey DEF Key
    <3> QED
      BY <1>7, <3>1, <3>2
  <2>4. \A k \in Key : saved'[k] = saved[k] \/ (k = key /\ saved'[k] = all)
    BY <1>1, <1>2, <1>3
  <2> QED
    BY <1>1, <2>2, <2>3, <2>4 DEF HomeSound, key
<1> QED
  BY <1>1, <1>6, <1>8, <1>9, <1>10 DEF ChatInv

\* What is shown, or nothing, becomes the history.
LEMMA SaveKeeps == ASSUME ChatInv, SaveTimer \/ ClearChat \/ GhostTimeout PROVE ChatInv'
<1> DEFINE key == KeyOf(active)
<1>1. /\ UNCHANGED <<connected, rw, active, choice, home, log, mounted, typing, deadline>>
      /\ \/ /\ saved' = [saved EXCEPT ![key] = shown'] /\ UNCHANGED <<ghost, haunted>>
            /\ \/ shown' = shown /\ saveTimer' = FALSE
               \/ shown' = {} /\ saveTimer' = saveTimer
         \/ /\ ghost # Nothing /\ saved' = [saved EXCEPT ![key] = ghost]
            /\ UNCHANGED <<shown, saveTimer>>
            /\ ghost' = Nothing /\ haunted' = TRUE
  BY DEF SaveTimer, ClearChat, GhostTimeout, bridge
<1>2. /\ saved \in [Key -> SUBSET Message] /\ shown \in SUBSET Message
      /\ saveTimer \in BOOLEAN /\ key \in Key
  BY KeyOfType DEF ChatInv, ChatTypeOK
<1> HIDE DEF key
<1>3. CASE haunted' = TRUE /\ ghost # Nothing /\ saved' = [saved EXCEPT ![key] = ghost]
           /\ UNCHANGED <<shown, saveTimer>> /\ ghost' = Nothing
  <2>1. ghost \in SUBSET Message
    BY <1>3 DEF ChatInv, ChatTypeOK
  <2>2. saved' \in [Key -> SUBSET Message]
    BY <1>2, <1>3, <2>1
  <2>3. ChatTypeOK'
    BY <1>1, <1>3, <2>2 DEF ChatInv, ChatTypeOK
  <2> QED
    BY <1>1, <1>3, <2>3 DEF ChatInv, ScreenIsSaved
<1>4. CASE /\ saved' = [saved EXCEPT ![key] = shown'] /\ UNCHANGED <<ghost, haunted>>
           /\ \/ shown' = shown /\ saveTimer' = FALSE
              \/ shown' = {} /\ saveTimer' = saveTimer
  <2>1. /\ shown' \in SUBSET Message /\ shown' \subseteq shown
        /\ saveTimer' \in BOOLEAN
    BY <1>2, <1>4
  <2>2. /\ saved' \in [Key -> SUBSET Message]
        /\ \A k \in Key : saved'[k] = IF k = key THEN shown' ELSE saved[k]
    BY <1>2, <1>4, <2>1
  <2>3. ChatTypeOK'
    BY <1>1, <1>4, <2>1, <2>2 DEF ChatInv, ChatTypeOK
  <2>4. ScreenIsSaved'
    BY <1>1, <1>2, <2>2 DEF ScreenIsSaved, key
  <2>5. ~haunted => HomeSound'
    BY <1>1, <2>1, <2>2 DEF ChatInv, HomeSound, key
  <2> QED
    BY <1>1, <1>4, <2>1, <2>3, <2>4, <2>5 DEF ChatInv
<1> QED
  BY <1>1, <1>3, <1>4

\* Every step keeps the invariant.
LEMMA NextChatInv == ChatInv /\ [ChatNext]_chatVars => ChatInv'
<1> SUFFICES ASSUME ChatInv, [ChatNext]_chatVars PROVE ChatInv'
  OBVIOUS
<1>1. CASE UNCHANGED chatVars
  BY <1>1 DEF chatVars, bridge, view, ChatInv, ChatTypeOK, HomeSound, ScreenIsSaved
<1> QED
  BY <1>1, BridgeKeeps, ChooseKeeps, AnswerKeeps, QuietKeeps, SayKeeps,
     SaveKeeps
  DEF ChatNext

\* It is an invariant.
LEMMA ChatInvHolds == ChatSpec => []ChatInv
<1>1. ChatInit => ChatInv
  <2> SUFFICES ASSUME ChatInit PROVE ChatInv
    OBVIOUS
  <2>1. KeyOf(Nothing) = Session /\ Session \in Key
    BY DEF KeyOf, Key
  <2>2. ChatTypeOK
    BY DEF ChatInit, ChatTypeOK, Page
  <2>3. ScreenIsSaved
    BY <2>1 DEF ChatInit, ScreenIsSaved
  <2>4. HomeSound
    BY DEF ChatInit, HomeSound
  <2> QED
    BY <2>2, <2>3, <2>4 DEF ChatInit, ChatInv
<1> QED
  BY <1>1, NextChatInv, PTL DEF ChatSpec

\* What is on the screen is stored, or its save is pending: no path appends a
\* message that is never saved, for any number of workspaces and messages.
THEOREM ScreenAlwaysSaved == ChatSpec => []ScreenIsSaved
<1>1. ChatInv => ScreenIsSaved
  BY DEF ChatInv
<1> QED
  BY <1>1, ChatInvHolds, PTL

\* No switch, replay or late save of a page that is there stores a message
\* under another workspace.
THEOREM HistoryStaysHome == ChatSpec => []HistoryIsOfItsWorkspace
<1>1. ChatInv => HistoryIsOfItsWorkspace
  BY DEF ChatInv, HomeSound, HistoryIsOfItsWorkspace
<1> QED
  BY <1>1, ChatInvHolds, PTL

\* Only the user's choice leaves a workspace, in any order of statuses, frames
\* and page loads: an action property, from the invariant.
THEOREM ChoiceStays == ChatSpec => ChosenWorkspaceStays
<1>1. ASSUME ChatInv, [ChatNext]_chatVars,
             NEW w \in Workspaces, active = w, active' # w
      PROVE  \E v \in rw : Choose(v)
  <2>1. active # Nothing /\ active' # active /\ active = choice
    BY <1>1, NothingIsNoKey DEF ChatInv
  <2>2. \A list \in SUBSET Workspaces : ~Sync(list)
    BY <1>1, <2>1, SyncKeeps
  <2>3. rw \in SUBSET Workspaces
    BY <1>1 DEF ChatInv, ChatTypeOK
  <2>4. \A v \in Workspaces : /\ (rw \cup {v}) \in SUBSET Workspaces
                               /\ (rw \ {v}) \in SUBSET Workspaces
    BY <2>3
  <2>5. \A list \in SUBSET Workspaces : ~Authenticated(list) /\ ~StatusAnswer(list)
    BY <2>2 DEF Authenticated, StatusAnswer
  <2>6. \A v \in Workspaces : ~WorkspaceConnected(v) /\ ~WorkspaceDisconnected(v)
    BY <2>2, <2>4 DEF WorkspaceConnected, WorkspaceDisconnected
  <2>7. PICK v \in Workspaces : Choose(v)
    BY <1>1, <2>1, <2>5, <2>6
    DEF ChatNext, chatVars, bridge, Say, Answer, AiTyping, AdapterExit,
        Disconnected, ClearChat,
        ToSettings, ToIndex, LoadPage, SaveTimer, Late, TypingTimeout, GhostTimeout
  <2> QED
    BY <2>7 DEF Choose
<1>2. ChatInv /\ [ChatNext]_chatVars =>
        [\A w \in Workspaces :
           active = w /\ active' # w => \E v \in rw : Choose(v)]_chatVars
  BY <1>1
<1> QED
  BY <1>2, ChatInvHolds, PTL DEF ChatSpec, ChosenWorkspaceStays

-----------------------------------------------------------------------------
(* The target of a message.                                                *)

Orders == [type : {"create_terminal", "start_cli", "kill_cli"}, name : Names]

\* A frame that names something names what its type says.
FrameSound(f) ==
  /\ f.type = "ai_message" => f.of = "chat:devbridge"
  /\ f.type \in {"terminal_created", "cli_started", "terminal_closed"} =>
       f.of \in Names \cup {Null}

\* The inductive invariant: nothing else is on its way to the phone, and a CLI
\* is listed only where there is one.
PageInv ==
  /\ PageTypeOK
  /\ \A i \in DOMAIN wire : FrameSound(wire[i])
  /\ clis # {} => CliName \in Names
  /\ ChosenIsOffered
  /\ LaunchingIsTimed

\* Every terminal has a target, and no target of a terminal is a CLI.
LEMMA TargetOfType ==
  \A n \in Names : TargetOf[n] \in Targets /\ TargetOf[n] # "codex"
<1> TAKE n \in Names
<1>1. TargetOf[n] \in {"terminal:bash", "terminal:DevBridge 1",
                        "terminal:DevBridge Codex CLI"}
  BY DEF TargetOf
<1> QED
  BY <1>1 DEF Targets

\* Whatever the watchers of chatTargets find, what they leave is on offer.
LEMMA SettleOffers ==
  ASSUME NEW t \in Targets, NEW pin \in BOOLEAN, NEW s \in Targets \cup {Null},
         Settle(t, pin, s), page' \in {"index", "chat"},
         page' = "chat" => ~pin /\ s \in {t, Null}
  PROVE  /\ ChosenIsOffered'
         /\ target' \in Targets /\ pinned' \in BOOLEAN
         /\ kept' \in Targets \cup {Null}
<1> DEFINE onOffer == t \in IF page' = "index" THEN Offered(ide', clis')
                           ELSE Listed(ide')
           other == IF page' = "index" THEN "bash" ELSE "__new__"
<1>1. /\ target' = IF onOffer THEN t ELSE other
      /\ pinned' = (pin /\ onOffer)
      /\ kept' = IF onOffer \/ page' = "index" THEN s ELSE other
  BY DEF Settle
<1>2. other \in Targets
  BY DEF Targets
<1>3. target' \in Targets /\ pinned' \in BOOLEAN /\ kept' \in Targets \cup {Null}
  <2> HIDE DEF onOffer, other
  <2> QED
    BY <1>1, <1>2
<1>4. CASE page' = "index"
  <2>1. onOffer <=> t \in Offered(ide', clis')
    BY <1>4
  <2> HIDE DEF onOffer, other
  <2>2. pinned' => onOffer /\ target' = t
    BY <1>1
  <2>3. pinned' => target' \in Offered(ide', clis')
    BY <2>1, <2>2
  <2> QED
    BY <1>3, <1>4, <2>3 DEF ChosenIsOffered
<1>5. CASE page' = "chat"
  <2>1. "__new__" \in Listed(ide')
    BY DEF Listed
  <2>2. onOffer <=> t \in Listed(ide')
    BY <1>5
  <2>3. other = "__new__"
    BY <1>5
  <2> HIDE DEF onOffer, other
  <2>4. target' \in Listed(ide') /\ kept' \in {target', Null}
    BY <1>1, <1>5, <2>1, <2>2, <2>3
  <2>5. ~pinned'
    BY <1>1, <1>5
  <2> QED
    BY <1>3, <1>5, <2>4, <2>5 DEF ChosenIsOffered
<1> QED
  BY <1>3, <1>4, <1>5

\* The target stays, if it can.
LEMMA StaysOffers ==
  ASSUME PageInv, Stays, page' = page
  PROVE  /\ ChosenIsOffered'
         /\ target' \in Targets /\ pinned' \in BOOLEAN
         /\ kept' \in Targets \cup {Null}
<1>1. /\ target \in Targets /\ pinned \in BOOLEAN /\ kept \in Targets \cup {Null}
      /\ page \in {"index", "chat"}
      /\ page = "chat" => ~pinned /\ kept \in {target, Null}
  BY DEF PageInv, PageTypeOK, ChosenIsOffered
<1> QED
  BY <1>1, SettleOffers DEF Stays

\* A new target.
LEMMA ReplyTargetOffers ==
  ASSUME PageInv, page' = page, NEW t \in Targets, NEW pin \in BOOLEAN,
         SetReplyTarget(t, pin), page = "chat" => ~pin
  PROVE  /\ ChosenIsOffered'
         /\ target' \in Targets /\ pinned' \in BOOLEAN
         /\ kept' \in Targets \cup {Null}
  BY SettleOffers DEF SetReplyTarget, PageInv, PageTypeOK

\* An order is one more, or is dropped.
LEMMA OrderType ==
  ASSUME PageInv, NEW type \in {"create_terminal", "start_cli", "kill_cli"},
         NEW name \in Names, Order(type, name)
  PROVE  orders' \in Seq(Orders)
<1> DEFINE o == [type |-> type, name |-> name]
<1>1. o \in Orders /\ orders \in Seq(Orders)
  BY DEF Orders, PageInv, PageTypeOK
<1>2. orders' = IF Len(orders) < MaxOpen THEN Append(orders, o) ELSE orders
  BY DEF Order
<1> HIDE DEF o
<1> QED
  BY <1>1, <1>2

\* A frame is told that says what it may.
LEMMA TellType ==
  ASSUME PageInv, NEW f \in Frame, FrameSound(f), Tell(f)
  PROVE  wire' \in Seq(Frame) /\ \A i \in DOMAIN wire' : FrameSound(wire'[i])
<1>1. /\ wire \in Seq(Frame) /\ wire' = Append(wire, f)
      /\ \A i \in DOMAIN wire : FrameSound(wire[i])
  BY DEF PageInv, PageTypeOK, Tell
<1>2. /\ wire' \in Seq(Frame) /\ Len(wire') = Len(wire) + 1
      /\ \A i \in 1 .. Len(wire) : wire'[i] = wire[i]
      /\ wire'[Len(wire) + 1] = f
  BY <1>1, AppendProperties
<1> QED
  BY <1>1, <1>2

\* What the editor says of a terminal.
LEMMA HeardSound ==
  ASSUME NEW n \in Names,
         NEW type \in {"terminal_created", "cli_started", "terminal_closed"}
  PROVE  Heard(type, n) \in Frame /\ FrameSound(Heard(type, n))
  BY DEF Heard, Frame, FrameSound

\* There is room for one of a kind.
LEMMA OpenIsPositive == MaxOpen \in Nat /\ MaxOpen >= 1
<1>1. MaxOpen \in Nat /\ MaxOpen # 0
  BY PageAssumption, Zenon
<1> QED
  BY <1>1

\* One request more, up to the bound.
LEMMA AskType == ASSUME PageInv, Ask \/ UNCHANGED asks PROVE asks' \in 0 .. MaxOpen
<1>1. asks \in 0 .. MaxOpen
  BY DEF PageInv, PageTypeOK
<1> QED
  BY <1>1, OpenIsPositive DEF Ask

-----------------------------------------------------------------------------
(* A step keeps the invariant: the user.                                   *)

\* A step of the page that asks for nothing and hears nothing.
LEMMA ChoiceKeeps ==
  ASSUME PageInv, UNCHANGED <<statuses, mode, terms, snap, cache, wire, page>>,
         ChosenIsOffered', target' \in Targets, pinned' \in BOOLEAN,
         kept' \in Targets \cup {Null}, orders' \in Seq(Orders),
         launching' \in BOOLEAN, timers' \in 0 .. MaxOpen,
         launching' => page = "index" /\ timers' > 0
  PROVE  PageInv'
<1>1. PageTypeOK'
  BY DEF PageInv, PageTypeOK, statuses, Orders
<1>2. UNCHANGED <<wire, clis>> /\ LaunchingIsTimed'
  BY DEF statuses, LaunchingIsTimed
<1> QED
  BY <1>1, <1>2 DEF PageInv

LEMMA SelectKeeps == ASSUME PageInv, NEW t \in Targets, Select(t) PROVE PageInv'
<1>1. /\ page = "index" /\ t \in Offered(ide, clis) /\ page' = page
      /\ UNCHANGED <<statuses, mode, terms, snap, cache, wire, page>>
      /\ SetReplyTarget(t, TRUE)
      /\ IF t = "codex" /\ CliName \notin Known(ide) THEN LaunchCli
         ELSE UNCHANGED <<launching, timers, orders>>
  BY DEF Select
<1>2. /\ ChosenIsOffered'
      /\ target' \in Targets /\ pinned' \in BOOLEAN /\ kept' \in Targets \cup {Null}
  BY <1>1, ReplyTargetOffers
<1>3. /\ orders \in Seq(Orders) /\ launching \in BOOLEAN /\ timers \in 0 .. MaxOpen
      /\ MaxOpen \in Nat
      /\ launching => page = "index" /\ timers > 0
  BY OpenIsPositive DEF PageInv, PageTypeOK, Orders, LaunchingIsTimed
<1>4. CASE UNCHANGED <<launching, timers, orders>>
  BY <1>1, <1>2, <1>3, <1>4, ChoiceKeeps
<1>5. CASE t = "codex" /\ ~launching /\ timers # MaxOpen /\ launching' = TRUE
           /\ timers' = timers + 1 /\ Order("start_cli", CliName)
  <2>1. clis # {}
    <3>1. /\ ide = Null \/ ide \subseteq Names
          /\ "codex" \in Offered(ide, clis)
      BY <1>1, <1>5 DEF PageInv, PageTypeOK
    <3>2. \A n \in Known(ide) : TargetOf[n] # "codex"
      BY <3>1, TargetOfType DEF Known
    <3> QED
      BY <3>1, <3>2 DEF Offered
  <2>2. orders' \in Seq(Orders)
    BY <1>5, <2>1, OrderType DEF PageInv
  <2>3. timers' \in 0 .. MaxOpen /\ timers' > 0
    BY <1>3, <1>5
  <2> QED
    BY <1>1, <1>2, <1>5, <2>2, <2>3, ChoiceKeeps
<1> QED
  BY <1>1, <1>4, <1>5 DEF LaunchCli

LEMMA TerminalKeeps ==
  ASSUME PageInv, CreateNewTerminal \/ KillCli \/ \E n \in Names : SelectInChat(n)
  PROVE  PageInv'
<1>1. /\ orders \in Seq(Orders) /\ launching \in BOOLEAN /\ timers \in 0 .. MaxOpen
      /\ launching => page = "index" /\ timers > 0
      /\ target \in Targets /\ pinned \in BOOLEAN /\ kept \in Targets \cup {Null}
      /\ ide = Null \/ ide \subseteq Names
  BY DEF PageInv, PageTypeOK, Orders, LaunchingIsTimed
<1>2. CASE CreateNewTerminal
  <2>1. TargetOf["DevBridge 1"] \in Targets /\ "DevBridge 1" \in Names
    BY <1>2, TargetOfType DEF CreateNewTerminal
  <2>2. /\ ChosenIsOffered'
        /\ target' \in Targets /\ pinned' \in BOOLEAN
        /\ kept' \in Targets \cup {Null}
    BY <1>2, <2>1, ReplyTargetOffers DEF CreateNewTerminal
  <2>3. orders' \in Seq(Orders)
    BY <1>2, <2>1, OrderType DEF CreateNewTerminal
  <2> QED
    BY <1>1, <1>2, <2>2, <2>3, ChoiceKeeps DEF CreateNewTerminal
<1>3. CASE KillCli
  <2>1. CliName \in Names
    BY <1>1, <1>3 DEF KillCli, Known
  <2>2. orders' \in Seq(Orders)
    BY <1>3, <2>1, OrderType DEF KillCli
  <2>3. ChosenIsOffered'
    BY <1>3 DEF KillCli, chat, statuses, PageInv, ChosenIsOffered
  <2> QED
    BY <1>1, <1>3, <2>2, <2>3, ChoiceKeeps DEF KillCli, chat
<1>4. ASSUME NEW n \in Names, SelectInChat(n) PROVE PageInv'
  <2>1. /\ ChosenIsOffered'
        /\ target' \in Targets /\ pinned' \in BOOLEAN
        /\ kept' \in Targets \cup {Null}
    BY <1>4, TargetOfType, ReplyTargetOffers DEF SelectInChat
  <2>2. orders' \in Seq(Orders)
    BY <1>1, <1>4, OrderType DEF SelectInChat
  <2> QED
    BY <1>1, <1>4, <2>1, <2>2, ChoiceKeeps DEF SelectInChat
<1> QED
  BY <1>2, <1>3, <1>4

LEMMA LaunchTimerKeeps == ASSUME PageInv, LaunchTimer PROVE PageInv'
<1>0. timers \in 0 .. MaxOpen
  BY DEF PageInv, PageTypeOK
<1>1. timers' \in 0 .. MaxOpen /\ launching' = FALSE
  BY <1>0, OpenIsPositive DEF LaunchTimer
<1>2. UNCHANGED <<mode, terms, snap, cache, orders, wire, asks, answers, ide, clis,
                  page, target, pinned, kept>>
  BY DEF LaunchTimer, editor, statuses
<1> QED
  BY <1>1, <1>2 DEF PageInv, PageTypeOK, ChosenIsOffered, LaunchingIsTimed

-----------------------------------------------------------------------------
(* The editor, the agent and the relay.                                    *)

\* A step that the page does not see yet.
LEMMA EditorKeeps ==
  ASSUME PageInv, UNCHANGED <<mode, chat, ide, clis>>,
         terms' \in SUBSET Names, snap' \in SUBSET Names, UNCHANGED cache,
         orders' \in Seq(Orders),
         wire' \in Seq(Frame), \A i \in DOMAIN wire' : FrameSound(wire'[i]),
         asks' \in 0 .. MaxOpen, answers' \in Seq(SUBSET Names)
  PROVE  PageInv'
<1>1. UNCHANGED <<page, target, pinned, kept, launching, timers>>
  BY DEF chat
<1>2. PageTypeOK'
  BY <1>1 DEF PageInv, PageTypeOK, Orders
<1> QED
  BY <1>1, <1>2 DEF PageInv, ChosenIsOffered, LaunchingIsTimed

LEMMA EditorSteps ==
  ASSUME PageInv,
         \/ Obey \/ IdeSnapshot \/ AiMessage \/ ServeStatus
         \/ \E n \in Names : OpenTerminal(n) \/ CloseTerminal(n)
  PROVE  PageInv'
<1>1. /\ orders \in Seq(Orders) /\ terms \in SUBSET Names /\ snap \in SUBSET Names
      /\ cache \in SUBSET Names
      /\ wire \in Seq(Frame) /\ (\A i \in DOMAIN wire : FrameSound(wire[i]))
      /\ asks \in 0 .. MaxOpen /\ answers \in Seq(SUBSET Names)
  BY DEF PageInv, PageTypeOK, Orders
<1>2. CASE Obey
  <2>1. Head(orders) \in Orders /\ Tail(orders) \in Seq(Orders)
    BY <1>1, <1>2, HeadTailProperties DEF Obey
  <2>2. Head(orders).name \in Names
    BY <2>1 DEF Orders
  <2>3. /\ terms' \in SUBSET Names /\ orders' \in Seq(Orders)
        /\ UNCHANGED <<mode, statuses, chat, snap, cache>>
        /\ \/ UNCHANGED wire
           \/ \E type \in {"terminal_created", "cli_started", "terminal_closed"} :
                Tell(Heard(type, Head(orders).name))
    BY <1>1, <1>2, <2>1, <2>2 DEF Obey
  <2>4. wire' \in Seq(Frame) /\ \A i \in DOMAIN wire' : FrameSound(wire'[i])
    BY <1>1, <2>2, <2>3, HeardSound, TellType
  <2> QED
    BY <1>1, <2>3, <2>4, EditorKeeps DEF statuses
<1>3. CASE IdeSnapshot
  <2> DEFINE f == [type |-> "ide_snapshot", of |-> Null]
  <2>1. f \in Frame /\ FrameSound(f)
    BY DEF Frame, FrameSound
  <2>2. wire' \in Seq(Frame) /\ \A i \in DOMAIN wire' : FrameSound(wire'[i])
    BY <1>3, <2>1, TellType DEF IdeSnapshot
  <2> QED
    BY <1>1, <1>3, <2>2, EditorKeeps DEF IdeSnapshot, statuses
<1>4. CASE AiMessage
  <2> DEFINE f == [type |-> "ai_message", of |-> "chat:devbridge"]
  <2>1. f \in Frame /\ FrameSound(f)
    BY DEF Frame, FrameSound
  <2>2. wire' \in Seq(Frame) /\ \A i \in DOMAIN wire' : FrameSound(wire'[i])
    BY <1>4, <2>1, TellType DEF AiMessage
  <2> QED
    BY <1>1, <1>4, <2>2, EditorKeeps DEF AiMessage, statuses
<1>5. CASE ServeStatus
  <2> DEFINE a == IF mode = "relay" THEN cache ELSE snap
  <2>1. a \in SUBSET Names
    BY <1>1
  <2>2. answers' = Append(answers, a) /\ asks' = asks - 1 /\ asks > 0
        /\ UNCHANGED <<editor, chat, ide, clis>>
    BY <1>5 DEF ServeStatus
  <2> HIDE DEF a
  <2>3. answers' \in Seq(SUBSET Names)
    BY <1>1, <2>1, <2>2
  <2>4. asks' \in 0 .. MaxOpen
    BY <1>1, <2>2, OpenIsPositive
  <2> QED
    BY <1>1, <2>2, <2>3, <2>4, EditorKeeps DEF editor
<1>6. ASSUME NEW n \in Names, OpenTerminal(n) \/ CloseTerminal(n) PROVE PageInv'
  <2>1. /\ terms' \in SUBSET Names
        /\ UNCHANGED <<mode, statuses, chat, snap, cache, orders>>
        /\ UNCHANGED wire \/ Tell(Heard("terminal_closed", n))
    BY <1>1, <1>6 DEF OpenTerminal, CloseTerminal
  <2>2. wire' \in Seq(Frame) /\ \A i \in DOMAIN wire' : FrameSound(wire'[i])
    BY <1>1, <2>1, HeardSound, TellType
  <2> QED
    BY <1>1, <2>1, <2>2, EditorKeeps DEF statuses
<1> QED
  BY <1>2, <1>3, <1>4, <1>5, <1>6

-----------------------------------------------------------------------------
(* What the page hears.                                                    *)

\* The page settles on a target it is offered.
LEMMA SettledKeeps ==
  ASSUME PageInv, UNCHANGED <<mode, terms, snap, orders>>,
         cache' \in SUBSET Names,
         wire' \in Seq(Frame), \A i \in DOMAIN wire' : FrameSound(wire'[i]),
         asks' \in 0 .. MaxOpen, answers' \in Seq(SUBSET Names),
         ide' = Null \/ ide' \in SUBSET Names, clis' \in SUBSET {"codex"},
         clis' # {} => CliName \in Names,
         page' \in {"index", "chat"}, ChosenIsOffered', target' \in Targets,
         pinned' \in BOOLEAN, kept' \in Targets \cup {Null},
         \/ page' = page /\ timers' = timers /\ launching' \in {launching, FALSE}
         \/ launching' = FALSE /\ timers' = 0
  PROVE  PageInv'
<1>1. /\ timers \in 0 .. MaxOpen /\ launching \in BOOLEAN /\ LaunchingIsTimed
      /\ MaxOpen \in Nat
  BY OpenIsPositive, SMTT(20) DEF PageInv, PageTypeOK
<1>2. timers' \in 0 .. MaxOpen /\ launching' \in BOOLEAN
  <2>1. timers' \in {timers, 0} /\ launching' \in {launching, FALSE}
    OBVIOUS
  <2>2. 0 \in 0 .. MaxOpen
    BY <1>1
  <2> QED
    BY <1>1, <2>1, <2>2
<1>3. LaunchingIsTimed'
  BY <1>1 DEF LaunchingIsTimed
<1>4. PageTypeOK'
  BY <1>2 DEF PageInv, PageTypeOK
<1> QED
  BY <1>3, <1>4 DEF PageInv

\* A frame is heard.
LEMMA HearKeeps == ASSUME PageInv, Hear PROVE PageInv'
<1> DEFINE f == Head(wire)
<1>1. /\ wire # <<>> /\ wire' = Tail(wire)
      /\ UNCHANGED <<mode, terms, snap, cache, orders>>
      /\ \/ HearTerminal(f) \/ HearCli(f) \/ HearClosed(f) \/ HearClosedInChat(f)
         \/ HearReply(f) \/ HearSnapshot(f)
  BY DEF Hear
<1>2. wire \in Seq(Frame) /\ \A i \in DOMAIN wire : FrameSound(wire[i])
  BY DEF PageInv, PageTypeOK
<1>3. /\ f = wire[1] /\ 1 \in DOMAIN wire
      /\ wire' \in Seq(Frame) /\ Len(wire') = Len(wire) - 1
      /\ \A i \in 1 .. Len(wire') : wire'[i] = wire[i + 1] /\ i + 1 \in DOMAIN wire
  BY <1>1, <1>2, HeadTailProperties
<1>4. FrameSound(f) /\ \A i \in DOMAIN wire' : FrameSound(wire'[i])
  BY <1>2, <1>3
<1> HIDE DEF f
<1>5. /\ target \in Targets /\ pinned \in BOOLEAN /\ kept \in Targets \cup {Null}
      /\ asks \in 0 .. MaxOpen /\ answers \in Seq(SUBSET Names)
      /\ cache \in SUBSET Names
      /\ (ide = Null \/ ide \in SUBSET Names) /\ clis \in SUBSET {"codex"}
      /\ (clis # {} => CliName \in Names) /\ page \in {"index", "chat"}
      /\ ChosenIsOffered
  BY DEF PageInv, PageTypeOK
<1> DEFINE Rest == /\ UNCHANGED <<answers, ide, clis, page, timers>>
                   /\ asks' \in 0 .. MaxOpen
                   /\ launching' \in {launching, FALSE}
           Chosen == /\ ChosenIsOffered' /\ target' \in Targets
                     /\ pinned' \in BOOLEAN /\ kept' \in Targets \cup {Null}
<1>6. ASSUME Rest, Chosen PROVE PageInv'
  BY <1>1, <1>3, <1>4, <1>5, <1>6, SettledKeeps
<1>7. {"codex", "bash", "__new__", "chat:devbridge"} \subseteq Targets
  BY DEF Targets
<1>8. CASE HearTerminal(f)
  <2>1. Rest
    BY <1>5, <1>8 DEF HearTerminal, statuses
  <2>2. CASE page = "index" /\ f.of # Null
    <3>1. f.of \in Names
      BY <1>4, <1>8, <2>2 DEF HearTerminal, FrameSound
    <3> QED
      BY <1>6, <1>8, <2>1, <2>2, <3>1, TargetOfType, ReplyTargetOffers
      DEF HearTerminal
  <2>3. CASE ~(page = "index" /\ f.of # Null)
    BY <1>6, <1>8, <2>1, <2>3, StaysOffers DEF HearTerminal
  <2> QED
    BY <2>2, <2>3
<1>9. CASE HearCli(f)
  <2>1. Rest
    BY <1>5, <1>9 DEF HearCli, statuses
  <2>2. CASE SetReplyTarget("codex", TRUE) /\ page = "index"
    BY <1>6, <1>7, <2>1, <2>2, ReplyTargetOffers
  <2>3. CASE Stays
    BY <1>6, <2>1, <2>3, StaysOffers
  <2> QED
    BY <1>9, <2>2, <2>3 DEF HearCli
<1>10. CASE HearClosed(f) \/ HearClosedInChat(f)
  <2>1. Rest
    BY <1>5, <1>10 DEF HearClosed, HearClosedInChat, statuses
  <2>2. CASE SetReplyTarget("bash", FALSE) \/ SetReplyTarget("__new__", FALSE)
    BY <1>6, <1>7, <2>1, <2>2, ReplyTargetOffers
  <2>3. CASE Stays
    BY <1>6, <2>1, <2>3, StaysOffers
  <2> QED
    BY <1>10, <2>2, <2>3 DEF HearClosed, HearClosedInChat
<1>11. CASE HearReply(f)
  <2>1. Rest
    BY <1>5, <1>11 DEF HearReply, statuses
  <2>2. CASE SetReplyTarget(f.of, FALSE)
    <3>1. f.of = "chat:devbridge"
      BY <1>4, <1>11 DEF HearReply, FrameSound
    <3> QED
      BY <1>6, <1>7, <2>1, <2>2, <3>1, ReplyTargetOffers
  <2>3. CASE Stays
    BY <1>6, <2>1, <2>3, StaysOffers
  <2> QED
    BY <1>11, <2>2, <2>3 DEF HearReply
<1>12. CASE HearSnapshot(f)
  <2>1. asks' \in 0 .. MaxOpen
    BY <1>12, AskType DEF HearSnapshot
  <2>2. Rest
    BY <1>12, <2>1 DEF HearSnapshot, chat
  <2>3. Chosen
    BY <1>5, <1>12 DEF HearSnapshot, chat, ChosenIsOffered
  <2> QED
    BY <1>6, <2>2, <2>3
<1> QED
  BY <1>1, <1>8, <1>9, <1>10, <1>11, <1>12

\* An answer leaves those on their way.
LEMMA AnswerTaken ==
  ASSUME NEW s \in Seq(SUBSET Names), NEW i \in DOMAIN s
  PROVE  RemoveAt(s, i) \in Seq(SUBSET Names) /\ s[i] \in SUBSET Names
<1>1. Len(s) \in Nat /\ i \in 1 .. Len(s)
  OBVIOUS
<1>2. SubSeq(s, 1, i - 1) \in Seq(SUBSET Names)
  BY <1>1, SubSeqProperties
<1>3. SubSeq(s, i + 1, Len(s)) \in Seq(SUBSET Names)
  BY <1>1, SubSeqProperties
<1> QED
  BY <1>2, <1>3, ConcatProperties DEF RemoveAt

\* The status, or the list of CLIs, comes.
LEMMA NewsKeeps ==
  ASSUME PageInv,
         StatusSnapshot \/ ClisAnswered \/ \E i \in DOMAIN answers : StatusAnswered(i)
  PROVE  PageInv'
<1>1. /\ asks \in 0 .. MaxOpen /\ answers \in Seq(SUBSET Names)
      /\ snap \in SUBSET Names /\ cache \in SUBSET Names
      /\ (ide = Null \/ ide \in SUBSET Names) /\ clis \in SUBSET {"codex"}
      /\ (clis # {} => CliName \in Names) /\ page \in {"index", "chat"}
      /\ wire \in Seq(Frame) /\ \A i \in DOMAIN wire : FrameSound(wire[i])
  BY DEF PageInv, PageTypeOK
<1>2. CASE StatusSnapshot
  BY <1>1, <1>2, StaysOffers, SettledKeeps DEF StatusSnapshot
<1>3. CASE ClisAnswered
  BY <1>1, <1>3, StaysOffers, SettledKeeps DEF ClisAnswered, editor
<1>4. ASSUME NEW i \in DOMAIN answers, StatusAnswered(i) PROVE PageInv'
  <2>0. /\ RemoveAt(answers, i) \in Seq(SUBSET Names)
        /\ answers[i] \in SUBSET Names
    <3>1. answers \in Seq(SUBSET Names)
      BY <1>1
    <3> QED
      BY <3>1, AnswerTaken
  <2>1. answers' \in Seq(SUBSET Names) /\ ide' \in SUBSET Names
    BY <1>4, <2>0 DEF StatusAnswered
  <2>2. asks' \in 0 .. MaxOpen
    BY <1>4, AskType DEF StatusAnswered
  <2> QED
    BY <1>1, <1>4, <2>1, <2>2, StaysOffers, SettledKeeps DEF StatusAnswered, editor
<1> QED
  BY <1>2, <1>3, <1>4

\* A page is set up: it takes the target that is kept, if it is on offer.
LEMMA MountOffers ==
  ASSUME PageInv, NEW p \in {"index", "chat"}, SetUp(p)
  PROVE  /\ ChosenIsOffered' /\ page' = p
         /\ target' \in Targets /\ pinned' \in BOOLEAN
         /\ kept' \in Targets \cup {Null}
<1> DEFINE t == IF kept # Null THEN kept ELSE IF p = "index" THEN "bash" ELSE "__new__"
<1>1. page' = p /\ Settle(t, FALSE, kept)
  BY DEF SetUp
<1>2. kept \in Targets \cup {Null}
  BY DEF PageInv, PageTypeOK
<1>3. t \in Targets /\ kept \in {t, Null}
  BY <1>2 DEF Targets
<1> HIDE DEF t
<1> QED
  BY <1>1, <1>2, <1>3, SettleOffers

LEMMA PageKeeps ==
  ASSUME PageInv, NEW p \in {"index", "chat"}, Visit(p) \/ Load(p)
  PROVE  PageInv'
<1>1. /\ SetUp(p) /\ launching' = FALSE /\ timers' = 0 /\ clis' = {}
      /\ UNCHANGED <<mode, terms, snap, cache, orders>>
  BY DEF Visit, Load, SetUp, editor
<1>2. /\ ChosenIsOffered' /\ page' = p
      /\ target' \in Targets /\ pinned' \in BOOLEAN /\ kept' \in Targets \cup {Null}
  BY <1>1, MountOffers
<1>3. /\ cache \in SUBSET Names /\ wire \in Seq(Frame)
      /\ (\A i \in DOMAIN wire : FrameSound(wire[i]))
      /\ (ide = Null \/ ide \in SUBSET Names) /\ answers \in Seq(SUBSET Names)
      /\ 1 \in 0 .. MaxOpen
  <2>1. 1 \in 0 .. MaxOpen
    BY OpenIsPositive
  <2> QED
    BY <2>1 DEF PageInv, PageTypeOK
<1>4. CASE Visit(p)
  <2>1. asks' \in 0 .. MaxOpen /\ UNCHANGED <<wire, answers, ide>>
    BY <1>4, AskType DEF Visit, editor
  <2> QED
    BY <1>1, <1>2, <1>3, <2>1, SettledKeeps
<1>5. CASE Load(p)
  <2>1. /\ ide' = Null /\ asks' = 1 /\ answers' = <<>> /\ wire' = <<>>
        /\ answers' \in Seq(SUBSET Names) /\ wire' \in Seq(Frame)
        /\ \A i \in DOMAIN wire' : FrameSound(wire'[i])
    BY <1>5 DEF Load
  <2> QED
    BY <1>1, <1>2, <1>3, <2>1, SettledKeeps
<1> QED
  BY <1>4, <1>5

\* Every step keeps the invariant.
LEMMA NextPageInv == PageInv /\ [PageNext]_pageVars => PageInv'
<1> SUFFICES ASSUME PageInv, [PageNext]_pageVars PROVE PageInv'
  OBVIOUS
<1>1. CASE UNCHANGED pageVars
  BY <1>1
  DEF pageVars, editor, statuses, chat, PageInv, PageTypeOK, ChosenIsOffered,
      LaunchingIsTimed
<1> QED
  BY <1>1, SelectKeeps, TerminalKeeps, LaunchTimerKeeps, EditorSteps, HearKeeps,
     NewsKeeps, PageKeeps DEF PageNext

\* It is an invariant.
LEMMA PageInvHolds == PageSpec => []PageInv
<1>1. PageInit => PageInv
  <2> SUFFICES ASSUME PageInit PROVE PageInv
    OBVIOUS
  <2>1. /\ orders = <<>> /\ orders \in Seq(Orders) /\ wire = <<>>
        /\ wire \in Seq(Frame)
        /\ answers = <<>> /\ answers \in Seq(SUBSET Names) /\ DOMAIN wire = {}
    BY DEF PageInit
  <2>2. asks \in 0 .. MaxOpen /\ timers \in 0 .. MaxOpen
    BY OpenIsPositive DEF PageInit
  <2>3. target \in Targets /\ page \in {"index", "chat"}
    BY DEF PageInit, Targets
  <2>4. PageTypeOK
    BY <2>1, <2>2, <2>3 DEF PageInit, PageTypeOK, Orders
  <2> QED
    BY <2>1, <2>4 DEF PageInit, PageInv, ChosenIsOffered, LaunchingIsTimed
<1> QED
  BY <1>1, NextPageInv, PTL DEF PageSpec

\* The page keeps its types: no more than MaxOpen requests are under way.
THEOREM PageTypeCorrect == PageSpec => []PageTypeOK
<1>1. PageInv => PageTypeOK
  BY DEF PageInv
<1> QED
  BY <1>1, PageInvHolds, PTL

\* What the user chose on the index page, and what the chat page has chosen,
\* is on offer, whatever snapshots and answers overtake each other.
THEOREM ChosenAlwaysOffered == PageSpec => []ChosenIsOffered
<1>1. PageInv => ChosenIsOffered
  BY DEF PageInv
<1> QED
  BY <1>1, PageInvHolds, PTL

\* A launch that is shown as under way has a timer that will clear it.
THEOREM LaunchingAlwaysTimed == PageSpec => []LaunchingIsTimed
<1>1. PageInv => LaunchingIsTimed
  BY DEF PageInv
<1> QED
  BY <1>1, PageInvHolds, PTL

=============================================================================

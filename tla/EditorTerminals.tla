--------------------------- MODULE EditorTerminals ---------------------------
(***************************************************************************)
(* What a message of a phone becomes in the editor: the agent's routing    *)
(* (agent/src/server.ts, relay-client.ts, ipc.ts), the handlers of the     *)
(* extension (extension.ts, chatParticipant.ts) and the terminals they     *)
(* type into, with the timers between a message and its Enter.             *)
(*                                                                         *)
(* A window may have several sockets to the agent open at once, since      *)
(* IpcClient.connect() dials whatever is under way; each of them has its   *)
(* data handler, and all of them reach the same listeners (ipcClient.ts).  *)
(* A line arrives whole: IpcClient has one buffer for all its sockets, and *)
(* halves of lines that mix there, or are left by a close, are not here.   *)
(*                                                                         *)
(* Time is left out but for the order it gives: a timer set before another *)
(* one with a delay no shorter fires before it.  The terminals are VS      *)
(* Code's: dispose() takes effect when the close event comes, and until    *)
(* then the terminal is still listed and its methods throw.                *)
(***************************************************************************)
EXTENDS Naturals, Sequences, FiniteSets, SequencesExt

CONSTANTS
  Editors,      \* editor windows
  Sockets,      \* sockets of windows: a window, and which of its sockets
  Targets,      \* bound: targets that phones name, of Allowed
  MaxMessages,  \* bound: messages and commands of phones
  MaxTerminals, \* bound: terminals made in one window
  Nothing

Allowed == {"bash", "terminal:DevBridge 1", "codex", "chat:devbridge"}

ASSUME TerminalsAssumption ==
  /\ Targets \subseteq Allowed
  /\ MaxMessages \in Nat /\ MaxTerminals \in Nat
  /\ Sockets \subseteq Editors \X Nat

WindowOf(c) == c[1]

Names   == {"bash", "DevBridge 1", "DevBridge Codex CLI"}
CliName == "DevBridge Codex CLI"        \* getTerminalName("codex")
Message == 1 .. MaxMessages
Ids     == 1 .. MaxTerminals
Delay   == [now |-> 0, enter |-> 30, boot |-> 1200]   \* milliseconds

VARIABLES
  sent,     \* messages and commands so far
  clients,  \* the open sockets, as the agent knows them
  down,     \* down[c]: lines the agent wrote to c, to be read by its window
  terms,    \* terms[w]: vscode.window.terminals, as [id, name]
  made,     \* made[w]: terminals made so far, the last one's id
  dying,    \* dying[w]: ids of terminals that dispose() was called on
  timers,   \* timers[w]: pending setTimeouts, in the order they were set
  input,    \* input[w][id]: what was typed into the terminal
  chat,     \* chat[c]: messages of c shown in the channel DevBridge Chat
  lost      \* lost[c]: messages of c whose handler threw

terminalVars == <<sent, clients, down, terms, made, dying, timers, input, chat, lost>>

\* via: the socket a message came by.
Typed == [key : {"launch", "text", "enter"}, msg : Message \cup {Nothing},
          via : Sockets \cup {Nothing}]

\* What the agent writes to a socket.
Line ==
  [type : {"inject_message"}, msg : Message, target : Targets,
   name : {CliName, Nothing}, launch : BOOLEAN]
    \cup [type : {"start_cli", "create_terminal", "focus_terminal", "kill_cli"},
          name : Names]

Timer == [delay : DOMAIN Delay, id : Ids, msg : Message, via : Sockets,
          booting : BOOLEAN]

TerminalsTypeOK ==
  /\ sent \in 0 .. MaxMessages
  /\ clients \in SUBSET Sockets
  /\ down \in [Sockets -> Seq(Line)]
  /\ made \in [Editors -> 0 .. MaxTerminals]
  /\ terms \in [Editors -> Seq([id : Ids, name : Names])]
  /\ dying \in [Editors -> SUBSET Ids]
  /\ timers \in [Editors -> Seq(Timer)]
  /\ input \in [Editors -> [Ids -> Seq(Typed)]]
  /\ chat \in [Sockets -> Seq(Message)]
  /\ lost \in [Sockets -> SUBSET Message]

TerminalsInit ==
  /\ sent = 0
  /\ clients = {}
  /\ down = [c \in Sockets |-> <<>>]
  /\ terms = [w \in Editors |-> <<>>]
  /\ made = [w \in Editors |-> 0]
  /\ dying = [w \in Editors |-> {}]
  /\ timers = [w \in Editors |-> <<>>]
  /\ input = [w \in Editors |-> [i \in Ids |-> <<>>]]
  /\ chat = [c \in Sockets |-> <<>>]
  /\ lost = [c \in Sockets |-> {}]

-----------------------------------------------------------------------------
(* The agent.  Every line goes to every socket (sendToExtension), but for  *)
(* what an IpcAdapter writes to its own.                                   *)

\* A connection is accepted, or seen to close; of what was written to one
\* that closes, its window reads what had arrived.
OpenSocket(c) ==
  /\ c \notin clients
  /\ down[c] = <<>>
  /\ clients' = clients \cup {c}
  /\ UNCHANGED <<sent, down, terms, made, dying, timers, input, chat, lost>>

CloseSocket(c) ==
  /\ c \in clients
  /\ clients' = clients \ {c}
  /\ \E n \in 0 .. Len(down[c]) : down' = [down EXCEPT ![c] = SubSeq(@, 1, n)]
  /\ UNCHANGED <<sent, terms, made, dying, timers, input, chat, lost>>

Inject(m, target, name, launch) ==
  [type |-> "inject_message", msg |-> m, target |-> target,
   name |-> name, launch |-> launch]

\* routeTerminalMessage: a CLI is routed with its terminal and its command.
Routed(m, target) ==
  IF target = "codex" THEN Inject(m, target, CliName, TRUE)
  ELSE Inject(m, target, Nothing, FALSE)

\* IpcAdapter.send: the target alone.
Relayed(m, target) == Inject(m, target, Nothing, FALSE)

Write(cs, line) ==
  /\ sent < MaxMessages
  /\ sent' = sent + 1
  /\ down' = [c \in Sockets |-> IF c \in cs THEN Append(down[c], line) ELSE down[c]]
  /\ UNCHANGED <<clients, terms, made, dying, timers, input, chat, lost>>

\* Mutant: what was routed to a terminal goes to the adapter as well.
HandledTwice(target) ==
  /\ sent < MaxMessages
  /\ sent' = sent + 1
  /\ down' = [c \in Sockets |-> IF c \in clients
       THEN down[c] \o <<Routed(sent + 1, target), Relayed(sent + 1, target)>>
       ELSE down[c]]
  /\ UNCHANGED <<clients, terms, made, dying, timers, input, chat, lost>>

\* A phone beside the agent: the handler of 'message', POST /message and
\* POST /terminal/send.
DirectMessage(target) == Write(clients, Routed(sent + 1, target))

\* A phone behind the relay, while the editor's adapter is the active one,
\* registered for the socket c.
RelayMessage(c, target) == c \in clients /\ Write({c}, Relayed(sent + 1, target))

\* start_cli, create_terminal, focus_terminal, kill_cli, by either path.
Command(type, name) == Write(clients, [type |-> type, name |-> name])

Commands ==
  \/ Command("start_cli", CliName)
  \/ Command("create_terminal", "DevBridge 1")
  \/ \E name \in Names : Command("focus_terminal", name) \/ Command("kill_cli", name)

-----------------------------------------------------------------------------
(* The extension.                                                          *)

NamesIn(w) == {terms[w][i].name : i \in DOMAIN terms[w]}

\* terminals.find(t => t.name === name)
Find(w, name) ==
  terms[w][SelectInSeq(terms[w], LAMBDA t : t.name = name)].id

Listed(w) == {terms[w][i].id : i \in DOMAIN terms[w]}

\* What show() and sendText() reach.
Usable(w, id) == id \in Listed(w) \ dying[w]

Type(w, id, key, m, c) ==
  input' = [input EXCEPT ![w][id] = Append(@, [key |-> key, msg |-> m, via |-> c])]

\* Mutant: the command is also typed into the terminal that is there.
EnsureAlways(w, name, launch) ==
  LET id == IF name \in NamesIn(w) THEN Find(w, name) ELSE made[w] + 1 IN
  /\ id \in Ids
  /\ made' = [made EXCEPT ![w] = IF name \in NamesIn(w) THEN @ ELSE id]
  /\ terms' = [terms EXCEPT ![w] = IF name \in NamesIn(w) THEN @
                                   ELSE Append(@, [id |-> id, name |-> name])]
  /\ IF launch THEN Type(w, id, "launch", Nothing, Nothing) ELSE UNCHANGED input

\* ensureTerminal; the handlers of start_cli and create_terminal do the same.
\* Bound: MaxTerminals.
Ensure(w, name, launch) ==
  IF name \in NamesIn(w) THEN UNCHANGED <<terms, made, input>>
  ELSE LET id == made[w] + 1 IN
       /\ id \in Ids
       /\ made' = [made EXCEPT ![w] = id]
       /\ terms' = [terms EXCEPT ![w] = Append(@, [id |-> id, name |-> name])]
       /\ IF launch THEN Type(w, id, "launch", Nothing, Nothing) ELSE UNCHANGED input

\* resolveTerminalTarget
Resolved(line) ==
  CASE line.target = "bash" -> "bash"
    [] line.target = "terminal:DevBridge 1" -> "DevBridge 1"
    [] OTHER -> line.name

\* inject_message for the chat: no terminal is meant.
ToChat(c, line) ==
  /\ line.type = "inject_message"
  /\ Resolved(line) = Nothing
  /\ chat' = [chat EXCEPT ![c] = Append(@, line.msg)]
  /\ UNCHANGED <<terms, made, timers, input, lost>>

\* Mutant: a terminal has booted once something was typed into it.
SetUntilTyped(c, line, id, existed) ==
  timers' = [timers EXCEPT ![WindowOf(c)] =
    Append(@, [delay |-> IF input[WindowOf(c)][id] # <<>> THEN "now" ELSE "boot",
               id |-> id, msg |-> line.msg, via |-> c, booting |-> ~existed])]

\* The timer of a message: a terminal made for it has time to boot.
SetTimer(c, line, id, existed) ==
  timers' = [timers EXCEPT ![WindowOf(c)] =
    Append(@, [delay |-> IF existed THEN "now" ELSE "boot", id |-> id,
               msg |-> line.msg, via |-> c, booting |-> ~existed])]

\* inject_message for a terminal; show() throws when it is being disposed of,
\* and ipcClient.ts swallows what its listeners throw.
ToTerminal(c, line) ==
  LET w == WindowOf(c)
      name == Resolved(line)
      existed == name \in NamesIn(w)
      id == IF existed THEN Find(w, name) ELSE made[w] + 1
  IN /\ line.type = "inject_message"
     /\ name # Nothing
     /\ Ensure(w, name, line.launch)
     /\ IF existed /\ ~Usable(w, id)
        THEN lost' = [lost EXCEPT ![c] = @ \cup {line.msg}] /\ UNCHANGED timers
        ELSE SetTimer(c, line, id, existed) /\ UNCHANGED lost
     /\ UNCHANGED chat

\* start_cli and create_terminal.
Open(c, line) ==
  /\ line.type \in {"start_cli", "create_terminal"}
  /\ Ensure(WindowOf(c), line.name, line.type = "start_cli")
  /\ UNCHANGED <<timers, chat, lost>>

\* focus_terminal shows the terminal and changes nothing here.
Focus(line) ==
  /\ line.type = "focus_terminal"
  /\ UNCHANGED <<terms, made, timers, input, chat, lost>>

\* One line of a socket, but for kill_cli.  A line that was read is handled
\* whatever the other sockets of the window brought (ipcClient.ts:52).
ReadLine(c) ==
  /\ down[c] # <<>>
  /\ LET line == Head(down[c]) IN
       ToChat(c, line) \/ ToTerminal(c, line) \/ Open(c, line) \/ Focus(line)
  /\ down' = [down EXCEPT ![c] = Tail(@)]
  /\ UNCHANGED <<sent, clients, dying>>

\* kill_cli: dispose() of the terminal, if there is one.
ReadKill(c) ==
  LET w == WindowOf(c)
      line == Head(down[c])
  IN /\ down[c] # <<>>
     /\ line.type = "kill_cli"
     /\ dying' = IF line.name \in NamesIn(w)
                 THEN [dying EXCEPT ![w] = @ \cup {Find(w, line.name)}]
                 ELSE dying
     /\ down' = [down EXCEPT ![c] = Tail(@)]
     /\ UNCHANGED <<sent, clients, terms, made, timers, input, chat, lost>>

Pending(w, i) == timers[w][i]

\* A timer set before this one with no longer a delay fires first.
MayFire(w, i) ==
  \A j \in 1 .. i - 1 : Delay[Pending(w, j).delay] > Delay[Pending(w, i).delay]

\* Mutant: the Enter of a message that had to wait is forgotten.
TextWithoutEnter(w, i) ==
  LET t == Pending(w, i) IN
  /\ t.delay # "enter"
  /\ Usable(w, t.id)
  /\ Type(w, t.id, "text", t.msg, t.via)
  /\ timers' = [timers EXCEPT ![w] =
       IF t.booting THEN RemoveAt(@, i)
       ELSE Append(RemoveAt(@, i), [t EXCEPT !.delay = "enter"])]
  /\ UNCHANGED lost

\* sendToTerminal reads the setting terminalSendMode, which the user may
\* change at any time.  split: the Enter follows by a timer of its own.
SplitText(w, i) ==
  LET t == Pending(w, i) IN
  /\ t.delay # "enter"
  /\ Usable(w, t.id)
  /\ Type(w, t.id, "text", t.msg, t.via)
  /\ timers' = [timers EXCEPT ![w] =
       Append(RemoveAt(@, i), [t EXCEPT !.delay = "enter"])]
  /\ UNCHANGED lost

\* paste: one write.
PasteText(w, i) ==
  LET t == Pending(w, i) IN
  /\ t.delay # "enter"
  /\ Usable(w, t.id)
  /\ input' = [input EXCEPT ![w][t.id] =
       @ \o <<[key |-> "text", msg |-> t.msg, via |-> t.via],
              [key |-> "enter", msg |-> t.msg, via |-> t.via]>>]
  /\ timers' = [timers EXCEPT ![w] = RemoveAt(@, i)]
  /\ UNCHANGED lost

\* The terminal is gone, or going: nothing is typed.
TextLost(w, i) ==
  LET t == Pending(w, i) IN
  /\ ~Usable(w, t.id)
  /\ timers' = [timers EXCEPT ![w] = RemoveAt(@, i)]
  /\ lost' = IF t.delay = "enter" THEN lost 
             ELSE [lost EXCEPT ![t.via] = @ \cup {t.msg}]
  /\ UNCHANGED input

\* The second timer of a split message.
Enter(w, i) ==
  LET t == Pending(w, i) IN
  /\ t.delay = "enter"
  /\ Usable(w, t.id)
  /\ Type(w, t.id, "enter", t.msg, t.via)
  /\ timers' = [timers EXCEPT ![w] = RemoveAt(@, i)]
  /\ UNCHANGED lost

Fire(w) ==
  /\ \E i \in DOMAIN timers[w] :
       /\ MayFire(w, i)
       /\ \/ SplitText(w, i)
          \/ PasteText(w, i)
          \/ TextLost(w, i)
          \/ Enter(w, i)
  /\ UNCHANGED <<sent, clients, down, terms, made, dying, chat>>

-----------------------------------------------------------------------------
(* The editor.                                                             *)

\* A terminal closes: dispose() took effect, or the user or its shell ended
\* it.
Close(w) ==
  /\ \E i \in DOMAIN terms[w] :
       /\ terms' = [terms EXCEPT ![w] = RemoveAt(@, i)]
       /\ dying' = [dying EXCEPT ![w] = @ \ {terms[w][i].id}]
  /\ UNCHANGED <<sent, clients, down, made, timers, input, chat, lost>>

\* The user opens a shell, which VS Code names "bash".
OpenShell(w) ==
  /\ made[w] < MaxTerminals
  /\ made' = [made EXCEPT ![w] = @ + 1]
  /\ terms' = [terms EXCEPT ![w] = Append(@, [id |-> made[w] + 1, name |-> "bash"])]
  /\ UNCHANGED <<sent, clients, down, dying, timers, input, chat, lost>>

\* devbridge.startCodexTerminal
StartCodexTerminal(w) ==
  /\ Ensure(w, CliName, TRUE)
  /\ CliName \notin NamesIn(w)
  /\ UNCHANGED <<sent, clients, down, dying, timers, chat, lost>>

-----------------------------------------------------------------------------
TerminalsNext ==
  \/ \E target \in Targets :
       DirectMessage(target) \/ \E c \in Sockets : RelayMessage(c, target)
  \/ Commands
  \/ \E c \in Sockets : ReadLine(c) \/ ReadKill(c) \/ OpenSocket(c) \/ CloseSocket(c)
  \/ \E w \in Editors : Fire(w) \/ Close(w) \/ OpenShell(w) \/ StartCodexTerminal(w)

TerminalsSpec == TerminalsInit /\ [][TerminalsNext]_terminalVars

\* The event loop of the extension host reads its sockets and fires its timers.
FairTerminalsSpec ==
  /\ TerminalsSpec
  /\ \A c \in Sockets : WF_terminalVars(ReadLine(c)) /\ WF_terminalVars(ReadKill(c))
  /\ \A w \in Editors : WF_terminalVars(Fire(w))

-----------------------------------------------------------------------------
(* Properties.                                                             *)

\* Where the texts that came by c are in what was typed into a terminal.
Texts(c, typed) == {i \in DOMAIN typed : typed[i].key = "text" /\ typed[i].via = c}

Count(w, id, k) == Cardinality({i \in DOMAIN input[w][id] : input[w][id][i].key = k})

\* The command of a CLI is typed once, into a terminal that nothing was typed
\* into before: a phone that starts a CLI twice, or writes to one that is
\* running, never types its command into the CLI, however many sockets bring
\* the command (extension.ts:140, chatParticipant.ts:196).
LaunchComesFirst ==
  \A w \in Editors : \A id \in Ids : \A i \in DOMAIN input[w][id] :
    input[w][id][i].key = "launch" => i = 1

\* Of what one socket brought, a message is overtaken only when it is the one
\* its terminal was made for: everything else is typed in the order the agent
\* wrote it, whatever was opened, killed or closed in between, and whatever
\* other sockets brought (chatParticipant.ts:37).
OnlyTheFirstWaits ==
  \A c \in Sockets : \A id \in Ids :
    LET t == input[WindowOf(c)][id] IN
    \A i, j, k \in Texts(c, t) : i < j /\ t[i].msg > t[j].msg => t[j].msg <= t[k].msg

\* Where a message that came by c waits for its timer, and where it is in what
\* was typed.
Waits(c, pending, m) ==
  {i \in DOMAIN pending :
     pending[i].via = c /\ pending[i].msg = m /\ pending[i].delay # "enter"}
TypedAt(c, typed, m) == {i \in Texts(c, typed) : typed[i].msg = m}

\* What a window read from a socket is in one place: it waits for its timer,
\* was typed once, is in the chat, or met a terminal that was closed.  The
\* agent's routing by terminal or by adapter, and the timers of a message,
\* give it no second copy on the way of the first; a second socket of the
\* window does (TypedOncePerWindow).
OncePerSocket ==
  \A c \in Sockets : \A m \in Message :
    LET w == WindowOf(c)
        waits == Waits(c, timers[w], m) # {}
        typed == \E id \in Ids : TypedAt(c, input[w][id], m) # {}
        threw == m \in lost[c]
        shown == m \in ToSet(chat[c])
    IN /\ ~(waits /\ typed) /\ ~(waits /\ threw) /\ ~(waits /\ shown)
       /\ ~(typed /\ threw) /\ ~(typed /\ shown) /\ ~(threw /\ shown)
       /\ \A i, j \in Waits(c, timers[w], m) : i = j
       /\ \A a, b \in Ids :
            \A i \in TypedAt(c, input[w][a], m), j \in TypedAt(c, input[w][b], m) :
              a = b /\ i = j

\* A text typed into a terminal that stays is entered (check.md: the message
\* is executed without a hand on the keyboard).
EveryTextEntered ==
  \A w \in Editors : \A id \in Ids :
    Count(w, id, "text") > Count(w, id, "enter")
      ~> \/ Count(w, id, "text") = Count(w, id, "enter")
         \/ ~Usable(w, id)

\* Violated: a message of a phone is typed at most once in a window
\* (ipc.ts:289: a message goes "to all connected VS Code extension
\* instances"); two open sockets of one instance bring it twice.
TypedOncePerWindow ==
  \A w \in Editors : \A m \in Message :
    LET typedAt(id) == {i \in DOMAIN input[w][id] : /\ input[w][id][i].key = "text"
                                                    /\ input[w][id][i].msg = m}
    IN \A a, b \in Ids : \A i \in typedAt(a), j \in typedAt(b) : a = b /\ i = j

\* Violated: what was typed into a terminal is whole lines, a text and its
\* Enter; two messages within the 30 ms of the split mode share a line.
LinesAreWhole ==
  \A w \in Editors : \A id \in Ids : \A i \in 1 .. Len(input[w][id]) - 1 :
    input[w][id][i].key = "text" => input[w][id][i + 1].key = "enter"

\* Violated: a message for a launcher ends in a terminal (README: it opens or
\* reuses a terminal of its own and routes the messages to it).
LauncherHasTerminal ==
  [][\A c \in Sockets : down[c] # <<>> =>
       LET line == Head(down[c]) IN
       line.type = "inject_message" /\ line.target = "codex" => chat'[c] = chat[c]
    ]_terminalVars

=============================================================================

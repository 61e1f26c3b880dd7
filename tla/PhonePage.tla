------------------------------ MODULE PhonePage ------------------------------
(***************************************************************************)
(* What the pages index.vue and chat.vue know of the editor: the terminals *)
(* of the last status, the target of the chat, which both keep under one   *)
(* key, and the launches of CLIs; with fetchAgentStatus of useDevBridge.ts *)
(* in both modes.                                                          *)
(*                                                                         *)
(* The history of a relay session holds an ide_snapshot: an editor sends   *)
(* one whenever it connects.                                               *)
(*                                                                         *)
(* A request over HTTP is answered by the server at one moment and heard   *)
(* at another; two answers may overtake each other.  An action is a task   *)
(* of the browser with the watchers that run when it ends.                 *)
(***************************************************************************)
EXTENDS Naturals, Sequences, SequencesExt

CONSTANTS
  Modes,    \* subset of {"local", "relay"}
  Names,    \* names of terminals
  MaxOpen,  \* bound: requests of one kind under way, timers, frames
  Null

CliName == "DevBridge Codex CLI"

ASSUME PageAssumption ==
  /\ Names \subseteq {"bash", "DevBridge 1", CliName}
  /\ Modes \subseteq {"local", "relay"}
  /\ MaxOpen \in Nat \ {0}

TargetOf  == [n \in Names |-> CASE n = "bash" -> "terminal:bash"
                                [] n = "DevBridge 1" -> "terminal:DevBridge 1"
                                [] OTHER -> "terminal:DevBridge Codex CLI"]
Targets   == {TargetOf[n] : n \in Names} \cup {"bash", "chat:devbridge", "codex", "__new__"}
Frame     == [type : {"terminal_created", "cli_started", "terminal_closed",
                      "ide_snapshot", "ai_message"},
              of : Names \cup {"chat:devbridge", Null}]

VARIABLES
  mode,     \* of the connection: to the agent, or to the relay
  terms,    \* the terminals that are open in the editor
  snap,     \* those the agent heard of last
  cache,    \* relay: those of the agent's last status_snapshot
  orders,   \* commands on their way to the editor
  wire,     \* frames on their way to the phone
  asks,     \* requests for the status the server has not answered
  answers,  \* answers to them on their way
  ide,      \* agentStatus.ideState.terminals
  clis,     \* cliList
  page,     \* the page that is open
  target,   \* replyTarget
  pinned,   \* replyTargetPinned
  kept,     \* vb:chatTarget in localStorage
  launching,\* cliLaunching.codex
  timers    \* timers that will clear it

editor   == <<mode, terms, snap, cache, orders, wire>>
statuses == <<asks, answers, ide, clis>>
chat     == <<page, target, pinned, kept, launching, timers>>
pageVars   == <<editor, statuses, chat>>

PageTypeOK ==
  /\ mode \in Modes
  /\ terms \subseteq Names /\ snap \subseteq Names /\ cache \subseteq Names
  /\ orders \in Seq([type : {"create_terminal", "start_cli", "kill_cli"}, name : Names])
  /\ wire \in Seq(Frame)
  /\ asks \in 0 .. MaxOpen /\ answers \in Seq(SUBSET Names)
  /\ ide = Null \/ ide \subseteq Names
  /\ clis \subseteq {"codex"}
  /\ page \in {"index", "chat"}
  /\ target \in Targets /\ kept \in Targets \cup {Null} /\ pinned \in BOOLEAN
  /\ launching \in BOOLEAN /\ timers \in 0 .. MaxOpen

PageInit ==
  /\ mode \in Modes
  /\ terms = {} /\ snap = {} /\ cache = {}
  /\ orders = <<>> /\ wire = <<>>
  /\ asks = 1 /\ answers = <<>> /\ ide = Null /\ clis = {}
  /\ page = "index" /\ target = "bash" /\ pinned = FALSE /\ kept = Null
  /\ launching = FALSE /\ timers = 0

-----------------------------------------------------------------------------
(* The target of the chat.                                                 *)

Known(terminals) == IF terminals = Null THEN {} ELSE terminals

\* chatTargets
Offered(terminals, known) ==
  {TargetOf[n] : n \in Known(terminals)}
    \cup (IF "bash" \in Known(terminals) THEN {} ELSE {"bash"})
    \cup {"chat:devbridge"} \cup known

\* chatTargets of chat.vue
Listed(terminals) == {TargetOf[n] : n \in Known(terminals)} \cup {"__new__"}

\* Mutant: the targets are not watched.
SettleNever(t, pin, stored) == target' = t /\ pinned' = pin /\ kept' = stored

\* The watchers of chatTargets, when the task ends: a target that is not on
\* offer gives way, on index.vue to bash, which is not stored, on chat.vue to
\* none, which is.
Settle(t, pin, stored) ==
  LET offered == t \in IF page' = "index" THEN Offered(ide', clis') ELSE Listed(ide')
      other   == IF page' = "index" THEN "bash" ELSE "__new__"
  IN /\ target' = IF offered THEN t ELSE other
     /\ pinned' = (pin /\ offered)
     /\ kept' = IF offered \/ page' = "index" THEN stored ELSE other

\* setReplyTarget, setTarget
SetReplyTarget(t, pin) == Settle(t, pin, t)
Stays == Settle(target, pinned, kept)

Order(type, name) ==
  orders' = IF Len(orders) < MaxOpen THEN Append(orders, [type |-> type, name |-> name]) ELSE orders

\* launchCli
LaunchCli ==
  IF launching \/ timers = MaxOpen THEN UNCHANGED <<launching, timers, orders>>
  ELSE launching' = TRUE /\ timers' = timers + 1 /\ Order("start_cli", CliName)

\* selectChatTarget of index.vue
Select(t) ==
  /\ page = "index" /\ t \in Offered(ide, clis)
  /\ ~(t = "codex" /\ launching)
  /\ UNCHANGED <<statuses, mode, terms, snap, cache, wire, page>>
  /\ SetReplyTarget(t, TRUE)
  /\ IF t = "codex" /\ CliName \notin Known(ide) THEN LaunchCli
     ELSE UNCHANGED <<launching, timers, orders>>

\* createNewTerminal
CreateNewTerminal ==
  /\ page = "index" /\ "DevBridge 1" \in Names \ Known(ide)
  /\ UNCHANGED <<statuses, mode, terms, snap, cache, wire, page, launching, timers>>
  /\ SetReplyTarget(TargetOf["DevBridge 1"], TRUE)
  /\ Order("create_terminal", "DevBridge 1")

\* selectChatTarget of chat.vue: a terminal, or + for a new one.
SelectInChat(n) ==
  /\ page = "chat"
  /\ \/ n \in Known(ide) /\ UNCHANGED orders
     \/ n = "DevBridge 1" /\ n \notin Known(ide) /\ Order("create_terminal", n)
  /\ UNCHANGED <<statuses, mode, terms, snap, cache, wire, page, launching, timers>>
  /\ SetReplyTarget(TargetOf[n], FALSE)

\* killCli
KillCli ==
  /\ page = "index" /\ CliName \in Known(ide)
  /\ Order("kill_cli", CliName)
  /\ UNCHANGED <<statuses, chat, mode, terms, snap, cache, wire>>

\* Mutant: only cli_started ends a launch.
LaunchTimerIdle ==
  /\ timers > 0
  /\ timers' = timers - 1
  /\ UNCHANGED <<editor, statuses, page, target, pinned, kept, launching>>

\* The 5 seconds of a launch are over.
LaunchTimer ==
  /\ timers > 0
  /\ timers' = timers - 1 /\ launching' = FALSE
  /\ UNCHANGED <<editor, statuses, page, target, pinned, kept>>

-----------------------------------------------------------------------------
(* The editor and the agent, as far as the phone hears of them.            *)

\* The relay keeps type, text, tool, target and payload of a frame; names of
\* terminals are none of them.
Heard(type, of) ==
  [type |-> type, of |-> IF mode = "relay" THEN Null ELSE of]

Tell(frame) ==
  /\ Len(wire) < MaxOpen
  /\ wire' = Append(wire, frame)

\* The editor carries out a command; the snapshot follows by an event.
Obey ==
  /\ orders # <<>>
  /\ LET o == Head(orders) IN
       \/ /\ o.type = "kill_cli"
          /\ terms' = terms \ {o.name}
          /\ IF o.name \in terms THEN Tell(Heard("terminal_closed", o.name)) ELSE UNCHANGED wire
       \/ /\ o.type = "create_terminal"
          /\ terms' = terms \cup {o.name}
          /\ Tell(Heard("terminal_created", o.name))
       \/ /\ o.type = "start_cli"
          /\ terms' = terms \cup {o.name}
          /\ Tell(Heard("cli_started", o.name))
  /\ orders' = Tail(orders)
  /\ UNCHANGED <<mode, statuses, chat, snap, cache>>

\* The user opens or closes a terminal at the desk.
OpenTerminal(n) ==
  /\ n \notin terms
  /\ terms' = terms \cup {n}
  /\ UNCHANGED <<mode, statuses, chat, snap, cache, orders, wire>>

CloseTerminal(n) ==
  /\ n \in terms
  /\ terms' = terms \ {n}
  /\ Tell(Heard("terminal_closed", n))
  /\ UNCHANGED <<mode, statuses, chat, snap, cache, orders>>

\* ide_snapshot: the agent keeps it and passes it on.
IdeSnapshot ==
  /\ snap # terms
  /\ snap' = terms
  /\ Tell([type |-> "ide_snapshot", of |-> Null])
  /\ UNCHANGED <<mode, statuses, chat, terms, cache, orders>>

\* status_snapshot: only when the agent connects or an adapter is switched.
\* The relay keeps it and the phone takes it.
StatusSnapshot ==
  /\ mode = "relay"
  /\ cache' = snap
  /\ ide' = snap
  /\ UNCHANGED <<mode, terms, snap, orders, wire, asks, answers, clis, page, launching, timers>>
  /\ Stays

\* The chat participant of the editor answers; the relay keeps the target.
AiMessage ==
  /\ Tell([type |-> "ai_message", of |-> "chat:devbridge"])
  /\ UNCHANGED <<mode, statuses, chat, terms, snap, cache, orders>>

\* The server answers a request for the status.
ServeStatus ==
  /\ asks > 0
  /\ asks' = asks - 1
  /\ Len(answers) < MaxOpen
  /\ answers' = Append(answers, IF mode = "relay" THEN cache ELSE snap)
  /\ UNCHANGED <<editor, chat, ide, clis>>

-----------------------------------------------------------------------------
(* What the page hears.                                                    *)

\* fetchAgentStatus.  Bound: MaxOpen requests count.
Ask == asks' = IF asks < MaxOpen THEN asks + 1 ELSE asks

\* fetchLocalStatus, fetchRelayStatus: the second goes through the history
\* again, in which index.vue takes an ide_snapshot for a reason to ask again.
StatusAnswered(i) ==
  /\ ide' = answers[i]
  /\ answers' = RemoveAt(answers, i)
  /\ UNCHANGED <<editor, clis, page, launching, timers>>
  /\ Stays
  /\ IF mode = "relay" /\ page = "index" THEN Ask ELSE UNCHANGED asks

\* GET /clis of index.vue, in local mode only: the relay has no such path.
ClisAnswered ==
  /\ mode = "local" /\ page = "index" /\ clis = {} /\ CliName \in Names
  /\ clis' = {"codex"}
  /\ UNCHANGED <<editor, ide, asks, answers, page, launching, timers>>
  /\ Stays

HearTerminal(frame) ==
  /\ frame.type = "terminal_created"
  /\ UNCHANGED <<statuses, page, launching, timers>>
  /\ IF page = "index" /\ frame.of # Null THEN SetReplyTarget(TargetOf[frame.of], TRUE)
     ELSE Stays

HearCli(frame) ==
  /\ frame.type = "cli_started"
  /\ UNCHANGED <<statuses, page, timers>>
  /\ IF page = "index" /\ frame.of # Null
     THEN launching' = FALSE /\ SetReplyTarget("codex", TRUE)
     ELSE UNCHANGED launching /\ Stays

HearClosed(frame) ==
  /\ frame.type = "terminal_closed" /\ page = "index"
  /\ UNCHANGED <<statuses, page, launching, timers>>
  /\ IF frame.of = CliName /\ target = "codex" /\ clis # {}
     THEN SetReplyTarget("bash", FALSE) ELSE Stays

HearClosedInChat(frame) ==
  /\ frame.type = "terminal_closed" /\ page = "chat"
  /\ UNCHANGED <<statuses, page, launching, timers>>
  /\ IF frame.of # Null /\ target = TargetOf[frame.of]
     THEN SetReplyTarget("__new__", FALSE) ELSE Stays

\* On index.vue a reply moves the target, unless the user chose one.
HearReply(frame) ==
  /\ frame.type = "ai_message"
  /\ UNCHANGED <<statuses, page, launching, timers>>
  /\ IF page = "chat" \/ pinned THEN Stays ELSE SetReplyTarget(frame.of, FALSE)

HearSnapshot(frame) ==
  /\ frame.type = "ide_snapshot"
  /\ IF page = "index" THEN Ask ELSE UNCHANGED asks
  /\ UNCHANGED <<answers, ide, clis, chat>>

Hear ==
  /\ wire # <<>>
  /\ LET frame == Head(wire) IN
       HearTerminal(frame) \/ HearCli(frame)
         \/ HearClosed(frame) \/ HearClosedInChat(frame)
         \/ HearReply(frame) \/ HearSnapshot(frame)
  /\ wire' = Tail(wire)
  /\ UNCHANGED <<mode, terms, snap, cache, orders>>

\* A page is set up: its target is the one that was stored.
SetUp(p) ==
  /\ page' = p /\ clis' = {} /\ launching' = FALSE /\ timers' = 0
  /\ Settle(IF kept # Null THEN kept ELSE IF p = "index" THEN "bash" ELSE "__new__",
            FALSE, kept)

\* The user goes to the other page; index.vue asks for the status.
Visit(p) ==
  /\ p # page
  /\ IF p = "index" THEN Ask ELSE UNCHANGED asks
  /\ UNCHANGED <<editor, answers, ide>>
  /\ SetUp(p)

\* A page load.  The connection asks for the status.
Load(p) ==
  /\ ide' = Null /\ asks' = 1 /\ answers' = <<>> /\ wire' = <<>>
  /\ UNCHANGED <<mode, terms, snap, cache, orders>>
  /\ SetUp(p)

-----------------------------------------------------------------------------
PageNext ==
  \/ \E t \in Targets : Select(t)
  \/ CreateNewTerminal \/ KillCli \/ LaunchTimer
  \/ Obey \/ IdeSnapshot \/ StatusSnapshot \/ AiMessage \/ ServeStatus
  \/ \E n \in Names : SelectInChat(n) \/ OpenTerminal(n) \/ CloseTerminal(n)
  \/ \E i \in DOMAIN answers : StatusAnswered(i)
  \/ ClisAnswered \/ Hear
  \/ \E p \in {"index", "chat"} : Visit(p) \/ Load(p)

PageSpec == PageInit /\ [][PageNext]_pageVars

\* Timers fire, servers answer, frames and answers arrive, the editor obeys.
FairPageSpec ==
  /\ PageSpec
  /\ WF_pageVars(LaunchTimer) /\ WF_pageVars(Obey) /\ WF_pageVars(IdeSnapshot)
  /\ WF_pageVars(ServeStatus) /\ WF_pageVars(Hear) /\ WF_pageVars(ClisAnswered)
  /\ WF_pageVars(\E i \in DOMAIN answers : StatusAnswered(i))

-----------------------------------------------------------------------------
(* Properties.                                                             *)

\* A target the user chose is on offer: however statuses, lists, frames and
\* visits of the other page overtake each other, none leaves the chat with a
\* terminal that the phone knows to be gone (index.vue:1737, chat.vue:382).
ChosenIsOffered ==
  /\ pinned => page = "index" /\ target \in Offered(ide, clis)
  /\ page = "chat" => target \in Listed(ide) /\ kept \in {target, Null}

\* A launch does not stay in the way of the next one, whether the editor
\* obeyed, forgot, or answered over a relay that drops the name of the CLI:
\* its timer is running.
LaunchingIsTimed == launching => page = "index" /\ timers > 0

\* Violated: the target is persistent (check.md:78; the page keeps it in
\* vb:chatTarget): whenever the stored target is on offer it is the target.
\* The watcher of chatTargets replaces it before the first status.
TargetIsKept ==
  page = "index" /\ kept # Null /\ kept \in Offered(ide, clis) => target = kept

\* Violated: a stored target is not forgotten while its terminal is open;
\* chat.vue, loaded before a status is there, stores that there is none.
StoredIsKept ==
  [][\A n \in terms \cap snap :
       kept = TargetOf[n] /\ wire = <<>> => kept' # "__new__"]_pageVars

\* Violated: the target can be written to.  With a terminal named bash the
\* page offers terminal:bash in the place of bash, and keeps bash.
TargetIsOffered == page = "index" => target \in Offered(ide, clis)

\* Violated: once the terminals of the editor rest, the phone lists them
\* (check.md:110).  In local mode two answers may overtake each other; over
\* the relay nothing but a status_snapshot brings the terminals.
ListFollows == (<>[][terms' = terms]_pageVars) => <>[](ide = terms)

\* Violated over the relay: the page stops asking when nothing happens.
StatusSettles == (<>[][terms' = terms /\ snap' = snap]_pageVars) => <>[](asks = 0 /\ answers = <<>>)

=============================================================================

------------------------------ MODULE PhoneChat ------------------------------
(***************************************************************************)
(* The conversation on the phone: the chat of pages/index.vue and the page *)
(* pages/chat.vue over the relay, the workspaces of the session as         *)
(* useDevBridge.ts keeps them, and the histories of                        *)
(* useWorkspaceChatHistory.ts in localStorage.                             *)
(*                                                                         *)
(* An action is a task of the browser with the watchers that run when it   *)
(* ends.  Messages are numbers; a list of messages is the set of them:     *)
(* order, repetition and the limits of 50 and 150 are left out.  A page    *)
(* that was left lives on in its timers.                                   *)
(***************************************************************************)
EXTENDS Naturals

CONSTANTS
  Workspaces,   \* workspaces of the session
  Session,      \* the session's id, the key while no workspace is active
  Nothing,
  MaxMessages   \* bound: messages of the user and of agents

ASSUME ChatAssumption ==
  /\ MaxMessages \in Nat
  /\ Session \notin Workspaces /\ Nothing \notin Workspaces \cup {Session}

Message == 1 .. MaxMessages
Key     == Workspaces \cup {Session}
Page    == {"index", "chat", "settings"}

VARIABLES
  connected, \* status of the bridge
  rw,        \* relayWorkspaces
  active,    \* activeWorkspaceId
  choice,    \* vb:relayWorkspace:<session> in localStorage
  home,      \* home[m]: the key a message belongs to, Nothing before it is made
  log,       \* messages of agents the relay holds
  mounted,   \* the page that is mounted
  shown,     \* its chatMessages
  typing,    \* its aiTyping
  deadline,  \* its aiTypingDeadline
  saveTimer, \* chatHistorySaveTimer
  ghost,     \* chatMessages of an index page left while it was typing
  saved,     \* saved[k]: vb:chatHistory:<k> in localStorage
  haunted    \* has a page that was left written a history?

bridge   == <<connected, rw, active, choice>>
view     == <<mounted, shown, typing, deadline, saveTimer, ghost>>
chatVars == <<bridge, home, log, view, saved, haunted>>

ChatTypeOK ==
  /\ connected \in BOOLEAN /\ typing \in BOOLEAN
  /\ saveTimer \in BOOLEAN /\ haunted \in BOOLEAN
  /\ rw \subseteq Workspaces
  /\ active \in Workspaces \cup {Nothing} /\ choice \in Workspaces \cup {Nothing}
  /\ home \in [Message -> Key \cup {Nothing}]
  /\ log \subseteq Message /\ shown \subseteq Message
  /\ mounted \in Page
  /\ deadline \in {"none", "ahead", "passed"}
  /\ ghost = Nothing \/ ghost \subseteq Message
  /\ saved \in [Key -> SUBSET Message]

ChatInit ==
  /\ connected = FALSE /\ rw = {} /\ active = Nothing /\ choice = Nothing
  /\ home = [m \in Message |-> Nothing]
  /\ log = {}
  /\ mounted = "index" /\ shown = {} /\ typing = FALSE /\ deadline = "none"
  /\ saveTimer = FALSE /\ ghost = Nothing
  /\ saved = [k \in Key |-> {}]
  /\ haunted = FALSE

-----------------------------------------------------------------------------
(* Workspaces.                                                             *)

\* activeWorkspaceKey
KeyOf(w) == IF w = Nothing THEN Session ELSE w

\* setActiveWorkspace, persistActiveWorkspace
SetActive(w) == active' = w /\ choice' = w

\* Mutant: the workspace that speaks is preferred to the one chosen.
SyncFollows(list) ==
  /\ rw' = list
  /\ \E w \in IF list = {} THEN {choice} ELSE list : SetActive(w)

\* syncRelayWorkspaces: the stored one, else the one the relay calls active,
\* else the first, which may be any.
Sync(list) ==
  /\ rw' = list
  /\ \E w \in IF choice # Nothing THEN {choice}
            ELSE IF list = {} THEN {Nothing} ELSE list : SetActive(w)

Switched == KeyOf(active') # KeyOf(active)

-----------------------------------------------------------------------------
(* The chat of a page.                                                     *)

\* Mutant: every message puts the end of the wait off.
TypingExtended == typing' = TRUE /\ deadline' = "ahead"

\* setAiTyping(true) of index.vue, whose deadline stands until the wait ends;
\* chat.vue only sets aiTyping.
Typing ==
  IF mounted = "index"
  THEN typing' = (deadline # "passed")
       /\ deadline' = IF deadline = "passed" THEN "none" ELSE "ahead"
  ELSE typing' = TRUE /\ UNCHANGED deadline

\* The wait that setAiTyping(true) finds over ends with a message of its own
\* (appendAiMessage), which is saved like any other.
GivesUp == mounted = "index" /\ deadline = "passed"

\* setAiTyping(false)
TypingStops == typing' = FALSE /\ deadline' = "none"

\* Mutant: the page goes on with the messages it shows.
ShowStays(list) ==
  IF Switched THEN shown' = (IF mounted = "settings" THEN {} ELSE list) ELSE shown' = list

\* What the page shows when the task ends: the watcher of activeWorkspaceKey
\* loads the history of the new key, whatever the task appended.
Show(list) ==
  IF Switched /\ mounted # "settings" THEN shown' = saved'[KeyOf(active')] ELSE shown' = list

\* The listener of onMessage takes answers of the active workspace: index.vue
\* saves them 180 ms later, chat.vue at once, under the key of the moment.
Take(ms) ==
  LET new == IF mounted = "settings" THEN {} ELSE ms IN
  /\ saved' = IF mounted = "chat" /\ new # {}
              THEN [saved EXCEPT ![KeyOf(active')] = shown \cup new] ELSE saved
  /\ saveTimer' = (saveTimer \/ (mounted = "index" /\ new # {}))
  /\ Show(shown \cup new)
  /\ IF new # {} \/ Switched THEN TypingStops ELSE UNCHANGED <<typing, deadline>>
  /\ UNCHANGED <<mounted, ghost, haunted>>

\* Mutant: the listener takes the messages of every workspace.
WholeHistory == log

\* Messages of the relay's history that pass the listener's filter.
History == {m \in log : home[m] = active'}

-----------------------------------------------------------------------------
(* What the relay sends.                                                   *)

\* auth_ok: the workspaces, then the history.
Authenticated(list) ==
  /\ ~connected
  /\ connected' = TRUE
  /\ Sync(list)
  /\ Take(History)
  /\ UNCHANGED <<home, log>>

\* The answer fetchRelayStatus waited for.
StatusAnswer(list) ==
  /\ Sync(list)
  /\ Take(History)
  /\ UNCHANGED <<connected, home, log>>

\* workspace_connected and workspace_disconnected
WorkspaceConnected(w) ==
  /\ connected
  /\ Sync(rw \cup {w})
  /\ Take({})
  /\ UNCHANGED <<connected, home, log>>

WorkspaceDisconnected(w) ==
  /\ connected
  /\ Sync(rw \ {w})
  /\ Take({})
  /\ UNCHANGED <<connected, home, log>>

\* An agent answers: the relay keeps it, and the phone hears it if it is
\* connected and its workspace is the active one.
Answer(m, w) ==
  /\ home[m] = Nothing
  /\ home' = [home EXCEPT ![m] = w]
  /\ log' = log \cup {m}
  /\ UNCHANGED bridge
  /\ Take(IF connected /\ w = active THEN {m} ELSE {})

\* ai_typing, which no agent of this repository sends.
AiTyping ==
  /\ connected /\ mounted # "settings"
  /\ Typing
  /\ saveTimer' = (saveTimer \/ GivesUp)
  /\ UNCHANGED <<bridge, home, log, mounted, shown, ghost, saved, haunted>>

\* adapter_exit ends the wait of index.vue; so does a lost connection.
AdapterExit ==
  /\ connected /\ mounted = "index"
  /\ TypingStops
  /\ UNCHANGED <<bridge, home, log, mounted, shown, saveTimer, ghost, saved, haunted>>

Disconnected ==
  /\ connected
  /\ connected' = FALSE
  /\ IF mounted = "index" THEN TypingStops ELSE UNCHANGED <<typing, deadline>>
  /\ UNCHANGED <<rw, active, choice, home, log, mounted, shown, saveTimer, ghost, saved, haunted>>

-----------------------------------------------------------------------------
(* What the user does.                                                     *)

\* Mutant: a message waits for the answer to be saved with it.
AppendUnsaved(m) ==
  /\ shown' = shown \cup {m}
  /\ saved' = IF mounted = "chat" THEN [saved EXCEPT ![KeyOf(active)] = shown'] ELSE saved
  /\ UNCHANGED saveTimer

\* appendUserChatMessage of index.vue, appendUserMessage of chat.vue
AppendUser(m) ==
  /\ shown' = shown \cup {m}
  /\ saved' = IF mounted = "chat" THEN [saved EXCEPT ![KeyOf(active)] = shown'] ELSE saved
  /\ saveTimer' = (saveTimer \/ mounted = "index")

\* sendChat, sendQuickReply, sendMessage: index.vue does not ask whether it
\* is connected.
Say(m) ==
  /\ home[m] = Nothing
  /\ mounted = "index" \/ (mounted = "chat" /\ connected)
  /\ home' = [home EXCEPT ![m] = KeyOf(active)]
  /\ AppendUser(m)
  /\ Typing
  /\ UNCHANGED <<bridge, log, mounted, ghost, haunted>>

\* selectWorkspaceOrSession
Choose(w) ==
  /\ w \in rw /\ mounted # "settings"
  /\ SetActive(w)
  /\ Take({})
  /\ UNCHANGED <<connected, rw, home, log>>

\* clearChat
ClearChat ==
  /\ mounted = "chat"
  /\ shown' = {}
  /\ saved' = [saved EXCEPT ![KeyOf(active)] = {}]
  /\ UNCHANGED <<bridge, home, log, mounted, typing, deadline, saveTimer, ghost, haunted>>

\* The gear: onUnmounted clears the save that waits, not the typing timer.
\* Bound: one such page.
ToSettings ==
  /\ mounted = "index"
  /\ mounted' = "settings" /\ shown' = {} /\ saveTimer' = FALSE
  /\ ghost' = IF typing THEN shown ELSE ghost
  /\ TypingStops
  /\ UNCHANGED <<bridge, home, log, saved, haunted>>

\* And back: the page is set up anew.
ToIndex ==
  /\ mounted = "settings"
  /\ mounted' = "index" /\ shown' = saved[KeyOf(active)]
  /\ UNCHANGED <<bridge, home, log, typing, deadline, saveTimer, ghost, saved, haunted>>

\* A page load; the bridge finds its workspace in localStorage.
LoadPage(p) ==
  /\ p \in {"index", "chat"}
  /\ mounted' = p
  /\ connected' = FALSE /\ rw' = {} /\ active' = choice
  /\ shown' = saved[KeyOf(choice)]
  /\ TypingStops /\ saveTimer' = FALSE /\ ghost' = Nothing
  /\ UNCHANGED <<choice, home, log, saved, haunted>>

-----------------------------------------------------------------------------
(* Timers.                                                                 *)

\* chatHistorySaveTimer, of the page that is mounted.
SaveTimer ==
  /\ saveTimer
  /\ saveTimer' = FALSE
  /\ saved' = [saved EXCEPT ![KeyOf(active)] = shown]
  /\ UNCHANGED <<bridge, home, log, mounted, shown, typing, deadline, ghost, haunted>>

\* The 30 seconds are over, and aiTypingTimeout is due.
Late ==
  /\ deadline = "ahead"
  /\ deadline' = "passed"
  /\ UNCHANGED <<bridge, home, log, mounted, shown, typing, saveTimer, ghost, saved, haunted>>

TypingTimeout ==
  /\ mounted = "index" /\ typing /\ deadline = "passed"
  /\ TypingStops
  /\ saveTimer' = TRUE
  /\ UNCHANGED <<bridge, home, log, mounted, shown, ghost, saved, haunted>>

\* The same timer of a page that was left, and the save it schedules: its
\* messages, under the key of now.
GhostTimeout ==
  /\ ghost # Nothing
  /\ ghost' = Nothing
  /\ saved' = [saved EXCEPT ![KeyOf(active)] = ghost]
  /\ haunted' = TRUE
  /\ UNCHANGED <<bridge, home, log, mounted, shown, typing, deadline, saveTimer>>

-----------------------------------------------------------------------------
ChatNext ==
  \/ \E list \in SUBSET Workspaces : Authenticated(list) \/ StatusAnswer(list)
  \/ \E w \in Workspaces :
       WorkspaceConnected(w) \/ WorkspaceDisconnected(w) \/ Choose(w)
  \/ \E m \in Message : Say(m) \/ \E w \in Workspaces : Answer(m, w)
  \/ AiTyping \/ AdapterExit \/ Disconnected
  \/ ClearChat \/ ToSettings \/ ToIndex \/ \E p \in Page : LoadPage(p)
  \/ SaveTimer \/ Late \/ TypingTimeout \/ GhostTimeout

ChatSpec == ChatInit /\ [][ChatNext]_chatVars

\* The timers of a page fire.
FairChatSpec == ChatSpec /\ WF_chatVars(Late) /\ WF_chatVars(TypingTimeout)

-----------------------------------------------------------------------------
(* Properties.                                                             *)

\* The page never waits for ever: whatever frames and messages keep coming,
\* 30 seconds after the first the sign that the AI is typing goes away
\* (index.vue:1382).
TypingEnds == (mounted = "index" /\ typing) ~> ~(mounted = "index" /\ typing)

\* What is on the screen is what is stored for the workspace, or its save is
\* pending (index.vue:1590): no message of the user or of an agent is
\* appended on a path that forgets to save it.  A page that was left breaks
\* this when its timeout writes.
ScreenIsSaved ==
  ~haunted /\ mounted # "settings" =>
    shown = saved[KeyOf(active)] \/ (mounted = "index" /\ saveTimer)

\* A message is stored under the workspace it was exchanged with, or with the
\* session while it had none, through late saves, switches and replays
\* (index.vue:1593, chat.vue:334).  Again but for a page that was left.
HistoryIsOfItsWorkspace ==
  ~haunted => \A k \in Key : \A m \in saved[k] : home[m] \in {k, Session}

\* The workspace the user looks at is left only by his own choice, whichever
\* agents come and go, in whatever order status answers and frames arrive,
\* and over page loads (useDevBridge.ts:238).
ChosenWorkspaceStays ==
  [][\A w \in Workspaces : active = w /\ active' # w => \E v \in rw : Choose(v)]_chatVars

\* Violated: the same without an exception for pages that were left.
HistoryIsNeverMixed ==
  \A k \in Key : \A m \in saved[k] : home[m] \in {k, Session}

\* Violated: a message that was on the screen is in a history afterwards; a
\* switch, the way to the settings or a page load within 180 ms forgets it.
NothingForgotten ==
  [][\A m \in shown : m \in shown' \/ (\E k \in Key : m \in saved'[k]) \/ ClearChat]_chatVars

=============================================================================

---------------------------- MODULE AgentAdapters ----------------------------
(***************************************************************************)
(* The command-line assistants of the agent: how a message of a phone      *)
(* reaches an adapter (agent/src/server.ts, relay-client.ts), the process  *)
(* behind it (agent/src/adapters/pty-adapter.ts, codex-cli.ts,             *)
(* claude-cli.ts) and the dev-server address found in what it prints       *)
(* (pty-adapter.ts, ipc.ts).                                               *)
(*                                                                         *)
(* The process is external: it starts, may ask whether it should trust the *)
(* directory, shows its prompt, prints, and exits whenever it likes; a     *)
(* line that it reads while it asks is its answer.  node-pty delivers what *)
(* was printed before it reports the exit, in chunks of its own: the words *)
(* an adapter looks for may come in two of them.                           *)
(***************************************************************************)
EXTENDS AdapterManager

CONSTANTS
  Urls,         \* addresses of development servers
  MaxMessages,  \* bound: messages, actions and answers of phones
  MaxRuns,      \* bound: processes of one CLI
  MaxPrints     \* bound: addresses printed

ASSUME AdaptersAssumption ==
  /\ MaxMessages \in Nat /\ MaxRuns \in Nat /\ MaxPrints \in Nat
  /\ None \notin Urls
  /\ Urls \cap {"trust", "prompt", "part"} = {}

Codex   == "codex-cli"
Message == 1 .. MaxMessages
Phases  == {"none", "boot", "asks", "trusted", "prompt"}

\* "part": a question or a prompt whose words came in two chunks.
Chunks  == {"trust", "prompt", "part"} \cup Urls

VARIABLES
  pool,     \* the AdapterManager
  sent,     \* messages of phones so far
  phase,    \* phase[c]: what the process of c is at; "none": term is null
  runs,     \* runs[c]: processes of c so far
  out,      \* out[c]: printed and not yet delivered by the pty
  pending,  \* CodexCliAdapter.pending
  trusted,  \* CodexCliAdapter.trustAnswered
  ready,    \* CodexCliAdapter.ready
  given,    \* history: given[c]: the messages handed to the adapter c
  typed,    \* history: typed[c]: those the agent wrote to the processes of c
  early,    \* history: those written before the process showed its prompt
  cut,      \* history: cut[c]: the last question or prompt came in two chunks
  prints,   \* addresses printed so far
  first,    \* first[c]: the first address in PtyAdapter.outputBuf
  preview   \* IpcServer.previewUrl

process == <<phase, runs, typed, early, cut>>
codex   == <<pending, trusted, ready>>
vars    == <<pool, sent, process, out, codex, given, prints, first, preview>>

TypeOK ==
  /\ pool \in Pool
  /\ sent \in 0 .. MaxMessages
  /\ phase \in [CliIds -> Phases]
  /\ runs \in [CliIds -> 0 .. MaxRuns]
  /\ out \in [CliIds -> Seq(Chunks)]
  /\ pending \in Seq(Message)
  /\ trusted \in BOOLEAN /\ ready \in BOOLEAN
  /\ given \in [CliIds -> Seq(Message)]
  /\ typed \in [CliIds -> Seq(Message)]
  /\ early \in [CliIds -> SUBSET Message]
  /\ cut \in [CliIds -> BOOLEAN]
  /\ prints \in 0 .. MaxPrints
  /\ first \in [CliIds -> Urls \cup {None}]
  /\ preview \in Urls \cup {None}

Init ==
  /\ pool = NewPool
  /\ phase = [c \in CliIds |-> "none"]
  /\ out = [c \in CliIds |-> <<>>]
  /\ pending = <<>> /\ trusted = FALSE /\ ready = FALSE
  /\ given = [c \in CliIds |-> <<>>]
  /\ typed = [c \in CliIds |-> <<>>]
  /\ early = [c \in CliIds |-> {}]
  /\ cut = [c \in CliIds |-> FALSE]
  /\ first = [c \in CliIds |-> None]
  /\ preview = None
  /\ sent = 0
  /\ runs = [c \in CliIds |-> 0]
  /\ prints = 0

-----------------------------------------------------------------------------
(* The adapters.                                                           *)

\* The agent writes messages to the process of c, which it starts when there
\* is none (PtyAdapter.spawn).  Bound: MaxRuns.
Spawn(c) ==
  /\ phase[c] = "none" => runs[c] < MaxRuns
  /\ runs' = IF phase[c] = "none" THEN [runs EXCEPT ![c] = @ + 1] ELSE runs
  /\ cut' = IF phase[c] = "none" THEN [cut EXCEPT ![c] = FALSE] ELSE cut

Write(c, texts) ==
  /\ Spawn(c)
  /\ phase' = [phase EXCEPT ![c] = CASE @ = "none" -> "boot"
                                     [] @ = "asks" -> "trusted"
                                     [] OTHER      -> @]
  /\ typed' = [typed EXCEPT ![c] = @ \o texts]
  /\ early' = IF phase[c] = "prompt" THEN early
              ELSE [early EXCEPT ![c] = @ \cup ToSet(texts)]

\* The process is started and nothing is written.
Start(c) ==
  /\ Spawn(c)
  /\ phase' = [phase EXCEPT ![c] = IF @ = "none" THEN "boot" ELSE @]
  /\ UNCHANGED <<typed, early>>

\* Mutant: what waits belongs to the process that died.
SendCodexAfresh(n) ==
  /\ IF ready THEN Write(Codex, <<n>>) /\ UNCHANGED pending
     ELSE /\ Start(Codex)
          /\ pending' = IF phase[Codex] = "none" THEN <<n>> ELSE Append(pending, n)
  /\ UNCHANGED <<trusted, ready>>

\* CodexCliAdapter.send: kept until the prompt was seen.
SendCodex(n) ==
  /\ IF ready THEN Write(Codex, <<n>>) /\ UNCHANGED pending
     ELSE Start(Codex) /\ pending' = Append(pending, n)
  /\ UNCHANGED <<trusted, ready>>

\* PtyAdapter.send, which ClaudeCliAdapter inherits.
SendPty(c, n) == Write(c, <<n>>) /\ UNCHANGED codex

\* AdapterManager.send, and the send() it calls: the adapter named, else the
\* active one.  Without one the message is dropped; what the adapter of an
\* editor gets goes over its pipe.
Send(n, tool) ==
  LET c == Receiver(pool, tool) IN
  IF c \in CliIds /\ Known(pool, c)
  THEN /\ IF c = Codex THEN SendCodex(n) ELSE SendPty(c, n)
       /\ given' = [given EXCEPT ![c] = Append(@, n)]
  ELSE UNCHANGED <<process, codex, given>>

\* Mutant: nothing is flushed before the trust question was answered.
FlushTrustedOnly(chunk) ==
  /\ chunk = "prompt" /\ ~ready /\ trusted
  /\ ready' = TRUE
  /\ pending' = <<>>
  /\ Write(Codex, pending)
  /\ UNCHANGED trusted

\* onDataChunk: the prompt is seen for the first time.
Flush(chunk) ==
  /\ chunk = "prompt" /\ ~ready
  /\ ready' = TRUE
  /\ pending' = <<>>
  /\ Write(Codex, pending)
  /\ UNCHANGED trusted

\* onDataChunk: the trust question, when it is seen for the first time, is
\* answered with 1.
AnswerTrust(chunk) ==
  /\ chunk = "trust" /\ ~trusted
  /\ trusted' = TRUE
  /\ Write(Codex, <<>>)
  /\ UNCHANGED <<pending, ready>>

\* onDataChunk: everything else; each chunk is searched alone.
Ignore(c, chunk) ==
  /\ c = Codex => ~(chunk = "prompt" /\ ~ready) /\ ~(chunk = "trust" /\ ~trusted)
  /\ UNCHANGED <<process, codex>>

\* onData: outputBuf, onDataChunk, and the queue, whose listener in ipc.ts
\* keeps the last address; getPreviewUrl of the adapter finds the first.
Deliver(c) ==
  /\ out[c] # <<>>
  /\ out' = [out EXCEPT ![c] = Tail(@)]
  /\ LET chunk == Head(out[c]) IN
       /\ \/ c = Codex /\ AnswerTrust(chunk)
          \/ c = Codex /\ Flush(chunk)
          \/ Ignore(c, chunk)
       /\ first' = IF chunk \in Urls /\ first[c] = None
                   THEN [first EXCEPT ![c] = chunk] ELSE first
       /\ preview' = IF chunk \in Urls THEN chunk ELSE preview
  /\ UNCHANGED <<pool, sent, given, prints>>

\* onExit.
Exit(c) ==
  /\ phase[c] # "none"
  /\ out[c] = <<>>
  /\ phase' = [phase EXCEPT ![c] = "none"]
  /\ UNCHANGED <<pool, sent, runs, typed, early, cut, out, codex, given, prints, first, preview>>

-----------------------------------------------------------------------------
(* What phones and the editor do.                                          *)

New == sent < MaxMessages /\ sent' = sent + 1

\* A message without a terminal: the handler of 'message', POST /message and
\* 'chat' of the relay.
PhoneMessage(tool) ==
  /\ New
  /\ Send(sent + 1, tool)
  /\ UNCHANGED <<pool, out, prints, first, preview>>

\* notif_response: the note goes to whichever adapter is active.
NotifResponse == PhoneMessage(None)

\* POST /action: the line goes to the active adapter; without one the answer is
\* 500.
LocalAction == PhoneMessage(None)

\* The agent ends and is started again: its processes end with it, and what
\* waited in its memory is gone.
Ended ==
  /\ pool' = NewPool
  /\ phase' = [c \in CliIds |-> "none"]
  /\ out' = [c \in CliIds |-> <<>>]
  /\ pending' = <<>> /\ trusted' = FALSE /\ ready' = FALSE
  /\ given' = [c \in CliIds |-> <<>>]
  /\ typed' = [c \in CliIds |-> <<>>]
  /\ early' = [c \in CliIds |-> {}]
  /\ cut' = [c \in CliIds |-> FALSE]
  /\ first' = [c \in CliIds |-> None]
  /\ preview' = None
  /\ UNCHANGED <<runs, prints>>

Restart == Ended /\ UNCHANGED sent

\* 'action' of the relay: without an adapter nobody handles the rejection of
\* runAction, and the process ends.
RelayAction ==
  /\ New
  /\ IF pool.active = None THEN Ended
     ELSE /\ Send(sent + 1, None)
          /\ UNCHANGED <<pool, out, prints, first, preview>>

\* adapter_toggle, of either path: setActive may throw, which both catch.
AdapterToggle(id) ==
  /\ pool' = SetActive(pool, id)
  /\ UNCHANGED <<sent, process, out, codex, given, prints, first, preview>>

\* An editor's adapter comes and goes with its pipe.
EditorComes(p) ==
  /\ pool' = RegisterIpcAdapter(pool, p)
  /\ UNCHANGED <<sent, process, out, codex, given, prints, first, preview>>

EditorGoes ==
  /\ Known(pool, EditorId)
  /\ pool' = Unregister(pool, EditorId)
  /\ UNCHANGED <<sent, process, out, codex, given, prints, first, preview>>

-----------------------------------------------------------------------------
(* The process of a CLI.                                                   *)

\* The words come in one chunk, or in two: only the adapter of Codex looks.
Show(c, from, to, words) ==
  /\ phase[c] \in from
  /\ phase' = [phase EXCEPT ![c] = to]
  /\ \E chunk \in {words} \cup (IF c = Codex THEN {"part"} ELSE {}) :
       /\ out' = [out EXCEPT ![c] = Append(@, chunk)]
       /\ cut' = [cut EXCEPT ![c] = chunk = "part"]
  /\ UNCHANGED <<pool, sent, runs, typed, early, codex, given, prints, first, preview>>

AskTrust(c)   == Show(c, {"boot"}, "asks", "trust")
ShowPrompt(c) == Show(c, {"boot", "trusted"}, "prompt", "prompt")

\* Bound: MaxPrints.
PrintUrl(c, u) ==
  /\ phase[c] = "prompt"
  /\ prints < MaxPrints
  /\ prints' = prints + 1
  /\ out' = [out EXCEPT ![c] = Append(@, u)]
  /\ UNCHANGED <<pool, sent, process, codex, given, first, preview>>

-----------------------------------------------------------------------------
Phones ==
  \/ \E tool \in AdapterIds \cup {None} : PhoneMessage(tool)
  \/ NotifResponse \/ LocalAction \/ RelayAction
  \/ \E id \in AdapterIds : AdapterToggle(id)

Next ==
  \/ Phones
  \/ Restart
  \/ \E p \in Pipe : EditorComes(p)
  \/ EditorGoes
  \/ \E c \in CliIds : Deliver(c) \/ Exit(c) \/ AskTrust(c) \/ ShowPrompt(c)
                       \/ \E u \in Urls : PrintUrl(c, u)

Spec == Init /\ [][Next]_vars

\* The event loop delivers what was printed; a process that starts asks or
\* shows its prompt.  Nothing makes a process exit.
FairSpec ==
  /\ Spec
  /\ \A c \in CliIds : WF_vars(Deliver(c)) /\ WF_vars(AskTrust(c) \/ ShowPrompt(c))

-----------------------------------------------------------------------------
(* Properties.                                                             *)

\* Every message handed to a CLI is written to its processes once and in the
\* order it came, or waits in that order behind them, however often the
\* process died, asked or was started again in between (codex-cli.ts:19-48).
MessagesInOrder ==
  \A c \in CliIds :
    given[c] = IF c = Codex THEN typed[c] \o pending ELSE typed[c]

\* What waits for the prompt of Codex is written, unless the process dies,
\* asks a second time what the agent answers once, or says in two chunks what
\* the agent looks for in each alone (codex-cli.ts:31, 37).
PendingIsTyped ==
  pending # <<>>
    ~> \/ pending = <<>>
       \/ phase[Codex] = "none"
       \/ phase[Codex] = "asks" /\ trusted
       \/ cut[Codex]

\* Violated: Codex gets no message before it has shown its prompt.  `ready`
\* is not reset when the process exits.
NothingTypedEarly == early[Codex] = {}

\* Violated: what waits is written while a process lives that says in one
\* chunk what is looked for.  trustAnswered is not reset either.
PendingIsTypedWhileAlive ==
  pending # <<>> ~> pending = <<>> \/ phase[Codex] = "none" \/ cut[Codex]

\* getPreviewUrl() of the manager, or else of ipc.ts.
StatusPreview ==
  LET found == SelectSeq(pool.adapters,
                         LAMBDA a : a.id \in CliIds /\ first[a.id] # None)
  IN IF found = <<>> THEN preview ELSE first[found[1].id]

\* Violated: the address a phone reads is the one it was told last.
PreviewIsLatest == StatusPreview = preview

=============================================================================

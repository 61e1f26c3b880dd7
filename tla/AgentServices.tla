---------------------------- MODULE AgentServices ----------------------------
(***************************************************************************)
(* The two services of the agent that keep a file, in one process: the CLI *)
(* registry and the push subscriptions, and what is around them: the       *)
(* endpoints of agent/src/server.ts, the report of the editor              *)
(* (extension/src/extension.ts), the broadcasts of agent/src/index.ts and  *)
(* ipc.ts, and the settings page of a phone beside the agent               *)
(* (nuxt-ui/pages/settings.vue).                                           *)
(*                                                                         *)
(* A list the page shows, or that is on its way to it, is fresh while it   *)
(* is the list the registry has.                                           *)
(***************************************************************************)
EXTENDS CliRegistry, PushService

CONSTANT MaxRequests  \* bound: requests, reports, notifications

ASSUME ServicesAssumption == MaxRequests \in Nat

Calls == {"list", "detect", "default", "add", "remove"}

VARIABLES
  requests,  \* requests, reports and notifications so far
  cliList,   \* TRUE: the page shows the list the registry has
  call,      \* the request of the page the agent has not answered
  answer,    \* the answer on its way to the page
  updates    \* clis_update on their way to the page, in order

page == <<cliList, call, answer, updates>>
vars == <<registry, push, requests, page>>

TypeOK ==
  /\ RegistryTypeOK
  /\ PushTypeOK
  /\ requests \in 0 .. MaxRequests
  /\ cliList \in BOOLEAN
  /\ call \in Calls \cup {"detecting", None}
  /\ answer \in {None} \cup [to : Calls, fresh : BOOLEAN]
  /\ updates \in Seq(BOOLEAN)

Init ==
  /\ InitRegistry
  /\ InitPush
  /\ requests = 0
  /\ cliList = FALSE
  /\ call = None
  /\ answer = None
  /\ updates = <<>>

-----------------------------------------------------------------------------
Counted == requests < MaxRequests /\ requests' = requests + 1

\* What is fresh stays fresh while the list is the same.
Same == clis' = clis
Aged(news) == [i \in DOMAIN news |-> news[i] /\ Same]

\* The list goes to the page.
Broadcast(times) == updates' = Aged(updates) \o [i \in 1 .. times |-> TRUE]
Quiet == updates' = Aged(updates)

Answer(to, fresh) ==
  /\ call' = None
  /\ answer' = [to |-> to, fresh |-> fresh]

Waiting ==
  /\ UNCHANGED call
  /\ answer' = IF answer = None THEN None ELSE [answer EXCEPT !.fresh = @ /\ Same]

\* agentFetch: a request of the page, one at a time.
Ask(c) ==
  /\ Counted
  /\ call = None /\ answer = None
  /\ call' = c
  /\ UNCHANGED <<registry, push, cliList, answer, updates>>

\* The page is opened, or the user presses a button.
OpenPage   == Ask("list")
DetectClis == Ask("detect")
ChooseCli  == Ask("default")
AddCli     == Ask("add")
RemoveCli  == Ask("remove")

\* GET /clis
HandleList ==
  /\ call = "list"
  /\ Answer("list", TRUE)
  /\ UNCHANGED <<registry, push, requests, cliList, updates>>

\* POST /clis/detect: answered when the detection is over.
HandleDetect ==
  /\ call = "detect"
  /\ DetectAll
  /\ call' = "detecting"
  /\ UNCHANGED <<push, requests, cliList, answer, updates>>

\* POST /clis/default and POST /clis/custom.  The list has changed and
\* onChange is not called.
HandleDefault(written) ==
  /\ call = "default"
  /\ \E name \in CliNames : SetDefault(name, written)
  /\ Answer("default", TRUE)
  /\ Quiet /\ cliList' = (cliList /\ Same)
  /\ UNCHANGED <<push, requests>>

HandleAdd(written) ==
  /\ call = "add"
  /\ \E id \in Customs : AddCustom(id, written)
  /\ Answer("add", TRUE)
  /\ Quiet /\ cliList' = (cliList /\ Same)
  /\ UNCHANGED <<push, requests>>

\* DELETE /clis/:id; its answer has no list.  The page will filter its own,
\* which is right when that was fresh.
HandleRemove(written) ==
  /\ call = "remove"
  /\ \E id \in Customs : RemoveCustom(id, written)
  /\ Answer("remove", cliList)
  /\ Quiet /\ cliList' = (cliList /\ Same)
  /\ UNCHANGED <<push, requests>>

\* A command of a detection ends; with the last one the registry tells
\* everybody and the request that started it is answered.
Detected ==
  /\ \E i \in DOMAIN scans : \E id \in scans[i] :
       /\ Checked(i, id)
       /\ IF scans[i] = {id}
          THEN /\ Broadcast(1)
               /\ IF call = "detecting" /\ i = Len(scans) THEN Answer("detect", TRUE)
                  ELSE Waiting
          ELSE Quiet /\ Waiting
  /\ cliList' = (cliList /\ Same)
  /\ UNCHANGED <<push, requests>>

\* What the editor finds where it runs: it looks for built-in commands only.
DetectInstalledClis == Host \cap ToSet(Builtins)

\* cli_report of an editor that connected: onChange tells everybody, and so
\* does the handler.
CliReport ==
  /\ Counted
  /\ ApplyExtensionReport(DetectInstalledClis)
  /\ Broadcast(2)
  /\ Waiting
  /\ cliList' = (cliList /\ Same)
  /\ UNCHANGED push

\* The page has the answer.
HandleAnswer ==
  /\ answer # None
  /\ cliList' = (answer.fresh \/ (answer.to = "remove" /\ cliList))
  /\ answer' = None
  /\ UNCHANGED <<registry, push, requests, call, updates>>

HandleUpdate ==
  /\ updates # <<>>
  /\ cliList' = Head(updates)
  /\ updates' = Tail(updates)
  /\ UNCHANGED <<registry, push, requests, call, answer>>

\* A step of the push service and its phones.
Push(written) ==
  /\ \/ StartPush /\ Counted
     \/ GoOnPush(written) /\ UNCHANGED requests
  /\ UNCHANGED <<registry, page>>

\* The agent starts again; a file it was writing may be broken, the one or the
\* other.  The page loses its socket and what was on its way.
Restart(cliFile, pushFile) ==
  /\ RegistryRestart(cliFile)
  /\ PushRestart(pushFile)
  /\ cliList' = (cliList /\ Same)
  /\ call' = None /\ answer' = None /\ updates' = <<>>
  /\ UNCHANGED requests

Next ==
  \/ OpenPage \/ DetectClis \/ ChooseCli \/ AddCli \/ RemoveCli
  \/ HandleList \/ HandleDetect
  \/ \E written \in BOOLEAN :
       HandleDefault(written) \/ HandleAdd(written) \/ HandleRemove(written)
  \/ Detected \/ CliReport
  \/ HandleAnswer \/ HandleUpdate
  \/ \E written \in BOOLEAN : Push(written)
  \/ Restart(config, file)
  \/ Restart(None, file) \/ Restart(config, {})

Spec == Init /\ [][Next]_vars

-----------------------------------------------------------------------------
(* Properties; ChoiceIsKept and LiveStaysSubscribed are checked here too.  *)

\* Violated: when nothing is under way, the page shows the registry's list
\* (settings.vue:482).  The answer of a request and the updates of the socket
\* overtake each other.
PageFollows ==
  call = None /\ answer = None /\ updates = <<>> /\ scans = <<>>
    => cliList

\* Violated: every change of the list is announced (cliRegistry.ts:50).
ChangesAreAnnounced == [][clis' # clis /\ scans = <<>> /\ scans' = scans => Len(updates') > Len(updates)]_vars

\* Violated: the report of the editor counts more than the agent's own
\* detection (cliRegistry.ts:109).
ReportWins ==
  [][\A i \in DOMAIN clis : clis[i].detected /\ clis[i].id \in Host /\ Keys(clis') = Keys(clis)
       => At(clis', clis[i].id).detected]_vars

=============================================================================

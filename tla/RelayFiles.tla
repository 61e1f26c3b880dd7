----------------------------- MODULE RelayFiles -----------------------------
(***************************************************************************)
(* A file on its way from an agent to the screen of a phone: the file pane *)
(* of the phone (PhoneFiles), the HTTP request it makes of the relay, and  *)
(* the relay (RelayHub), which asks an agent over its socket, waits five   *)
(* seconds, and may be restarted meanwhile.                                *)
(*                                                                         *)
(* Every request has a promise of the page that made it.  When the page is *)
(* left the promise is still settled, for a pane nobody sees.              *)
(***************************************************************************)
EXTENDS RelayHub

CONSTANTS
  Files,    \* files of the project
  MaxOpen   \* bound: requests for one file under way

ASSUME FilesAssumption == MaxOpen \in Nat /\ None \notin Files

VARIABLES screen, selected, content, loading, reading,  \* of PhoneFiles
          fileOf  \* fileOf[r]: the file the open page waits for with request r

Pane == INSTANCE PhoneFiles

pane == <<screen, selected, content, loading, reading, fileOf>>
allVars == <<vars, pane>>

FilesInit ==
  /\ Init
  /\ Pane!Init
  /\ fileOf = [r \in Requests |-> None]

\* A tap, or file_changed: the pane fetches .../files?workspaceId=&path=.
ReadFile(r, f, s, w) ==
  /\ Pane!OpenFile(f) \/ Pane!FileChanged(f)
  /\ RequestFile(r, s, w)
  /\ fileOf' = [fileOf EXCEPT ![r] = f]

\* The promise of fetch is settled.  An answer may say that the agent has no
\* such file; after a restart of the relay it is rejected.
Heard(r) ==
  /\ fileOf[r] # None
  /\ outcome[r] \in {"answered", "timeout", "unavailable", "lost"}
  /\ \/ outcome[r] = "answered" /\ Pane!FileAnswered(fileOf[r])
     \/ Pane!FileFailed(fileOf[r])
     \/ Pane!FileFailedInCode(fileOf[r])
  /\ fileOf' = [fileOf EXCEPT ![r] = None]
  /\ UNCHANGED vars

\* The user chooses another workspace, or goes to another page.
Switch == Pane!SwitchWorkspace /\ UNCHANGED <<vars, fileOf>>

Leave ==
  /\ \E p \in {"index", "code"} : Pane!Visit(p)
  /\ fileOf' = [r \in Requests |-> None]
  /\ UNCHANGED vars

FilesNext ==
  \/ Next /\ UNCHANGED pane
  \/ \E r \in Requests :
       \/ \E f \in Files, s \in Sessions, w \in Workspaces \cup {None} :
            ReadFile(r, f, s, w)
       \/ Heard(r)
  \/ Switch
  \/ Leave

\* Timers of the relay fire, and what it answers arrives.  Nothing is assumed
\* of agents.
FilesSpec ==
  /\ FilesInit
  /\ [][FilesNext]_allVars
  /\ \A r \in Requests :
       WF_allVars(RequestTimeout(r) /\ UNCHANGED pane) /\ WF_allVars(Heard(r))

-----------------------------------------------------------------------------
(* Properties; WaitingIsPending of RelayHub is checked here too.           *)

\* The spinner of the phone does not turn for ever (relay/src/server.ts:289,
\* index.vue:1119, code.vue:158): whether the agent answers, forgets, closes
\* its socket or takes another one, whether the relay is restarted, the session
\* is pruned, or the user opens another file meanwhile.
SpinnerEnds == []<>(~loading)

\* While the spinner turns there is a promise that the open page waits for: its
\* request is settled, or in the map of the relay, whose timer will settle it
\* (relay/src/server.ts:289).  The spinner, the promises and the map are of two
\* processes, either of which forgets its own.
SpinnerIsTimed ==
  loading => \E r \in Requests :
    /\ fileOf[r] # None /\ outcome[r] # "unsent"
    /\ outcome[r] = "waiting" => r \in pending

\* Violated: the file on the screen is the one that is selected, also after a
\* switch of the workspace with a request under way.
ContentIsOfSelection == Pane!ContentIsOfSelection
=============================================================================

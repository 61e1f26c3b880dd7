----------------------------- MODULE PhoneFiles -----------------------------
(***************************************************************************)
(* The file pane of the phone, on pages/index.vue and on pages/code.vue: a *)
(* file is opened, changes on the disk of the agent, and is read over      *)
(* HTTP.  Two answers may overtake each other; the pages do not compare an *)
(* answer with the file selected.                                          *)
(***************************************************************************)
EXTENDS Naturals

CONSTANTS
  Files,    \* files of the project
  MaxOpen,  \* bound: requests for one file under way
  None

Error == "[ERREUR]"  \* what code.vue shows for a file it did not get

VARIABLES
  screen,   \* the page that is open
  selected, \* selectedFile, activePath
  content,  \* the file selectedFileContent, fileContent is of
  loading,  \* selectedFileLoading, loading
  reading   \* requests of this page for a file that are not answered

vars == <<screen, selected, content, loading, reading>>

TypeOK ==
  /\ screen \in {"index", "code"}
  /\ selected \in Files \cup {None} /\ content \in Files \cup {None, Error}
  /\ loading \in BOOLEAN /\ reading \in [Files -> 0 .. MaxOpen]

\* The pane of a page that is set up.
Blank ==
  [selected |-> None, content |-> None, loading |-> FALSE,
   reading |-> [f \in Files |-> 0]]

Init ==
  /\ screen \in {"index", "code"}
  /\ selected = Blank.selected /\ content = Blank.content
  /\ loading = Blank.loading /\ reading = Blank.reading

\* loadSelectedFileContent, openFile: by a tap of the user.
OpenFile(f) ==
  /\ reading[f] < MaxOpen
  /\ reading' = [reading EXCEPT ![f] = @ + 1]
  /\ selected' = f /\ content' = None /\ loading' = TRUE
  /\ UNCHANGED screen

\* file_changed
FileChanged(f) == selected = f /\ OpenFile(f)

\* The watchers of the workspace.  A request goes on.
SwitchWorkspace ==
  /\ selected' = None /\ content' = None
  /\ UNCHANGED <<screen, loading, reading>>

Answered(f) ==
  /\ reading[f] > 0
  /\ reading' = [reading EXCEPT ![f] = @ - 1]
  /\ loading' = FALSE
  /\ UNCHANGED <<screen, selected>>

\* Its content, whichever file is selected by now.
FileAnswered(f) == Answered(f) /\ content' = f

\* Mutant: an early return without its finally.
FileFailedKeepsLoading(f) ==
  /\ screen = "index" /\ reading[f] > 0
  /\ reading' = [reading EXCEPT ![f] = @ - 1]
  /\ UNCHANGED <<screen, selected, content, loading>>

\* index.vue has a place of its own for the error.
FileFailed(f) == screen = "index" /\ Answered(f) /\ UNCHANGED content

FileFailedInCode(f) == screen = "code" /\ Answered(f) /\ content' = Error

\* Another page, or this one anew: answers go to the page that was left.
Visit(p) ==
  /\ screen' = p
  /\ selected' = Blank.selected /\ content' = Blank.content
  /\ loading' = Blank.loading /\ reading' = Blank.reading

Next ==
  \/ SwitchWorkspace
  \/ \E f \in Files :
       \/ OpenFile(f) \/ FileChanged(f)
       \/ FileAnswered(f) \/ FileFailed(f) \/ FileFailedInCode(f)
  \/ \E p \in {"index", "code"} : Visit(p)

Spec == Init /\ [][Next]_vars

\* The spinner turns only while a request is under way (finally, index.vue:1119
\* and 1137, code.vue:158 and 174).
LoadingIsReading == loading => \E f \in Files : reading[f] > 0

\* Violated: the file on the screen is the one that is selected; the answer
\* for a file that was selected before is shown under the name of another.
ContentIsOfSelection == content \in Files => content = selected
=============================================================================

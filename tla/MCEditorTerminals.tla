------------------------- MODULE MCEditorTerminals -------------------------
(* EditorTerminals for TLC: one window that may have two sockets to the     *)
(* agent open at once.                                                      *)
EXTENDS EditorTerminals, TLC

CONSTANTS w1

TwoSockets == {<<w1, 1>>, <<w1, 2>>}

\* Nothing came by the second socket that can still be seen.
SecondUnused ==
  LET c == <<w1, 2>> IN
  /\ c \notin clients /\ down[c] = <<>> /\ chat[c] = <<>> /\ lost[c] = {}
  /\ \A i \in DOMAIN timers[w1] : timers[w1][i].via # c
  /\ \A id \in Ids : \A i \in DOMAIN input[w1][id] : input[w1][id][i].via # c

\* Bound: the last message and the last terminal are for a window with one
\* socket.
Bounded == (sent' < MaxMessages /\ made'[w1] < MaxTerminals) \/ SecondUnused'

\* FairTerminalsSpec within the bound, which holds back no timer and no line
\* but one that would make the last terminal.
BoundedSpec ==
  /\ TerminalsInit /\ [][TerminalsNext /\ Bounded]_terminalVars
  /\ \A c \in Sockets : /\ WF_terminalVars(ReadLine(c) /\ Bounded)
                        /\ WF_terminalVars(ReadKill(c))
  /\ \A w \in Editors : WF_terminalVars(Fire(w))

=============================================================================

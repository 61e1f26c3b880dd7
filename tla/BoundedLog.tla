----------------------------- MODULE BoundedLog -----------------------------
(***************************************************************************)
(* What the relay's history promises a phone that comes back: for every    *)
(* session that is open, the most recent messages, as many as the limit    *)
(* allows, in the order in which they were relayed.  Messages are          *)
(* identified by their number in the session.                              *)
(***************************************************************************)
EXTENDS Naturals, Sequences, SequencesExt

CONSTANTS Sessions, Limit

VARIABLES isOpen, log, count

vars == <<isOpen, log, count>>

Newest(q, n) == SubSeq(q, IF Len(q) > n THEN Len(q) - n + 1 ELSE 1, Len(q))

Init ==
  /\ isOpen = [s \in Sessions |-> FALSE]
  /\ log = [s \in Sessions |-> <<>>]
  /\ count = [s \in Sessions |-> 0]

Open(s) ==
  /\ ~isOpen[s]
  /\ count[s] = 0
  /\ isOpen' = [isOpen EXCEPT ![s] = TRUE]
  /\ UNCHANGED <<log, count>>

Add(s) ==
  /\ isOpen[s]
  /\ count' = [count EXCEPT ![s] = @ + 1]
  /\ log' = [log EXCEPT ![s] = Newest(Append(@, count[s] + 1), Limit)]
  /\ UNCHANGED isOpen

\* Old messages are forgotten, oldest first, in any number of sessions;
\* a session that ends takes its messages with it.
Forget ==
  /\ \A s \in Sessions : isOpen'[s] => isOpen[s]
  /\ \A s \in Sessions :
       IF isOpen'[s] THEN IsSuffix(log'[s], log[s]) ELSE log'[s] = <<>>
  /\ UNCHANGED count

Next == (\E s \in Sessions : Open(s) \/ Add(s)) \/ Forget

Spec == Init /\ [][Next]_vars
=============================================================================

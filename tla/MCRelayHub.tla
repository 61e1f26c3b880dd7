----------------------------- MODULE MCRelayHub -----------------------------
(* RelayHub on small instances.                                            *)
EXTENDS RelayHub, FiniteSets

\* Sockets and requests are only compared: permuting them changes nothing.
Symmetry == Permutations(Sockets) \cup Permutations(Workspaces)
=============================================================================

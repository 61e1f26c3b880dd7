----------------------------- MODULE MCDevBridge -----------------------------
(* DevBridge on small instances.                                            *)
EXTENDS DevBridge, TLC

\* The relay's tokens and the sockets are only compared.
Symmetry ==
  Permutations(RelayTokens) \cup Permutations(Sockets)
=============================================================================

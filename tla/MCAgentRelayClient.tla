------------------------- MODULE MCAgentRelayClient -------------------------
(* AgentRelayClient on small instances.                                    *)
EXTENDS AgentRelayClient, TLC

Symmetry == Permutations(Sockets) \cup Permutations(Tasks)
=============================================================================

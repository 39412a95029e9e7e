----------------------------- MODULE MCAgentLink -----------------------------
(* AgentLink for TLC.                                                       *)
EXTENDS AgentLink, TLC

\* Sessions are slots without identity.
Symmetry == Permutations(Sessions)
=============================================================================

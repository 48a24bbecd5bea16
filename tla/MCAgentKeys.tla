---------------------------- MODULE MCAgentKeys ----------------------------
(* Instances of AgentKeys for TLC. *)
EXTENDS AgentKeys, TLC

CONSTANTS a, b, k1, k2

\* The environment knows a under its first key, and b not at all.
MCEnv == a :> k1 @@ b :> NoKey

CallSymmetry == Permutations(Calls)
=============================================================================

--------------------------- MODULE MCAgentRegistry ---------------------------
(***************************************************************************)
(* Instances of AgentRegistry for TLC: tokens for one host that spells its *)
(* name in two ways, and another host that tries them.                     *)
(***************************************************************************)
EXTENDS AgentRegistry, TLC

CONSTANTS hyper, HYPER, other

MCFold(h)   == IF h = HYPER THEN hyper ELSE h
MCMintedFor == [t \in Tokens |-> hyper]

Symmetry == Permutations(Ids) \cup Permutations(Tokens)
==============================================================================

---------------------------- MODULE MCAgentDrafts ----------------------------
(***************************************************************************)
(* AgentDrafts for TLC: drafts, background tasks and requests are alike.   *)
(***************************************************************************)
EXTENDS AgentDrafts, TLC

MCSymmetry == Permutations(Drafts) \cup Permutations(Workers) \cup Permutations(Requests)
==============================================================================

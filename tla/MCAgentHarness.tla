--------------------------- MODULE MCAgentHarness ---------------------------
(***************************************************************************)
(* Small instances of AgentHarness: one slot at a time and one name more   *)
(* than may be created (or a single name), two messages and one or two     *)
(* waits, so that a message can race a wait, the end of a run and its own  *)
(* predecessor; one agent death, so that a slot is freed by a :DOWN; one   *)
(* restart of the instance.                                                *)
(***************************************************************************)
EXTENDS AgentHarness, TLC

\* The names are interchangeable.
Symmetry == Permutations(Subs)
=============================================================================

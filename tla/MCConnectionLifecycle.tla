------------------------ MODULE MCConnectionLifecycle ------------------------
(* Small instances of ConnectionLifecycle for TLC. *)
EXTENDS ConnectionLifecycle, TLC

Symmetry == Permutations(RecipientTabs) \union Permutations(RequesterTabs)
==============================================================================

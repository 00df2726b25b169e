--------------------------- MODULE MCDocumentGrants ---------------------------
(* Small instances of DocumentGrants for TLC. *)
EXTENDS DocumentGrants, TLC

Symmetry == Permutations(Tabs)
==============================================================================

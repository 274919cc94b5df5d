----------------------------- MODULE MCHistory -----------------------------
(* Three transactions of any kinds beside a client that pages once through *)
(* one of the lists, a row to a page, so that every row is a boundary.     *)
EXTENDS History, TLC

Symmetry == Permutations(Txns)
=============================================================================

------------------------------ MODULE MCDbjSql ------------------------------
(* DbjSql with interchangeable statements and databases, for TLC. *)
EXTENDS DbjSql, TLC

Symmetry == Permutations(Statements) \cup Permutations(Databases)
=============================================================================

------------------------------ MODULE MCQueries ------------------------------
(* Instances of Queries: those of MCMatching, with other bounds. *)
EXTENDS MCMatching, Queries

CONSTANT c1

ReadBudget == Bounds(3, 0, 0, 0)
=============================================================================

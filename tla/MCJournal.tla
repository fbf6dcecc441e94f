------------------------------ MODULE MCJournal ------------------------------
(* Instances of Journal: those of MCMatching. *)
EXTENDS MCMatching, Journal
=============================================================================

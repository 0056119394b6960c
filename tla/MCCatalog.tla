------------------------------ MODULE MCCatalog ------------------------------
(* Catalog with tables of two columns that can be dropped, added and renamed. *)
EXTENDS Catalog, TLC

CONSTANTS x, y, z

TwoColumns == <<x, y>>
TablesAlike == Permutations(TableNames)
=============================================================================

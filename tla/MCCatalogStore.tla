--------------------------- MODULE MCCatalogStore ---------------------------
(* Instances of CatalogStore for TLC. *)
EXTENDS CatalogStore, TLC

Named(t, cols, key) ==
  [name |-> <<"hatp", "public", t>>, layout |-> [cols |-> cols, pk |-> <<key>>]]

\* Two layouts of one table that differ in the key, one that differs in the place
\* of the key column, another table, and a definition with a duplicate column.
MCTables ==
  {Named("a", <<"k", "v">>, "k"), Named("a", <<"k", "v">>, "v"), Named("a", <<"v", "k">>, "k"),
   Named("b", <<"k">>, "k"), Named("b", <<"k", "k">>, "k")}

Symmetry == Permutations(Client)
=============================================================================

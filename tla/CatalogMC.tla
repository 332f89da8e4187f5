----------------------------- MODULE CatalogMC -----------------------------
(* Instances of Catalog for TLC. *)
EXTENDS Catalog

CONSTANTS h1, h2, a, b, c

\* One table, and (the shortest names of this kind) two that share a key: "b.c" in "a",
\* and "c" in "a.b".
OneDataset == {<<a>>}
OneTable == {<<b>>}
TwoDatasets == {<<a>>, <<a, b>>}
TwoTables == {<<c>>, <<b, c>>}
============================================================================

--------------------------- MODULE MCCatalogCache ---------------------------
(* TLC instances of CatalogCache.                                          *)
EXTENDS CatalogCache, TLC

\* Request slots are interchangeable.
RequestSymmetry == Permutations(Requests)
=============================================================================

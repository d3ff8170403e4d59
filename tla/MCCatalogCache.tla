--------------------------- MODULE MCCatalogCache ---------------------------
(* Small instances of CatalogCache.                                        *)
EXTENDS CatalogCache, TLC

Symmetry ==
    Permutations(Venues) \cup Permutations(Exchanges) \cup Permutations(Callers)

=============================================================================

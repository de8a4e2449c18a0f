------------------------- MODULE MCEnrichmentQueue -------------------------
(* Symmetries of EnrichmentQueue for TLC: worker processes are             *)
(* interchangeable, and so are the scans of the same mode.                 *)
EXTENDS EnrichmentQueue, TLC

Symmetry ==
    Permutations(Worker) \cup Permutations(Enriched) \cup Permutations(Scan \ Enriched)
============================================================================

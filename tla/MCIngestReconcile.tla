--------------------------- MODULE MCIngestReconcile ---------------------------
EXTENDS IngestReconcile, TLC

Symmetry == Permutations(Workers)
=============================================================================

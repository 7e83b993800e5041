------------------------ MODULE MCSummaryPublication ------------------------
EXTENDS SummaryPublicationProps, TLC

Symmetry == Permutations(Engines) \cup Permutations(Sessions)
=============================================================================

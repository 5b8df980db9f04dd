---------------------------- MODULE MCRunArchive ----------------------------
EXTENDS RunArchive, TLC

Interchangeable == Permutations(Resumers) \cup Permutations(Repairers)
=============================================================================

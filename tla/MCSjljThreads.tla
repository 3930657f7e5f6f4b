--------------------------- MODULE MCSjljThreads ---------------------------
(* Small instances of SjljThreads.                                         *)
EXTENDS SjljThreads

Symmetry == Permutations(Threads)
============================================================================

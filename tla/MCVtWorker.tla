----------------------------- MODULE MCVtWorker -----------------------------
\* Instances of VtWorker for TLC.
EXTENDS VtWorker, TLC

SessionSymmetry == Permutations(Sessions)
GeometrySymmetry == Permutations(Geometries)
=============================================================================

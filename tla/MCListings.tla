----------------------------- MODULE MCListings ------------------------------
EXTENDS Listings, TLC
\* jobs and resources are told apart by their rows only; digests are ordered
Symmetry == Permutations(Job) \cup Permutations(Resource)
=============================================================================

--------------------------- MODULE MCCandidateRun ---------------------------
EXTENDS CandidateRun, TLC
\* Runs are interchangeable, and so are the images their pins name.
Symmetry == Permutations(Runs) \cup Permutations(Candidates)
=============================================================================

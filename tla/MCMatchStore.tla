----------------------------- MODULE MCMatchStore -----------------------------
\* Instances of MatchStore for TLC.
EXTENDS MatchStore, TLC

\* Threads and requests are interchangeable.
Symmetric == Permutations(Thread) \cup Permutations(Request)
=============================================================================

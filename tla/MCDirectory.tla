---- MODULE MCDirectory ----
EXTENDS Directory, TLC
\* Requests, and the users other than the configured administrator, are alike.
Symmetry == Permutations(Request) \cup Permutations(User \ {Administrator})
====

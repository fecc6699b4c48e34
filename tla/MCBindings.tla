------------------------------ MODULE MCBindings ------------------------------
EXTENDS Bindings, TLC
Symmetry == Permutations(CmlProject) \cup Permutations(Project) \cup Permutations(Job) \cup Permutations(Request)
===============================================================================

--------------------------- MODULE MCHandoverRace ---------------------------
(* Instances of HandoverRace: which handlers run. *)
EXTENDS HandoverRace, TLC

\* Sessions are interchangeable: nothing names one.
SessionSymmetry == Permutations(Sessions)

SubmitOperations == {"edit", "submit"}
=============================================================================

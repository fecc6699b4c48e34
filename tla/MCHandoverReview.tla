-------------------------- MODULE MCHandoverReview --------------------------
(* The handover workflow on an instance small enough for TLC. *)
EXTENDS HandoverReview
=============================================================================

--------------------------- MODULE MCMergeFollowUp ---------------------------
(* Instances of MergeFollowUp for TLC. *)
EXTENDS MergeFollowUp

\* Three files are enough for one that is resolved, one that is forgotten or
\* still marked, and one the model is never shown.
CONSTANTS code, docs, blob

=============================================================================

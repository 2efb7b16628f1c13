------------------------------ MODULE MCTriage ------------------------------
(* An instance of Triage for TLC. *)
EXTENDS Triage

CONSTANTS source, notes, build

\* "ended" is the text of "long" with CR LF at the ends of its lines.
MCDecoded == [t \in Texts |-> IF t = "ended" THEN "long" ELSE t]

\* A tracked file, one a fix may add, and one git ignores.
MCCheckout == [f \in Files |-> IF f = source THEN "long" ELSE Absent]
MCCommented == <<source, notes, source>>

\* "stub" is a truncated rendering, "edited" and "grown" are not; "grown" is
\* above max_file_bytes.
MCTruncating == {"long", "ended", "edited", "grown"} \X {"stub"}

=============================================================================

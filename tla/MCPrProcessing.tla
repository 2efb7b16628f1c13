--------------------------- MODULE MCPrProcessing ---------------------------
(* Instances of PrProcessing for TLC. *)
EXTENDS PrProcessing

CONSTANTS review, single, process

\* Every comment starts a thread.
MCThreads == [c \in Comments |-> c]

\* The last comment is a bot's answer in the first thread.
MCMixedThreads == [c \in Comments |-> IF c = NumComments THEN 1 ELSE c]

\* GitHub fans a review out: one delivery for it and one for each of its comments,
\* of which "single" is the last.  A /process run has no payload.
MCDelivered == [r \in Runs |->
  CASE r = review -> Comments
    [] r = single -> {NumComments}
    [] OTHER -> {}]

=============================================================================

---------------------------- MODULE TriageOutcome ----------------------------
(***************************************************************************)
(* What the rest of the processor relies on when it triages its pending    *)
(* comments (module PrProcessing): they are answered in order, each with   *)
(* one reply; a reply says "fix" exactly if there is a commit for it; and  *)
(* what cannot be answered ends the run before anything is pushed.         *)
(***************************************************************************)
EXTENDS Naturals, Sequences

CONSTANTS NumComments

VARIABLES
  preview,    \* a dry run
  decisions,  \* the decisions of the queued replies
  committed,  \* the comments a commit of the clone is for
  step        \* "triage", then "push", or "error" when the run has raised

vars == <<preview, decisions, committed, step>>

Init ==
  /\ preview \in BOOLEAN
  /\ decisions = <<>>
  /\ committed = {}
  /\ step = "triage"

Answer(decision) ==
  /\ step = "triage"
  /\ Len(decisions) < NumComments
  /\ preview => decision # "fix"
  /\ decisions' = Append(decisions, decision)
  /\ committed' = IF decision = "fix" THEN committed \cup {Len(decisions) + 1} ELSE committed
  /\ UNCHANGED <<preview, step>>

\* The clone, and a commit in it that no reply is queued for, are thrown away.
Raise ==
  /\ step = "triage"
  /\ step' = "error"
  /\ committed' \in {committed, committed \cup {Len(decisions) + 1}}
  /\ UNCHANGED <<preview, decisions>>

Done ==
  /\ step = "triage"
  /\ Len(decisions) = NumComments
  /\ step' = "push"
  /\ UNCHANGED <<preview, decisions, committed>>

Next ==
  \/ \E decision \in {"fix", "dismiss", "skip", "needs_review"} : Answer(decision)
  \/ Raise
  \/ Done

Spec == Init /\ [][Next]_vars

=============================================================================

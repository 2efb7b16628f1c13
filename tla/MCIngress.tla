----------------------------- MODULE MCIngress -----------------------------
(* Instances of Ingress for TLC. *)
EXTENDS Ingress

\* A review comment, a body that cannot be parsed, and a request without the header.
CONSTANTS comment, ping, nameless

=============================================================================

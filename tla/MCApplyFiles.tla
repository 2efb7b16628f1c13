---------------------------- MODULE MCApplyFiles ----------------------------
(* An instance of ApplyFiles for TLC. *)
EXTENDS ApplyFiles

CONSTANTS source, test

\* One file has two names ("src/a.py", "src/./a.py"), one path leads out.
MCTarget == [n \in Names |->
  CASE n \in {"a.py", "./a.py"} -> source
    [] n = "b.py" -> test
    [] OTHER -> Outside]

=============================================================================

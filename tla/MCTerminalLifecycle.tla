------------------------ MODULE MCTerminalLifecycle ------------------------
(* TLC instances of TerminalLifecycle. *)
EXTENDS TerminalLifecycle, TLC

Symmetry == Permutations(Requests) \cup Permutations(Deletes)

=============================================================================

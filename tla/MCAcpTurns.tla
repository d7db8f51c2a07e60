----------------------------- MODULE MCAcpTurns -----------------------------
(* TLC instances of AcpTurns. *)
EXTENDS AcpTurns
=============================================================================

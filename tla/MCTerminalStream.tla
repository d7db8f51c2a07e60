-------------------------- MODULE MCTerminalStream --------------------------
\* Instances of TerminalStream for TLC.
EXTENDS TerminalStream, TLC

Symmetry == Permutations(Attachments)
=============================================================================

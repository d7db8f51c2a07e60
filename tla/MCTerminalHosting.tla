------------------------- MODULE MCTerminalHosting -------------------------
(* One pane: a browser, a submission of the CLI and one hosting. *)
EXTENDS TerminalHosting
CONSTANTS h1, b1, s1, create
=============================================================================

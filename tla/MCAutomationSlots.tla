------------------------- MODULE MCAutomationSlots -------------------------
(* TLC instances of AutomationSlots. *)
EXTENDS AutomationSlots, TLC

=============================================================================

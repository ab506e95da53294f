-------------------------- MODULE MCAutomationFlow --------------------------
(* The instance of AutomationFlow that TLC checks. *)
EXTENDS AutomationFlow, TLC

NeverRun == -1

=============================================================================

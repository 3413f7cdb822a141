-------------------------- MODULE MCAutomationRuns --------------------------
(* Instances of AutomationRuns for TLC. *)
EXTENDS AutomationRuns

CONSTANTS
    tui,    \* a session of the user's own terminal
    spare   \* a session the user started from the Dashboard
=============================================================================

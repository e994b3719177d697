----------------------- MODULE MC_AutomationScheduler -----------------------
(***************************************************************************)
(* An instance of AutomationScheduler for TLC: an automation that runs at  *)
(* every tick from the second on and a newer one that runs once, at the    *)
(* first, on pages of a single record.                                     *)
(***************************************************************************)
EXTENDS AutomationScheduler

MCAnchor == <<2, 1>>
MCInterval == <<1, 0>>
=============================================================================

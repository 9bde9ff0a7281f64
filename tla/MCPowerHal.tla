----------------------------- MODULE MCPowerHal -----------------------------
(* The instance of PowerHal for TLC.                                        *)
EXTENDS PowerHal

CONSTANTS touch,  \* the input dispatcher's hints
          boost   \* the hints that arrive through the power manager

=============================================================================

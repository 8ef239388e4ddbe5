-------------------------- MODULE MCIncidentCommand --------------------------
(* An instance of IncidentCommand for TLC. *)
EXTENDS IncidentCommand
CONSTANTS blank, a, b
=============================================================================

--------------------------- MODULE MCPipelineAlerts -------------------------
(* Small instances of the screening pipeline and its alerts.                *)
EXTENDS PipelineAlerts
=============================================================================

--------------------------- MODULE MCExportPipeline ---------------------------
(* Small instances of ExportPipeline for TLC. *)
EXTENDS ExportPipeline
===============================================================================

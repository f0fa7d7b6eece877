--------------------------- MODULE MCEvidenceLog ---------------------------
(* A window and a headless run that share one log, each with one writer.   *)
EXTENDS EvidenceLog

CONSTANTS window, headless, firing, running

MCProcOf == [t \in Threads |-> IF t = running THEN headless ELSE window]
=============================================================================

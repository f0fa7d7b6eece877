------------------------------ MODULE MCMotion ------------------------------
(* One unit is about a tenth of a second; a lane draws three signals.      *)
EXTENDS Motion

MCStates == {"allowed", "blocked", "ratio", "error"}
=============================================================================

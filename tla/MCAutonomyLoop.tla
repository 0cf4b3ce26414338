--------------------------- MODULE MCAutonomyLoop ---------------------------
(* One project: the machine's lock and its rows keep projects apart.       *)
EXTENDS AutonomyLoop
CONSTANT p1
=============================================================================

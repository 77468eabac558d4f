----------------------------- MODULE MCStartup ------------------------------
(* The server, the stores and the sensors as three programs.                *)
EXTENDS Startup
=============================================================================

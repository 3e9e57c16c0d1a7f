--------------------------- MODULE MCPgConnection ---------------------------
(***************************************************************************)
(* The hypothesis under which PgConnectionProofs shows that init decides   *)
(* rightly, evaluated on every salt of the run.  No proof uses this        *)
(* module.                                                                 *)
(***************************************************************************)
EXTENDS PgConnection

ASSUME Conversions == RoundTrip

============================================================================

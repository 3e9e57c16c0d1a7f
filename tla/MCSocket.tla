------------------------------ MODULE MCSocket ------------------------------
(* Instance of Socket for TLC. *)
EXTENDS Socket

MCBytes == 1..8

============================================================================

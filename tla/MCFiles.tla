------------------------------- MODULE MCFiles -------------------------------
(* A call that uploads two files, one into the single field, while another   *)
(* uploads one into the same field.                                          *)
EXTENDS Files

CONSTANTS u1, u2, u3

MCBatches == {{u1, u2}, {u3}}
=============================================================================

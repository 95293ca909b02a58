------------------------ MODULE MCUpdateTransaction ------------------------
(* Small instances of UpdateTransaction for TLC.                             *)
EXTENDS UpdateTransaction, TLC

CONSTANTS v1, v2, v3
=============================================================================

---------------------------- MODULE MCConnection ----------------------------
(* Instances of Connection for TLC. *)
EXTENDS Connection, TLC

CONSTANTS c1, c2, c3, s1, s2, s3, s4
=============================================================================

---- MODULE MCImagerStream ----
(* A small imager and stream buffer for TLC. *)
EXTENDS ImagerStream

MCThrottles == {-1, 1}
====

--------------------------- MODULE MCTranslation ---------------------------
(* Two connected nodes for TLC. *)
EXTENDS Translation
CONSTANTS a, b

Pair == {<<a, b>>, <<b, a>>}
=============================================================================

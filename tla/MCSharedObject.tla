---- MODULE MCSharedObject ----
(* A small pair of shared objects for TLC. *)
EXTENDS SharedObject

CONSTANTS a, b

Object(k, m) == [kind |-> k, mode |-> m]

MCValue == {a, b}

\* The kinds differ where old or idempotent sets are ignored, String from float64 only in
\* the latter.
MCObjects ==
    {Object(k, m) : k \in {"int32", "float64"},
                    m \in {{"IGNORE_OLD"}, {"DEFER_UPDATES", "IGNORE_OLD"}}}
    \cup {Object("int32", {"DEFER_UPDATES"})}
    \cup {Object(k, {"DEFER_UPDATES", "IGNORE_IDEMPOTENT"}) : k \in {"float64", "String"}}
====

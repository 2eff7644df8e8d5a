---- MODULE MCRedundant ----
(* A few messages of one type for TLC, two of them with one time and one without a time. *)
EXTENDS Redundant

CONSTANTS pos, s1, s2

Report(s, t, r) == [type |-> pos, sender |-> s, time |-> t, reliable |-> r]

MCType == {pos}
MCSender == {s1, s2}
MCMessage == {Report(s1, 0, FALSE), Report(s1, 1, FALSE), Report(s2, 1, TRUE)}
MCHandlers == {[type |-> pos, sender |-> AnySender], [type |-> AnyType, sender |-> s1]}
MCRepetitions == {[num |-> 1, spaced |-> TRUE], [num |-> 1, spaced |-> FALSE]}
====

---- MODULE MCFileConnection ----
(* A few short recordings for TLC. *)
EXTENDS FileConnection

Describe(n, name, t) == [kind |-> "describe", num |-> n, name |-> name, time |-> t]
User(n, t) == [kind |-> "user", num |-> n, name |-> "a", time |-> t]
Disconnect(t) == [kind |-> "disconnect", num |-> 1, name |-> "a", time |-> t]

MCNum == {1, 2}
MCName == {"a", "b"}

Refused(t) == [kind |-> "refused", num |-> 1, name |-> "a", time |-> t]

\* A type that is described late, after a message that has overtaken its description; a
\* server that comes back with other numbers, and sends before it has said them; times
\* out of order; a message that is refused, behind the first user message or before it; and
\* nothing but a description.
MCFiles ==
    { << Describe(1, "a", 1), User(2, 1), User(1, 2), Describe(2, "b", 2), User(2, 3) >>,
      << Describe(1, "a", 1), User(1, 2), Disconnect(2), User(1, 2),
         Describe(1, "b", 3), User(1, 3) >>,
      << Describe(1, "a", 3), User(1, 2), User(1, 1), User(1, 3) >>,
      << Describe(1, "a", 1), User(1, 1), Refused(2), User(1, 3) >>,
      << Refused(1), Describe(1, "a", 1), User(1, 2) >>,
      << Describe(1, "a", 1) >> }
====

SPECIFICATION Spec
CONSTANTS
  a = a
  b = b
  NoName = "none"
  Node = {a, b}
  Link <- Pair
  TypeName = {"t1", "t2"}
  SenderName = {"s1"}
  MaxFault = 2
INVARIANTS
  NeverMisread
  ReliableUnderstood
  DescribedInOrder
CHECK_DEADLOCK FALSE

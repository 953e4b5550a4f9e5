SPECIFICATION Spec
CONSTANTS
  a = a
  b = b
  c = c
  l1 = l1
  l2 = l2
  Ports = {1, 2}
  Instances = {a, b, c}
  Launches = {l1, l2}
SYMMETRY Symmetry
INVARIANTS RecordIsServed FailedLeavesNothing

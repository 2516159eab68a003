\* The same without a rebinding: a daemon stops, another starts, a call is made.
SPECIFICATION Spec
CONSTANTS
  None = None
  c1 = c1
  c2 = c2
  k1 = k1
  k2 = k2
  Clients = {c1, c2}
  Calls = {k1, k2}
  p1 = p1
  p2 = p2
  b1 = b1
  b2 = b2
  Ports = {p1, p2}
  Capacity = 1
  Bindings = {b1, b2}
  MaxBoots = 2
  MaxRebinds = 0
SYMMETRY Alike
CHECK_DEADLOCK FALSE
PROPERTIES
  RestartIsHealed

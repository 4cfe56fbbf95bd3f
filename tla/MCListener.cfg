SPECIFICATION Spec
CONSTANTS
  p1 = p1  p2 = p2  p3 = p3  a1 = a1  a2 = a2  None = None
  Addresses = {a1, a2}
  Pids = {p1, p2, p3}
  max_clients = 2
  max_per_ip = 1
SYMMETRY ThreePids
INVARIANT CountsExact
INVARIANT NeverBug
INVARIANT WithinLimits
INVARIANT ExitsNoticed

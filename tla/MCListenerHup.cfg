SPECIFICATION Spec
CONSTANTS
  p1 = p1  p2 = p2  p3 = p3  a1 = a1  a2 = a2  None = None
  Addresses = {a1}
  Pids = {p1}
  max_clients = 0
  max_per_ip = 0
INVARIANT HupAlarmed

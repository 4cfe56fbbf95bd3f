SPECIFICATION Spec
CONSTANTS
  hub = hub  dev = dev  None = None  Monitor = Monitor
  Ports = {hub, dev}
  Parent <- Tree
  Interfaces = {}
  MaxPlugs = 2
  MaxLost = 0
  Devs = {d1, d2}
  Threads = {t1, t2}
  EventThreads = {t1}
  Users = {t2}
  Registrars = {t1}
  Callbacks = {k1}
  Enumerating = {k1}
INVARIANTS
  CountsMatchReferences
  NothingDangles
  CallbacksKnow
SYMMETRY Symmetries
CHECK_DEADLOCK FALSE

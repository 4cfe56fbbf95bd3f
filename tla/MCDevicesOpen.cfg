SPECIFICATION Spec
CONSTANTS
  hub = hub  dev = dev  None = None  Monitor = Monitor
  Ports = {hub, dev}
  Parent <- Tree
  Interfaces = {dev}
  MaxPlugs = 2
  MaxLost = 1
  Devs = {d1, d2, d3}
  Threads = {t1, t2}
  EventThreads = {t1}
  Users = {t2}
  Registrars = {t1}
  Callbacks = {}
  Enumerating = {}
INVARIANT DisconnectsOnlyGone
CHECK_DEADLOCK FALSE

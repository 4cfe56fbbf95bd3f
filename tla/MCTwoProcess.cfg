SPECIFICATION Spec
CONSTANTS
  max_login_fails = 2
  MaxCommands = 4
INVARIANT NeverRefused
PROPERTY ServesRequests
PROPERTY NobodyWaitsForEver

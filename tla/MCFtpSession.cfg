SPECIFICATION Spec
CONSTANTS
  data_connection_timeout = TRUE
  idle_session_timeout = TRUE
  xferlog_enable = TRUE
  delete_failed_uploads = TRUE
  Transfers = {"LIST", "STOR"}
  MaxLines = 4
  MaxChunks = 1
INVARIANT RepliesMatchCommands
INVARIANT IdleIsNotStalled
INVARIANT NeverBug
PROPERTY CompleteMeansComplete
PROPERTY SessionEnds

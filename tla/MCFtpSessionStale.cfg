SPECIFICATION Spec
CONSTANTS
  data_connection_timeout = TRUE
  idle_session_timeout = FALSE
  xferlog_enable = TRUE
  delete_failed_uploads = TRUE
  Transfers = {"STOR"}
  MaxLines = 3
  MaxChunks = 1
INVARIANT IdleIsNotStalled

SPECIFICATION ReleaseSpec
CONSTANTS
  MaxFailures = 1
  RestoreFails = TRUE
INVARIANT RestoredBeforeBackupRemoved
CHECK_DEADLOCK FALSE

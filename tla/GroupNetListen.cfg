\* ShutdownServer right after StartServer: the listener goroutine of
\* ds.rpcs may not yet have assigned rpcs.l when CheckpointPersister
\* closes it.
CONSTANTS
  Srvs = {0}
  MaxStarts = 1
  MaxReqs = 1

SPECIFICATION Spec

INVARIANT ShutdownNeverFatal

CHECK_DEADLOCK FALSE

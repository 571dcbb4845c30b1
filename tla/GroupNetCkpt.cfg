\* Does closing ds.rpcs in CheckpointPersister stop the daemon serving?
CONSTANTS
  Srvs = {0}
  MaxStarts = 1
  MaxReqs = 2

SPECIFICATION Spec

PROPERTY NoReplyAfterCheckpoint

CHECK_DEADLOCK FALSE

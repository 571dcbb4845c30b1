\* One server started and shut down up to three times, and a clerk
\* sending three writes that race with every step of both calls; servers
\* of a group share nothing in this model, so one stands for all.
CONSTANTS
  Srvs = {0}
  MaxStarts = 3
  MaxReqs = 3

SPECIFICATION Spec

INVARIANT TypeOK
INVARIANT AckedDurable
INVARIANT NoDispatchBeforeInit
PROPERTY StartServerReturns

\* The bounds end the run with every server shut down, and a failed
\* checkpoint ends the tester with log.Fatalf: both are real stops.
CHECK_DEADLOCK FALSE

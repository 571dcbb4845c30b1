\* Two callers racing on one DemuxClnt, a Close racing with them, and a
\* server that may be killed; replies may come back in any order.
CONSTANTS
  Callers = {c1, c2}
  Closers = {k1}
  MaxCalls = 2
  TagBits = 3
  BufCap = 2
  NoOne = NoOne
  Nil = Nil
  InitMsg = InitMsg

SPECIFICATION Spec

INVARIANT TypeOK
INVARIANT NoUnmatchedReply
PROPERTY DemuxRefinesAbs

\* Every goroutine ends once the callers made their MaxCalls calls and the
\* connection is gone: final states are real stops.  A call that never
\* returns is a violation of DemuxRefinesAbs (fairness of Return).
CHECK_DEADLOCK FALSE

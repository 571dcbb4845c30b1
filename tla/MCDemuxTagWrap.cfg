\* Ttag scaled down to 1 bit: the 4th tag() returns the tag of a call that
\* may still be waiting for its reply.
CONSTANTS
  Callers = {c1, c2}
  Closers = {}
  MaxCalls = 2
  TagBits = 1
  BufCap = 2
  NoOne = NoOne
  Nil = Nil
  InitMsg = InitMsg

SPECIFICATION Spec

INVARIANT ReplyMatchesRequest

\* As in MCDemux.cfg: final states are real stops.
CHECK_DEADLOCK FALSE

\* One socket of the application at a time (it listens, or is connected and
\* moved into the pool), descriptors 0..2, a pool of two slots: enough for a
\* pool that fills up with holes and refuses, for a removal that meets a hole,
\* for a shutdown that leaves a slot in the pool, and for descriptor 0 to be
\* closed and handed out again.
CONSTANTS
  Sock = {a}
  MaxFd = 2
  SslObj = {o1}
  NoSsl = null
  CountMod = 2
  Encs = {"ssl_v3"}
  Protos = {"tcp"}
  SetSize = 2
  MaxPending = 1
SPECIFICATION Spec
INVARIANTS
  TypeOK
  NeverScans
  OneOwner
PROPERTIES
  ImplementsRegistry
  LostOnlyByAcceptOrRelease
  StdinClosedOnlyPastHole

\* Two sockets of the application, so that one's descriptors are reused by the
\* other; descriptors 0..2, so that a leak uses them up; two SSL objects; a
\* counter that wraps at 4.
CONSTANTS
  Sock = {a, b}
  MaxFd = 2
  SslObj = {o1, o2}
  NoSsl = null
  CountMod = 4
  Encs = {"ssl_v3", "tls_v1"}
  Protos = {"tcp", "udp"}
SYMMETRY Symmetric
SPECIFICATION SocketSpec
INVARIANTS
  SocketTypeOK
  HandlesOpen
  HandlesDistinct
  SslOwned
  CountExact
PROPERTIES
  OrphansOnlyByRelease
  StdinClosedOnlyByDisconnect

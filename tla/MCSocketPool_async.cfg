\* One listener and up to two clients; the counter is wide enough not to wrap
\* by counting up.
CONSTANTS
  Sock = {a}
  MaxFd = 2
  SslObj = {o1}
  NoSsl = null
  CountMod = 8
  Encs = {}
  Protos = {"tcp"}
  SetSize = 2
  MaxPending = 1
SPECIFICATION Spec
PROPERTY
  AsyncAcceptReports

\* One socket of the application is enough for the counterexample.
CONSTANTS
  Sock = {a}
  MaxFd = 2
  SslObj = {o1, o2}
  NoSsl = null
  CountMod = 4
  Encs = {"ssl_v3", "tls_v1"}
  Protos = {"tcp", "udp"}
SPECIFICATION SocketSpec
INVARIANT
  ConnectTrueMeansConnected

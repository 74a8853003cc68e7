SPECIFICATION HttpSpec
CONSTANTS
  Ctx = ctx
  Sock = {ctx}
  MaxFd = 2
  SslObj = {o1}
  NoSsl = null
  CountMod = 2
  Encs = {"ssl_v3"}
  Protos = {"tcp"}
  Block = 8
  Settings <- MCSettings
  NoVal = NoVal
  MaxOpts = 5
  Answers <- MCAnswers
  MaxSize = 2
INVARIANTS
  HttpTypeOK
  FramingKept
PROPERTIES
  OptionsAreFixed
  DescriptorsLost
  ExchangeEnds

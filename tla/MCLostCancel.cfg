SPECIFICATION FairSpec
CONSTANTS
  http1 = http1
  http2 = http2
  https = https
  s1 = s1
  s2 = s2
  t1 = t1
  t2 = t2
  Main = Main
  User = User
  None = None
  Listeners = {http1}
  Sessions = {s1}
  Tls = {}
  Setups <- PlainSetups
PROPERTIES
  CleanShutdown

CONSTANTS
  s1 = s1  s2 = s2  c1 = c1  c2 = c2
  ann = ann  bob = bob  Common = Common  red = red
  NoChannel = NoChannel
  Servers = {s1}
  Clients = {c1, c2}
  Names = {ann, bob}
  Channels = {Common, red}
  Texts = {hi}
  Home <- SameHome
  NamesOf <- OwnName
  Neighbours <- Alone
  Ip <- OneHost
  Port <- SomePorts
  UidLimit = 3
  FdLimit = 2
  Unsent = {"join", "leave", "say"}
  MaxRequests <- OneIsDeeper
  MaxTexts = 1
  MaxNet = 1
  World = {"lose", "kill", "timer"}
  Pausing = {}
SPECIFICATION FaultySpec
INVARIANT ViewsAgree
PROPERTIES ActiveIsSubscribed SaysAreAccepted

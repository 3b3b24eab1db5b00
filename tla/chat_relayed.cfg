CONSTANTS
  s1 = s1  s2 = s2  c1 = c1  c2 = c2
  ann = ann  bob = bob  Common = Common  red = red
  NoChannel = NoChannel
  Servers = {s1, s2}
  Clients = {c1, c2}
  Names = {ann, bob}
  Channels = {Common}
  Texts = {hi}
  Home <- TwoHomes
  NamesOf <- OwnName
  Neighbours <- Pair
  Ip <- OneHost
  Port <- SomePorts
  UidLimit = 3
  FdLimit = 1
  Unsent = {}
  MaxRequests <- Shallow
  MaxTexts = 1
  MaxNet = 1
  World = {}
  Pausing = {c2}
SPECIFICATION MCFairChatSpec
PROPERTIES SaysAreShown SaysAreRelayed

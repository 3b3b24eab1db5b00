CONSTANTS
  s1 = s1  s2 = s2  s3 = s3  c1 = c1  c2 = c2  c3 = c3
  ann = ann  amy = amy  bob = bob  Common = Common  red = red
  Servers = {s1, s2}
  Clients = {c1, c2, c3}
  Names = {ann, amy, bob}
  Channels = {Common}
  Texts = {hi}
  Home <- TwoAndOne
  NamesOf <- ThreeUsers
  Neighbours <- Pair
  Ip <- OneHost
  Port <- SomePorts
  UidLimit = 3
  FdLimit = 1
  MaxNet = 1
  MaxUid = 1
  World = {"timer", "kill", "start"}
SPECIFICATION MCSpec
INVARIANT SaysReachSessions
PROPERTY ImplementsRoom

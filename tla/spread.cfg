CONSTANTS
  s1 = s1  s2 = s2  s3 = s3  c1 = c1  c2 = c2  c3 = c3
  ann = ann  amy = amy  bob = bob  Common = Common  red = red
  Servers = {s1, s2, s3}
  Clients = {c1, c2}
  Names = {ann, amy, bob}
  Channels = {Common}
  Texts = {hi}
  Home <- TwoHomes
  NamesOf <- OwnName
  Neighbours <- Line
  Ip <- OneHost
  Port <- SomePorts
  UidLimit = 3
  FdLimit = 3
  MaxNet = 3
  MaxUid = 2
  World = {}
SPECIFICATION SpreadSpec
PROPERTIES JoinReachesEveryone OnlyIdleServersLeave OnlyLeaversAreCut

CONSTANTS
  s1 = s1  s2 = s2  s3 = s3  c1 = c1  c2 = c2  c3 = c3
  ann = ann  amy = amy  bob = bob  Common = Common  red = red
  Servers = {s1, s2}
  Clients = {c1}
  Names = {ann}
  Channels = {Common}
  Texts = {hi}
  Home <- SameHome
  NamesOf <- OneClient
  Neighbours <- Pair
  Ip <- OneHost
  Port <- SomePorts
  UidLimit = 3
  FdLimit = 1
  MaxNet = 2
  MaxUid = 1
  World = {"timer", "lose"}
SPECIFICATION RenewSpec
PROPERTY RenewalsHeal
CHECK_DEADLOCK FALSE

SPECIFICATION FairSpec
CONSTANTS
  Conns = {c1, c2}
  Handlers = {h1}
  Loop = loop
  NoConn = noconn
  Nobody = nobody
  InsertsMayFail = TRUE
INVARIANTS
  TypeOK
  HubMatchesConnections
  ToldOrGone
PROPERTIES
  JoinsAndLeavesGoOn
  OnlyAStalledBrowserHoldsUp

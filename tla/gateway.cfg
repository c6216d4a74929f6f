SPECIFICATION GatewaySpec
CONSTANTS
  coin1 = coin1
  coin2 = coin2
  me = me
  other = other
  client = client
  NoData = NoData
  NoUpdate = NoUpdate
  NoBucket = NoBucket
  Tokens = {coin1, coin2}
  Tickets = {me, other}
  Me = me
  Peers = {p1, p2}
  Workers = {w1, w2}
  Epochs <- MCEpochs
  Value <- MCValue
  Verifiable <- MCVerifiable
  InitialEpoch = 1
  Price = 2
  Payments <- MCPayments
  Updates <- MCUpdates
  MaxTx = 1
  MaxRequests = 3
  Purses <- MCPurses
  TokenValue <- MCTokenValue
  Requirements <- MCRequirements
  MicrosPerWhole = 4
  Owners = {me, other, client}
  PayTicket <- MCPayTicket
  Now = 5
  MaxGets = 3
  Ips = {i1, i2, i3}
  Burst = 2
  PerTick = 1
  MaxEntries = 2
  Cost = 2
  MaxClock = 5
  Callers = {"mint", "bridge", "stranger"}
  GroupOf <- MCGroupOf
  KeyOf <- MCKeyOf
  ServerKey = "nac"
  Bodies = {"one", "two"}
  Allowed = {"ServiceMint"}
  MaxAge = 2
  Tolerance = 1
  Skews <- MCSkews
  MaxWall = 8
  MaxSent = 1
  Parts = {"a2a", "x402", "limiter", "auth"}
INVARIANTS TasksFollowPayments  LimitsHold WindowIsExact
PROPERTIES RequestsAndTransactionsEnd

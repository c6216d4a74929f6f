SPECIFICATION Spec
CONSTANTS
  p1 = p1
  p2 = p2
  w1 = w1
  w2 = w2
  me = me
  other = other
  a = a
  b = b
  c = c
  NoData = NoData
  NoUpdate = NoUpdate
  Tokens <- MCTokens
  Tickets <- MCTickets
  Epochs <- MCEpochs
  Value <- MCValue
  Verifiable <- MCVerifiable
  Me = me
  Peers = {p1, p2}
  InitialEpoch = 1
  Price = 2
  Payments <- AllPayments
  Updates <- AllUpdates
  Workers = {w1, w2}
  MaxTx = 2
  MaxRequests = 3
SYMMETRY Interchangeable
INVARIANTS TypeOK TimersDoNotPanic PeerBinding AcceptedTokensAreKept
PROPERTY EpochNeverGoesBack

SPECIFICATION Spec
CONSTANTS
  user = user
  op = op
  Addresses <- MCAddresses
  Amounts = {1, 2}
  TicketHashes = {h1}
  EpochNums = {0, 1, 2}
  DataHashes = {d1}
  CHALLENGE_PERIOD = 1
  MaxDeposits = 2
  MaxWithdrawals = 2
  MaxReceived = 2
  MaxTime = 2
  MaxDepth = 2
INVARIANTS TypeOK Solvent PendingIsPayable PaidExactlyOnce LatestEpochIsNewest

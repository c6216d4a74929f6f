SPECIFICATION Spec
CONSTANTS
  alice = alice
  bob = bob
  carol = carol
  t1 = t1
  Ids <- MCIds
  Creds <- MCCreds
  Value = 2
  BaseRecipient <- MCBaseRecipient
  Dated <- MCIds
  Histories <- ChainHistories
  TicketBatches <- OneBatch
  Workers = {1, 2}
  MaxFaults = 0
INVARIANT AckedForksAreFlagged

SPECIFICATION FairSpec
CONSTANTS
  alice = alice
  bob = bob
  carol = carol
  t1 = t1
  Ids <- MCIds
  Creds <- MCCreds
  Value = 2
  BaseRecipient <- MCBaseRecipient
  Dated <- MCIds
  Histories <- MixedHistories
  TicketBatches <- OneTicket
  Workers = {1, 2}
  MaxFaults = 1
INVARIANTS TypeOK HistoriesDoNotMerge AbusePointsAtFork ForkAlwaysFound TablesAgree
PROPERTIES AbuseLeadsToRevocation

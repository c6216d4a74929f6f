SPECIFICATION Spec
CONSTANTS
  alice = alice
  bob = bob
  carol = carol
  t1 = t1
  Ids <- MCIds
  Creds <- MCCreds
  Value = 2
  BaseRecipient <- MCBaseRecipient
  Dated <- MCIds
  Histories <- ChainHistories
  TicketBatches <- MCTicketBatches
  Workers = {1}
  MaxFaults = 2
PROPERTIES ImplementsRegistry

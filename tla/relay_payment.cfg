SPECIFICATION Spec
CONSTANTS
  payer = payer
  payee = payee
  Pin <- MCPin
  PinThreshold = 100
  PinTries = 2
  PinRoom = 2
  Sticks = {payer}
  HasPin = {payer}
  Balance = 1
  MaxBalance = 1
  TicketSizes = {243}
  OtherAmounts = {150}
  Entries <- MCEntries
  AmountDigits = 12
  AmountWidth = 4096
  Pages <- MCPages
  MaxPayments = 2
  MaxEpoch = 1
INVARIANTS SignedWasApproved RelayIsSound
PROPERTY LockedUntilRestart

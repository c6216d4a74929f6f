SPECIFICATION Spec
CONSTANTS
  Scenes <- MCScenes
  Tickets = {t1, t2}
  Amounts = {4, 5, 11, 20}
  MicrosPerWhole = 2
  PerMicro = 3
  Word = 16
  MinConfirmations = 2
  MaxDeposits = 3
  MaxKeys = 2
  MaxTip = 3
INVARIANTS MintsHaveCause
PROPERTIES RetriedUntilDone KeysCatchUp

SPECIFICATION CardSpec
CONSTANTS
  Q = 101
  Hosts <- MCHosts
  Starts <- MCStarts
  KindsOfCard = {"mock", "applet"}
  CardSk = 17
  HostSk <- MCHostSk
  IssuerX = 13
  IssuerY = 29
  SwapSk = 23
  Names = {1, 2}
  BitsOf <- MCBitsOf
  Randomizers = {5}
  Garbled = {40}
  MaxCommits = 3
  MaxCardEpoch = 1
INVARIANTS NonceAnswersOnce BasenameOncePerEpoch UndisturbedIsAccepted

SPECIFICATION Spec
CONSTANTS
  None = None
  NoFile = NoFile
  Torn = Torn
  w1 = w1
  w2 = w2
  r1 = r1
  r2 = r2
  Wallets = {w1, w2}
  Runs = {r1, r2}
  Groups = {1, 9, 72}
  Policies <- MCPolicies
  Scenes <- MCScenes
  MaxTime = 3
  MaxKeys = 4
  Owners = {o1}
  Devices = {d1, d2}
  Delegates = {g1}
  MaxBindings = 3
INVARIANTS HeldTicketsAreGood BindingsHold
PROPERTIES EventuallyServed

SPECIFICATION Spec
CONSTANTS
  phone = phone
  other = other
  till = till
  h1 = h1
  h2 = h2
  Users = {phone, other}
  Kinds <- MCKinds
  Swapper = till
  Float <- MCFloat
  Purse <- MCPurse
  Value <- MCValue
  Slots = {1}
  Handlers = {h1, h2}
  Redelivery = FALSE
  Lifetime = 2
  MaxId = 8
  MaxOps <- MCMaxOps
  MaxNow = 3
  MaxSwaps = 2
SYMMETRY BothHandlers
INVARIANTS OneHolder HonestNeverFlagged SwapperNotPoisoned

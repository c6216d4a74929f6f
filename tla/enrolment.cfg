SPECIFICATION Spec
CONSTANTS
  NoFile = NoFile
  uid1 = uid1
  w1 = w1
  w2 = w2
  Tools = {t1, t2}
  MaxCas = 2
  MaxCardKeys = 2
  Wallets = {w1, w2}
  Services = {s1}
  Scenes <- MCScenes
  Clients = {"phone", "aware"}
  MaxKeys = 6
INVARIANTS IdentitiesAreStable EvidenceDecides CompletedCardsAttest

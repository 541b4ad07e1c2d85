SPECIFICATION Spec
CONSTANTS
  c1 = c1
  c2 = c2
  Nodes = {1, 2}
  Groups = {1, 257}
  Calls = {c1, c2}
  Settings <- AllSettings
  MaxKey = 3
INVARIANTS
  ProvisionedIsUsable
  KeysetsAccounted
  NoNodeForgotten
PROPERTIES
  OthersUndisturbed
  ProvisionedHasKey
  CallsAdvance

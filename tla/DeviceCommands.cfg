SPECIFICATION Spec
CONSTANTS
  Calls = {c1, c2}
  Targets <- TargetSet
  NodeOf <- FirstOf
  MaxWindows = 4
  MaxBindings = 2
SYMMETRY Symmetry
INVARIANTS
  ParamsOfOpenWindow
  BindingsAsAsked

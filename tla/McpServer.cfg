CONSTANTS
  Ops = {o1, o2}
  First = first
  None = None
  Versions = {v1, v2}
SPECIFICATION Spec
SYMMETRY Symmetry
INVARIANTS ClientIsUsable NoClientLeft ToolsAreCurrent
CHECK_DEADLOCK FALSE

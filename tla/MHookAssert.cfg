CONSTANTS
  Threads = {t1}
  Ptrs = {a, b, c, d}
  Traces <- OneLevel
  MaxArrays = 1
  Unused = {0}
  MaxCallers = 3
  MaxCalls = 4
  None = None
SPECIFICATION Spec
SYMMETRY Symmetry
INVARIANTS AssertionHolds

CONSTANTS
  Threads = {t1, t2}
  Ptrs = {a, b}
  Traces <- TwoLevels
  MaxArrays = 3
  Unused = {0, 1}
  MaxCallers = 3
  MaxCalls = 4
  None = None
SPECIFICATION Spec
SYMMETRY Symmetry
INVARIANTS NoAbort NoStaleEntry CallersSorted DumpTells

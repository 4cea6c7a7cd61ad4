CONSTANTS
  Procs = {p1, p2, p3}
  Remotes = {r1}
  Cmds = {"clone"}
  GitMayFail = {TRUE}
  MaxCrash = 0
  None = None
SPECIFICATION Spec
INVARIANTS OkDescribesMirror

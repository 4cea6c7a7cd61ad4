CONSTANTS
  Procs = {p1, p2, p3}
  Remotes = {r1}
  Cmds = {"fetch", "rm"}
  GitMayFail = {FALSE}
  MaxCrash = 0
  None = None
SPECIFICATION Spec
INVARIANTS OneJobAdmitted

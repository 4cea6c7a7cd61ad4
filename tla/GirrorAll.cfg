CONSTANTS
  Procs = {p1, p2, p3}
  Remotes = {r1}
  Cmds = {"clone", "fetch", "rm"}
  GitMayFail = {TRUE, FALSE}
  MaxCrash = 1
  None = None
SPECIFICATION FairSpec
INVARIANTS OkDescribesClones OkOutlivesRemovals OneJobUntilUnlinked
PROPERTIES AlreadyWorkingIsTrue FinishedMirrorStays Terminates

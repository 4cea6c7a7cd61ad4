---------------------------- MODULE GirrorProofs ----------------------------
(***************************************************************************)
(* Girror for any number of invocations, urls and crashes.                 *)
(***************************************************************************)
EXTENDS Girror, TLAPS

(* Every variable of the scripts keeps its type: the files hold one of the *)
(* texts the scripts write, a pid or a url, or do not exist.               *)
THEOREM TypeCorrect == Spec => []TypeOK
<1>1. Init => TypeOK
  BY GirrorAssumption DEF Init, TypeOK, Front, Job, Exited
<1>2. ASSUME TypeOK, [Next]_vars PROVE TypeOK'
  <2> USE <1>2, GirrorAssumption DEF TypeOK, Front, Job, Exited, Texts, Mirrors, Step,
          local, files, lockf, vars
  <2>1. ASSUME NEW p \in Procs, OpenShort(p) PROVE TypeOK'
    BY <2>1 DEF OpenShort
  <2>2. ASSUME NEW p \in Procs, LockShort(p) PROVE TypeOK'
    BY <2>2 DEF LockShort
  <2>3. ASSUME NEW p \in Procs, ReadStatus(p) PROVE TypeOK'
    BY <2>3 DEF ReadStatus
  <2>4. ASSUME NEW p \in Procs, CheckPid(p) PROVE TypeOK'
    BY <2>4 DEF CheckPid
  <2>5. ASSUME NEW p \in Procs, WritePid(p) PROVE TypeOK'
    BY <2>5 DEF WritePid
  <2>6. ASSUME NEW p \in Procs, WriteOrigin(p) PROVE TypeOK'
    BY <2>6 DEF WriteOrigin
  <2>7. ASSUME NEW p \in Procs, LockLong(p) \/ LockLongFails(p) PROVE TypeOK'
    BY <2>7 DEF LockLong, LockLongFails
  <2>8. ASSUME NEW p \in Procs, WriteStatus(p) PROVE TypeOK'
    BY <2>8 DEF WriteStatus
  <2>9. ASSUME NEW p \in Procs, RemoveTree(p) PROVE TypeOK'
    BY <2>9 DEF RemoveTree
  <2>10. ASSUME NEW p \in Procs, GitEnd(p) PROVE TypeOK'
    BY <2>10 DEF GitEnd, PipelineStatus
  <2>11. ASSUME NEW p \in Procs, Report(p) PROVE TypeOK'
    BY <2>11 DEF Report
  <2>12. ASSUME NEW p \in Procs, RemoveFiles(p) PROVE TypeOK'
    BY <2>12 DEF RemoveFiles
  <2>13. ASSUME NEW p \in Procs, RemovePid(p) PROVE TypeOK'
    BY <2>13 DEF RemovePid
  <2>14. ASSUME NEW p \in Procs, GitProgress(p) PROVE TypeOK'
    BY <2>14 DEF GitProgress
  <2>15. CASE Crash
    BY <2>15 DEF Crash
  <2>16. CASE UNCHANGED vars
    BY <2>16
  <2> QED
    BY <2>1, <2>2, <2>3, <2>4, <2>5, <2>6, <2>7, <2>8, <2>9, <2>10, <2>11, <2>12,
       <2>13, <2>14, <2>15, <2>16 DEF Next, Script, AllExited
<1> QED
  BY <1>1, <1>2, PTL DEF Spec

-----------------------------------------------------------------------------
(* An invocation becomes a job by LockLong alone. *)
LEMMA JobsComeFromLockLong ==
  ASSUME TypeOK, [Next]_vars, NEW p \in Procs, HoldsLong(p)'
  PROVE  HoldsLong(p) \/ LockLong(p)
<1> USE DEF TypeOK, HoldsLong, Front, Job, Exited, Step
<1>1. CASE UNCHANGED vars
  BY <1>1 DEF vars
<1>2. CASE Crash
  BY <1>2 DEF Crash
<1>3. ASSUME NEW q \in Procs, OpenShort(q) \/ LockShort(q) \/ ReadStatus(q) \/ CheckPid(q)
                              \/ WritePid(q) \/ WriteOrigin(q) \/ GitProgress(q)
                              \/ LockLongFails(q)
      PROVE  HoldsLong(p)
  BY <1>3 DEF OpenShort, LockShort, ReadStatus, CheckPid, WritePid, WriteOrigin, GitProgress, LockLongFails
<1>4. ASSUME NEW q \in Procs, WriteStatus(q) \/ RemoveTree(q) \/ GitEnd(q) \/ Report(q)
                              \/ RemoveFiles(q) \/ RemovePid(q)
      PROVE  HoldsLong(p)
  BY <1>4 DEF WriteStatus, RemoveTree, GitEnd, Report, RemoveFiles, RemovePid
<1>5. ASSUME NEW q \in Procs, LockLong(q) PROVE HoldsLong(p) \/ LockLong(p)
  BY <1>5 DEF LockLong
<1> QED
  BY <1>1, <1>2, <1>3, <1>4, <1>5 DEF Next, Script, AllExited

(* At most one job has the long lock.                                      *)
OneJobAtWork == \A p, q \in Procs : HoldsLong(p) /\ HoldsLong(q) => p = q

(* With any mixture of scripts, unlinked short locks and crashes, as       *)
(* nothing unlinks the long lock.                                          *)
LEMMA LongLockExcludes == Spec => []OneJobAtWork
<1>1. Init => OneJobAtWork
  BY DEF Init, OneJobAtWork, HoldsLong, Job
<1>2. ASSUME TypeOK, OneJobAtWork, [Next]_vars PROVE OneJobAtWork'
  <2> SUFFICES ASSUME NEW p \in Procs, NEW q \in Procs, HoldsLong(p)', HoldsLong(q)'
               PROVE  p = q
    BY DEF OneJobAtWork
  <2>1. (HoldsLong(p) \/ LockLong(p)) /\ (HoldsLong(q) \/ LockLong(q))
    BY <1>2, JobsComeFromLockLong
  <2>2. CASE HoldsLong(p) /\ HoldsLong(q)
    BY <1>2, <2>2 DEF OneJobAtWork
  <2>3. CASE LockLong(p)
    <3>1. ~HoldsLong(q)
      BY <2>3 DEF LockLong
    <3>2. pc' = [pc EXCEPT ![p] = pc'[p]]
      BY <1>2, <2>3 DEF LockLong, Step, TypeOK
    <3> QED
      BY <1>2, <3>1, <3>2 DEF HoldsLong, TypeOK
  <2>4. CASE LockLong(q)
    <3>1. ~HoldsLong(p)
      BY <2>4 DEF LockLong
    <3>2. pc' = [pc EXCEPT ![q] = pc'[q]]
      BY <1>2, <2>4 DEF LockLong, Step, TypeOK
    <3> QED
      BY <1>2, <3>1, <3>2 DEF HoldsLong, TypeOK
  <2> QED
    BY <2>1, <2>2, <2>3, <2>4
<1> QED
  BY <1>1, <1>2, TypeCorrect, PTL DEF Spec

(* Before a job of do_clone or do_rm touches the tree the status is not    *)
(* "ok", and a job of do_clone about to report has a finished tree.        *)
TidyInv ==
  /\ \A p \in Procs : pc[p] \in {"clean", "git", "report"} => cmd[p] # "rm"
  /\ \A p \in Procs : pc[p] \in {"rm_status", "rm_origin", "rm_short"} => cmd[p] = "rm"
  /\ status = "ok" => mirror # None /\ mirror.complete
  /\ \A p \in Procs :
       /\ pc[p] \in {"rm_tree", "git", "report", "rm_status"} => status # "ok"
       /\ pc[p] = "say" /\ cmd[p] = "clone" => status # "ok"
       /\ pc[p] = "report" => mirror # None /\ mirror.complete

(* What do_clone publishes as "ok" stays there until the "ok" is taken     *)
(* away: with a git that works, any number of clones and removals, some    *)
(* let in by an unlinked short lock, and any crashes cannot break that.    *)
THEOREM OkIsKeptWithTheMirror == Spec => []OkOutlivesRemovals
<1> DEFINE Tidies == ~gitFails /\ \A p \in Procs : cmd[p] # "fetch"
           IInv == Tidies => TidyInv
<1>1. Init => IInv
  BY GirrorAssumption DEF Init, TidyInv, Texts
<1>2. ASSUME TypeOK, OneJobAtWork, Tidies, TidyInv, [Next]_vars PROVE TidyInv'
  <2> USE <1>2 DEF TypeOK, OneJobAtWork, TidyInv, HoldsLong, Front, Job, Exited, Step
  <2>0. \A p \in Procs : cmd[p] \in {"clone", "rm"}
    BY GirrorAssumption
  <2>1. ASSUME NEW p \in Procs, OpenShort(p) \/ LockShort(p) PROVE TidyInv'
    BY <2>1 DEF OpenShort, LockShort, local, lockf, files
  <2>2. ASSUME NEW p \in Procs, ReadStatus(p) \/ CheckPid(p) \/ WritePid(p) PROVE TidyInv'
    BY <2>0, <2>2 DEF ReadStatus, CheckPid, WritePid, local, lockf, files
  <2>3. ASSUME NEW p \in Procs, WriteOrigin(p) PROVE TidyInv'
    BY <2>0, <2>3 DEF WriteOrigin, local, lockf, files
  <2>4. ASSUME NEW p \in Procs, LockLong(p) \/ LockLongFails(p) PROVE TidyInv'
    BY <2>0, <2>4 DEF LockLong, LockLongFails, local, lockf, files
  <2>5. ASSUME NEW p \in Procs, WriteStatus(p) PROVE TidyInv'
    BY <2>0, <2>5 DEF WriteStatus, local, lockf, files
  <2>6. ASSUME NEW p \in Procs, RemoveTree(p) PROVE TidyInv'
    BY <2>0, <2>6 DEF RemoveTree, local, lockf, files
  <2>7. ASSUME NEW p \in Procs, GitProgress(p) PROVE TidyInv'
    BY <2>0, <2>7 DEF GitProgress, local, lockf, files
  <2>8. ASSUME NEW p \in Procs, GitEnd(p) PROVE TidyInv'
    <3>1. pc[p] = "git" /\ pc' = [pc EXCEPT ![p] = "report"] /\ cmd[p] = "clone"
      BY <2>0, <2>8 DEF GitEnd
    <3>2. status # "ok" /\ UNCHANGED <<cmd, status>>
      BY <2>8, <3>1 DEF GitEnd, local
    <3>3. mirror' = [of |-> remote[p], complete |-> TRUE]
      BY <2>0, <2>8, <3>1 DEF GitEnd
    <3>4. mirror' # None /\ mirror'.complete
      <4>1. remote[p] \in Remotes
        OBVIOUS
      <4>2. [of |-> remote[p], complete |-> TRUE] \in Mirrors
        BY ONLY <4>1 DEF Mirrors
      <4> QED
        BY ONLY <3>3, <4>2, GirrorAssumption
    <3> QED
      BY <3>1, <3>2, <3>4
  <2>9. ASSUME NEW p \in Procs, Report(p) PROVE TidyInv'
    BY <2>0, <2>9 DEF Report, local, lockf, files
  <2>10. ASSUME NEW p \in Procs, RemoveFiles(p) PROVE TidyInv'
    BY <2>0, <2>10, GirrorAssumption DEF RemoveFiles, Texts, local, lockf, files
  <2>11. ASSUME NEW p \in Procs, RemovePid(p) PROVE TidyInv'
    BY <2>0, <2>11 DEF RemovePid, local, lockf, files
  <2>12. CASE Crash
    BY <2>12 DEF Crash, local, lockf, files
  <2>13. CASE UNCHANGED vars
    BY <2>13 DEF vars, local, lockf, files
  <2> QED
    BY <2>1, <2>2, <2>3, <2>4, <2>5, <2>6, <2>7, <2>8, <2>9, <2>10, <2>11, <2>12, <2>13
       DEF Next, Script, AllExited
<1>3. ASSUME [Next]_vars PROVE UNCHANGED local
  BY <1>3 DEF Next, Script, OpenShort, LockShort, ReadStatus, CheckPid, WritePid, WriteOrigin,
              LockLong, LockLongFails, WriteStatus, RemoveTree, GitEnd, Report, RemoveFiles,
              RemovePid, GitProgress, Crash, AllExited, vars
<1>4. TypeOK /\ OneJobAtWork /\ IInv /\ [Next]_vars => IInv'
  BY <1>2, <1>3 DEF local
<1>5. IInv => OkOutlivesRemovals
  BY DEF TidyInv, OkOutlivesRemovals
<1> QED
  BY <1>1, <1>4, <1>5, TypeCorrect, LongLockExcludes, PTL DEF Spec

-----------------------------------------------------------------------------
(* The name of the short lock is the newest inode or nothing, and whoever  *)
(* has started opened one of those that were made.  As long as there was   *)
(* only one, only one invocation has it locked.                            *)
ShortLockInv ==
  /\ shortFile \in {0, nextIno}
  /\ \A p \in Procs : pc[p] # "idle" => ino[p] \in 1..nextIno
  /\ NeverUnlinked => \A p, q \in Procs : HoldsShort(p) /\ HoldsShort(q) => p = q

(* The short lock is a mutual exclusion lock for as long as its file has   *)
(* not been unlinked; git failing or the host going down do not matter.    *)
LEMMA ShortLockExcludes == Spec => []ShortLockInv
<1>1. Init => ShortLockInv
  BY DEF Init, ShortLockInv, HoldsShort, Front, Job
<1>2. ASSUME TypeOK, ShortLockInv, [Next]_vars PROVE ShortLockInv'
  <2> USE <1>2 DEF TypeOK, ShortLockInv, NeverUnlinked, HoldsShort, Front, Job, Exited, Step
  <2>1. ASSUME NEW p \in Procs, OpenShort(p) PROVE ShortLockInv'
    <3>1. CASE shortFile = 0
      BY <2>1, <3>1 DEF OpenShort, local
    <3>2. CASE shortFile # 0
      BY <2>1, <3>2 DEF OpenShort, local
    <3> QED
      BY <3>1, <3>2
  <2>2. ASSUME NEW p \in Procs, LockShort(p) PROVE ShortLockInv'
    BY <2>2 DEF LockShort, local, lockf
  <2>3. ASSUME NEW p \in Procs, ReadStatus(p) PROVE ShortLockInv'
    BY <2>3 DEF ReadStatus, local, lockf
  <2>4. ASSUME NEW p \in Procs, CheckPid(p) PROVE ShortLockInv'
    BY <2>4 DEF CheckPid, local, lockf
  <2>5. ASSUME NEW p \in Procs, WritePid(p) PROVE ShortLockInv'
    BY <2>5 DEF WritePid, local, lockf
  <2>6. ASSUME NEW p \in Procs, WriteOrigin(p) PROVE ShortLockInv'
    BY <2>6 DEF WriteOrigin, local, lockf
  <2>7. ASSUME NEW p \in Procs, LockLong(p) \/ LockLongFails(p) PROVE ShortLockInv'
    BY <2>7 DEF LockLong, LockLongFails, local, lockf
  <2>8. ASSUME NEW p \in Procs, WriteStatus(p) PROVE ShortLockInv'
    BY <2>8, GirrorAssumption DEF WriteStatus, local, lockf
  <2>9. ASSUME NEW p \in Procs, RemoveTree(p) PROVE ShortLockInv'
    BY <2>9, GirrorAssumption DEF RemoveTree, local, lockf
  <2>10. ASSUME NEW p \in Procs, GitEnd(p) PROVE ShortLockInv'
    BY <2>10 DEF GitEnd, local, lockf
  <2>11. ASSUME NEW p \in Procs, Report(p) PROVE ShortLockInv'
    BY <2>11 DEF Report, local, lockf
  <2>12. ASSUME NEW p \in Procs, RemoveFiles(p) PROVE ShortLockInv'
    BY <2>12 DEF RemoveFiles, local, lockf
  <2>13. ASSUME NEW p \in Procs, RemovePid(p) PROVE ShortLockInv'
    BY <2>13 DEF RemovePid, local, lockf
  <2>14. ASSUME NEW p \in Procs, GitProgress(p) PROVE ShortLockInv'
    BY <2>14 DEF GitProgress, local, lockf
  <2>15. CASE Crash
    BY <2>15 DEF Crash, local, lockf
  <2>16. CASE UNCHANGED vars
    BY <2>16 DEF vars, local, lockf
  <2> QED
    BY <2>1, <2>2, <2>3, <2>4, <2>5, <2>6, <2>7, <2>8, <2>9, <2>10, <2>11, <2>12,
       <2>13, <2>14, <2>15, <2>16 DEF Next, Script, AllExited
<1> QED
  BY <1>1, <1>2, TypeCorrect, PTL DEF Spec

(* Until a do_rm first unlinks the short lock, the test of work_pid and    *)
(* the write of it are one atomic step for all other invocations, so one   *)
(* job is admitted at a time; crashes and failures of git included.        *)
THEOREM JobsAreSerialised == Spec => []OneJobUntilUnlinked
<1>1. ShortLockInv => OneJobUntilUnlinked
  BY DEF ShortLockInv, OneJobUntilUnlinked, OneJobAdmitted, Admitted, HoldsShort, Front, Job
<1> QED
  BY <1>1, ShortLockExcludes, PTL

-----------------------------------------------------------------------------
(* A status of "ok" read by a clone under the short lock ends it, so a     *)
(* clone that goes on has the status to itself; from the fork on, origin   *)
(* is its url, and when git has ended the tree is a finished copy of it.   *)
PublishInv ==
  /\ OkDescribesMirror
  /\ NeverUnlinked
  /\ \A p \in Procs :
       /\ pc[p] \notin {"rm_status", "rm_origin", "rm_short"}
       /\ pc[p] \in {"check_pid", "write_pid", "write_origin", "flock_long", "clean",
                    "rm_tree", "say", "git", "report"} => status # "ok"
       /\ pc[p] \in {"flock_long", "clean", "rm_tree", "say", "git", "report", "rm_pid"}
            => origin = remote[p]
       /\ pc[p] # "set_origin"
       /\ pc[p] = "report" => mirror = [of |-> remote[p], complete |-> TRUE]

(* When git does not fail, what do_clone publishes as "ok" is a finished   *)
(* mirror of the url in origin: no interleaving of clones of urls that     *)
(* share the target name, and no crash of the host, can break that.        *)
THEOREM PublishedIsFinished == Spec => []OkDescribesClones
<1> DEFINE ClonesThatWork == ~gitFails /\ \A p \in Procs : cmd[p] = "clone"
           IInv == ClonesThatWork => PublishInv
<1>1. Init => IInv
  BY GirrorAssumption DEF Init, PublishInv, NeverUnlinked, OkDescribesMirror, Texts
<1>2. ASSUME TypeOK, ShortLockInv, ClonesThatWork, PublishInv, [Next]_vars PROVE PublishInv'
  <2> USE <1>2 DEF TypeOK, ShortLockInv, NeverUnlinked, PublishInv, OkDescribesMirror, HoldsShort,
          Front, Job, Exited, Step
  <2>0. \A p \in Procs : cmd[p] = "clone"
    OBVIOUS
  <2>1. ASSUME NEW p \in Procs, OpenShort(p) PROVE PublishInv'
    BY <2>1 DEF OpenShort, local, lockf, files
  <2>2. ASSUME NEW p \in Procs, LockShort(p) PROVE PublishInv'
    BY <2>2 DEF LockShort, local, lockf, files
  <2>3. ASSUME NEW p \in Procs, ReadStatus(p) PROVE PublishInv'
    BY <2>0, <2>3 DEF ReadStatus, local, lockf, files
  <2>4. ASSUME NEW p \in Procs, CheckPid(p) PROVE PublishInv'
    BY <2>4 DEF CheckPid, local, lockf, files
  <2>5. ASSUME NEW p \in Procs, WritePid(p) PROVE PublishInv'
    BY <2>0, <2>5 DEF WritePid, local, lockf
  <2>6. ASSUME NEW p \in Procs, WriteOrigin(p) PROVE PublishInv'
    BY <2>0, <2>6 DEF WriteOrigin, local, lockf
  <2>7. ASSUME NEW p \in Procs, LockLong(p) \/ LockLongFails(p) PROVE PublishInv'
    BY <2>0, <2>7 DEF LockLong, LockLongFails, local, lockf, files
  <2>8. ASSUME NEW p \in Procs, WriteStatus(p) PROVE PublishInv'
    BY <2>0, <2>8 DEF WriteStatus, local, lockf
  <2>9. ASSUME NEW p \in Procs, RemoveTree(p) PROVE PublishInv'
    BY <2>0, <2>9 DEF RemoveTree, local, lockf
  <2>10. ASSUME NEW p \in Procs, GitEnd(p) PROVE PublishInv'
    BY <2>0, <2>10, ZenonT(60) DEF GitEnd, local, lockf
  <2>11. ASSUME NEW p \in Procs, Report(p) PROVE PublishInv'
    <3>1. mirror = [of |-> remote[p], complete |-> TRUE] /\ origin = remote[p]
      BY <2>11 DEF Report
    <3>2. mirror # None
      <4>1. remote[p] \in Remotes
        OBVIOUS
      <4>2. [of |-> remote[p], complete |-> TRUE] \in Mirrors
        BY ONLY <4>1 DEF Mirrors
      <4> QED
        BY ONLY <3>1, <4>2, GirrorAssumption
    <3>3. OkDescribesMirror'
      BY <2>11, <3>1, <3>2 DEF Report
    <3> QED
      BY <2>0, <2>11, <3>3 DEF Report, local, lockf
  <2>12. ASSUME NEW p \in Procs, RemoveFiles(p) PROVE PublishInv'
    BY <2>12 DEF RemoveFiles
  <2>13. ASSUME NEW p \in Procs, RemovePid(p) PROVE PublishInv'
    BY <2>13 DEF RemovePid, local, lockf
  <2>14. ASSUME NEW p \in Procs, GitProgress(p) PROVE PublishInv'
    BY <2>0, <2>14 DEF GitProgress, local, lockf
  <2>15. CASE Crash
    BY <2>15 DEF Crash, local, lockf, files
  <2>16. CASE UNCHANGED vars
    BY <2>16 DEF vars, local, lockf, files
  <2> QED
    BY <2>1, <2>2, <2>3, <2>4, <2>5, <2>6, <2>7, <2>8, <2>9, <2>10, <2>11, <2>12,
       <2>13, <2>14, <2>15, <2>16 DEF Next, Script, AllExited
<1>3. ASSUME [Next]_vars PROVE UNCHANGED local
  BY <1>3 DEF Next, Script, OpenShort, LockShort, ReadStatus, CheckPid, WritePid, WriteOrigin,
              LockLong, LockLongFails, WriteStatus, RemoveTree, GitEnd, Report, RemoveFiles,
              RemovePid, GitProgress, Crash, AllExited, vars
<1>4. TypeOK /\ ShortLockInv /\ IInv /\ [Next]_vars => IInv'
  BY <1>2, <1>3 DEF local
<1>5. IInv => OkDescribesClones
  BY DEF PublishInv, OkDescribesClones
<1> QED
  BY <1>1, <1>4, <1>5, TypeCorrect, ShortLockExcludes, PTL DEF Spec

-----------------------------------------------------------------------------
(* Unless a job was lost, work_pid names an invocation that is at work     *)
(* and will remove it, whatever do_rm does to the short lock; so           *)
(* "already working" is never said of a target nobody works on.            *)
THEOREM WorkPidIsOwned == Spec => []WorkPidHasOwner
<1>1. Init => WorkPidHasOwner
  BY DEF Init, WorkPidHasOwner
<1>2. ASSUME TypeOK, WorkPidHasOwner, [Next]_vars PROVE WorkPidHasOwner'
  <2> USE <1>2, GirrorAssumption DEF TypeOK, WorkPidHasOwner, JobLost, Admitted, Front, Job, Exited, Step
  <2>1. ASSUME NEW p \in Procs, OpenShort(p) \/ LockShort(p) \/ ReadStatus(p) \/ CheckPid(p)
        PROVE  WorkPidHasOwner'
    BY <2>1 DEF OpenShort, LockShort, ReadStatus, CheckPid, files
  <2>2. ASSUME NEW p \in Procs, WritePid(p) PROVE WorkPidHasOwner'
    BY <2>2 DEF WritePid
  <2>3. ASSUME NEW p \in Procs, WriteOrigin(p) \/ LockLong(p) \/ WriteStatus(p) \/ RemoveTree(p)
        PROVE  WorkPidHasOwner'
    BY <2>3 DEF WriteOrigin, LockLong, WriteStatus, RemoveTree, files
  <2>4. ASSUME NEW p \in Procs, GitProgress(p) \/ GitEnd(p) \/ Report(p) \/ RemoveFiles(p)
        PROVE  WorkPidHasOwner'
    BY <2>4 DEF GitProgress, GitEnd, Report, RemoveFiles
  <2>5. ASSUME NEW p \in Procs, RemovePid(p) \/ LockLongFails(p) PROVE WorkPidHasOwner'
    BY <2>5 DEF RemovePid, LockLongFails, files
  <2>6. CASE Crash
    BY <2>6 DEF Crash
  <2>7. CASE UNCHANGED vars
    BY <2>7 DEF vars, files
  <2> QED
    BY <2>1, <2>2, <2>3, <2>4, <2>5, <2>6, <2>7 DEF Next, Script, AllExited
<1> QED
  BY <1>1, <1>2, TypeCorrect, PTL DEF Spec

(* A caller is turned away as "already working" only while another         *)
(* invocation is at work: the message of do_*:17-20, unless a job was lost.*)
THEOREM AlreadyWorkingHolds == Spec => AlreadyWorkingIsTrue
<1> DEFINE Truthful == \A p \in Procs : pc[p] = "check_pid" /\ pc'[p] = "already_working" /\ ~JobLost
                         => \E q \in Procs \ {p} : Admitted(q)
<1>1. ASSUME TypeOK, WorkPidHasOwner, [Next]_vars PROVE Truthful
  <2> SUFFICES ASSUME NEW p \in Procs, pc[p] = "check_pid", pc'[p] = "already_working", ~JobLost
               PROVE  \E q \in Procs \ {p} : Admitted(q)
    OBVIOUS
  <2>1. workPid # None
    <3> USE <1>1 DEF TypeOK, Step, Front, Job, Exited
    <3>1. ASSUME NEW q \in Procs, CheckPid(q) PROVE workPid # None
      BY <3>1 DEF CheckPid
    <3>2. ASSUME NEW q \in Procs, OpenShort(q) \/ LockShort(q) \/ ReadStatus(q) \/ WritePid(q)
                                 \/ WriteOrigin(q) \/ LockLong(q) \/ LockLongFails(q)
                                 \/ WriteStatus(q)
          PROVE  FALSE
      BY <3>2 DEF OpenShort, LockShort, ReadStatus, WritePid, WriteOrigin, LockLong, LockLongFails, WriteStatus
    <3>3. ASSUME NEW q \in Procs, RemoveTree(q) \/ GitProgress(q) \/ GitEnd(q) \/ Report(q)
                                 \/ RemoveFiles(q) \/ RemovePid(q)
          PROVE  FALSE
      BY <3>3 DEF RemoveTree, GitProgress, GitEnd, Report, RemoveFiles, RemovePid
    <3>4. ~Crash
      BY DEF Crash
    <3>5. CASE UNCHANGED vars
      BY <3>5 DEF vars
    <3> QED
      BY <3>1, <3>2, <3>3, <3>4, <3>5 DEF Next, Script, AllExited
  <2>2. workPid \in Procs /\ Admitted(workPid) /\ ~Admitted(p)
    BY <1>1, <2>1 DEF TypeOK, WorkPidHasOwner, Admitted, Job
  <2> QED
    BY <2>2
<1>2. TypeOK /\ WorkPidHasOwner /\ [Next]_vars => [Truthful]_vars
  BY <1>1
<1> QED
  BY <1>2, TypeCorrect, WorkPidIsOwned, PTL DEF Spec, AlreadyWorkingIsTrue

-----------------------------------------------------------------------------
(* Whether the directory is a finished mirror.                             *)
Finished == mirror # None /\ mirror.complete

(* Under the short lock a finished mirror has a status of "ok", or a       *)
(* work_pid that an active job or a crash has left; both turn a clone away *)
(* before it removes the tree.                                             *)
KeepInv ==
  /\ \A p \in Procs : pc[p] = "clean" => cmd[p] = "clone"
  /\ \A p \in Procs : pc[p] = "rm_tree" => cmd[p] # "fetch"
  /\ \A p \in Procs : pc[p] = "git" => cmd[p] # "rm"
  /\ \A p \in Procs : pc[p] = "report" => ran[p]
  /\ NeverUnlinked =>
       /\ Finished => status = "ok" \/ workPid # None
       /\ \A p \in Procs : Admitted(p) => workPid = p
       /\ \A p \in Procs : pc[p] \in {"set_origin", "rm_pid"} => status = "ok"
       /\ \A p \in Procs : cmd[p] = "clone" /\ pc[p] = "check_pid" => status # "ok"
       /\ \A p \in Procs : cmd[p] = "clone" /\ pc[p] \in {"write_pid", "write_origin", "flock_long", "clean",
                                                        "rm_tree", "say", "git"} => ~Finished

(* No step breaks that.                                                    *)
LEMMA KeepStep ==
  ASSUME TypeOK, ShortLockInv, KeepInv, [Next]_vars
  PROVE  KeepInv'
<1> USE GirrorAssumption DEF TypeOK, ShortLockInv, NeverUnlinked, KeepInv, Finished, HoldsShort, Admitted,
        Front, Job, Exited, Step
<1>1. ASSUME NEW p \in Procs, OpenShort(p) PROVE KeepInv'
  BY <1>1 DEF OpenShort, local, files
<1>2. ASSUME NEW p \in Procs, LockShort(p) PROVE KeepInv'
  BY <1>2 DEF LockShort, local, lockf, files
<1>3. ASSUME NEW p \in Procs, ReadStatus(p) PROVE KeepInv'
  BY <1>3 DEF ReadStatus, local, lockf, files
<1>4. ASSUME NEW p \in Procs, CheckPid(p) PROVE KeepInv'
  BY <1>4 DEF CheckPid, local, lockf, files
<1>5. ASSUME NEW p \in Procs, WritePid(p) PROVE KeepInv'
  BY <1>5 DEF WritePid, local, lockf
<1>6. ASSUME NEW p \in Procs, WriteOrigin(p) PROVE KeepInv'
  BY <1>6 DEF WriteOrigin, local, lockf
<1>7. ASSUME NEW p \in Procs, LockLong(p) \/ LockLongFails(p) PROVE KeepInv'
  BY <1>7 DEF LockLong, LockLongFails, local, lockf, files
<1>8. ASSUME NEW p \in Procs, WriteStatus(p) PROVE KeepInv'
  BY <1>8 DEF WriteStatus, local, lockf
<1>9. ASSUME NEW p \in Procs, RemoveTree(p) PROVE KeepInv'
  BY <1>9 DEF RemoveTree, local, lockf
<1>10. ASSUME NEW p \in Procs, GitEnd(p) PROVE KeepInv'
  BY <1>10 DEF GitEnd, PipelineStatus, local, lockf
<1>11. ASSUME NEW p \in Procs, Report(p) PROVE KeepInv'
  BY <1>11 DEF Report, local, lockf
<1>12. ASSUME NEW p \in Procs, RemoveFiles(p) PROVE KeepInv'
  BY <1>12 DEF RemoveFiles, local
<1>13. ASSUME NEW p \in Procs, RemovePid(p) PROVE KeepInv'
  BY <1>13 DEF RemovePid, local, lockf
<1>14. ASSUME NEW p \in Procs, GitProgress(p) PROVE KeepInv'
  BY <1>14 DEF GitProgress, local, lockf
<1>15. CASE Crash
  BY <1>15 DEF Crash, local, lockf, files
<1>16. CASE UNCHANGED vars
  BY <1>16 DEF vars, local, lockf, files
<1> QED
  BY <1>1, <1>2, <1>3, <1>4, <1>5, <1>6, <1>7, <1>8, <1>9, <1>10, <1>11, <1>12,
     <1>13, <1>14, <1>15, <1>16 DEF Next, Script, AllExited

(* What an "already done" of do_clone, tested under the short lock, is     *)
(* for: a finished mirror is taken away by a do_rm only, until one has     *)
(* unlinked that lock; through all failures of git and crashes.            *)
THEOREM FinishedMirrorKept == Spec => FinishedMirrorStays
<1> DEFINE Kept == NeverUnlinked /\ Finished
                     => \/ Finished'
                        \/ \E p \in Procs : cmd[p] = "rm" /\ pc[p] = "rm_tree" /\ pc'[p] = "rm_status"
<1>1. Init => KeepInv
  BY DEF Init, KeepInv, Finished, Admitted, Job
<1>2. ASSUME TypeOK, ShortLockInv, KeepInv, [Next]_vars PROVE Kept
  <2> SUFFICES ASSUME NeverUnlinked, Finished, ~Finished'
               PROVE  \E p \in Procs : cmd[p] = "rm" /\ pc[p] = "rm_tree" /\ pc'[p] = "rm_status"
    OBVIOUS
  <2>1. ASSUME NEW p \in Procs, RemoveTree(p)
        PROVE  cmd[p] = "rm" /\ pc[p] = "rm_tree" /\ pc'[p] = "rm_status"
    <3>1. pc[p] = "rm_tree" /\ cmd[p] \in {"clone", "fetch", "rm"}
      BY <1>2, <2>1, GirrorAssumption DEF RemoveTree, Step, TypeOK
    <3>2. cmd[p] # "clone" /\ cmd[p] # "fetch"
      BY <1>2, <3>1 DEF KeepInv
    <3> QED
      BY <1>2, <2>1, <3>1, <3>2 DEF RemoveTree, Step, TypeOK
  <2>2. ASSUME NEW p \in Procs, GitProgress(p) \/ GitEnd(p)
        PROVE  FALSE
    <3>1. pc[p] = "git" /\ cmd[p] \in {"clone", "fetch", "rm"}
      BY <1>2, <2>2, GirrorAssumption DEF GitProgress, GitEnd, Step, TypeOK
    <3>2. cmd[p] = "fetch"
      BY <1>2, <3>1 DEF KeepInv
    <3> QED
      BY <2>2, <3>2 DEF GitProgress, GitEnd, Finished
  <2>3. UNCHANGED mirror => FALSE
    BY DEF Finished
  <2> QED
    BY <1>2, <2>1, <2>2, <2>3
       DEF Next, Script, AllExited, vars, files, OpenShort, LockShort, ReadStatus, CheckPid, WritePid, WriteOrigin,
           LockLong, LockLongFails, WriteStatus, Report, RemoveFiles, RemovePid, Crash
<1>3. TypeOK /\ ShortLockInv /\ KeepInv /\ [Next]_vars => KeepInv'
  BY KeepStep
<1>4. TypeOK /\ ShortLockInv /\ KeepInv /\ [Next]_vars => [Kept]_vars
  BY <1>2
<1>5. [Kept]_vars
       => [NeverUnlinked /\ mirror # None /\ mirror.complete
             => \/ mirror' # None /\ mirror'.complete
                \/ \E p \in Procs : cmd[p] = "rm" /\ pc[p] = "rm_tree" /\ pc'[p] = "rm_status"]_vars
  BY DEF Finished
<1> QED
  BY <1>1, <1>3, <1>4, <1>5, TypeCorrect, ShortLockExcludes, PTL DEF Spec, FinishedMirrorStays
=============================================================================

------------------------------- MODULE Girror -------------------------------
(***************************************************************************)
(* girror: the shell scripts that keep one git mirror.  Every invocation   *)
(* of fast_cmd takes the target's short lock and runs do_clone, do_fetch   *)
(* or do_rm, which admits itself through the file <target>.work_pid and    *)
(* leaves a background job that works under the target's long lock.        *)
(*                                                                         *)
(* An invocation is one process tree.  The lock descriptor of flock(1) is  *)
(* inherited by the background subshell (fast_cmd does not pass -o), so    *)
(* the short lock is held until the whole tree has exited.                 *)
(***************************************************************************)
EXTENDS Naturals

CONSTANTS
  Procs,       (* invocations of fast_cmd                                  *)
  Remotes,     (* urls that do_* folds to this one target name             *)
  Cmds,        (* the scripts that are invoked                             *)
  GitMayFail,  (* whether git may exit with an error: the cases considered *)
  MaxCrash,    (* how often the host may go down                           *)
  None         (* an absent file                                           *)

(* What a status file may say, and what the mirror directory may be. *)
Texts   == {"clean", "clone", "fetch", "progress", "ok", "failed"}
Mirrors == [of : Remotes, complete : BOOLEAN]

ASSUME GirrorAssumption ==
  /\ Cmds \subseteq {"clone", "fetch", "rm"}
  /\ GitMayFail \subseteq BOOLEAN
  /\ MaxCrash \in Nat
  /\ None \notin Procs \cup Remotes \cup Texts \cup Mirrors

VARIABLES
  pc,        (* next step of each invocation                               *)
  cmd,       (* its script                                                 *)
  remote,    (* its url                                                    *)
  gitFails,  (* the case: whether git may exit with an error               *)
  ino,       (* inode of the short lock file it opened, 0 before           *)
  ran,       (* the exit status run_git returned to it                     *)
  shortFile, (* inode <target>.short_lock names now, 0 when unlinked       *)
  nextIno,   (* inodes given out                                           *)
  status,    (* content of <target>.status                                 *)
  workPid,   (* content of <target>.work_pid                               *)
  origin,    (* content of <target>.origin                                 *)
  mirror,    (* the directory <target>                                     *)
  crashes

local == <<cmd, remote, gitFails>>
files == <<status, workPid, origin, mirror>>
lockf == <<ino, shortFile, nextIno>>
vars  == <<pc, local, lockf, ran, files, crashes>>

Front  == {"read_status", "check_pid", "write_pid", "write_origin", "flock_long"}
Job    == {"clean", "rm_tree", "say", "git", "report", "set_origin",
           "rm_status", "rm_origin", "rm_short", "rm_pid"}
Exited == {"done", "already_done", "already_working", "no_lock", "killed"}

TypeOK ==
  /\ pc \in [Procs -> {"idle", "flock_short"} \cup Front \cup Job \cup Exited]
  /\ cmd \in [Procs -> Cmds] /\ remote \in [Procs -> Remotes] /\ gitFails \in GitMayFail
  /\ ino \in [Procs -> Nat] /\ shortFile \in Nat /\ nextIno \in Nat
  /\ ran \in [Procs -> BOOLEAN]
  /\ status \in Texts \cup {None} /\ workPid \in Procs \cup {None}
  /\ origin \in Remotes \cup {None} /\ mirror \in Mirrors \cup {None}
  /\ crashes \in 0..MaxCrash

HoldsShort(p) == pc[p] \in Front \cup Job
HoldsLong(p)  == pc[p] \in Job
(* p has written work_pid and has not yet removed it. *)
Admitted(p)   == pc[p] \in Job \cup {"write_origin", "flock_long"}

Init ==
  /\ pc = [p \in Procs |-> "idle"]
  /\ cmd \in [Procs -> Cmds] /\ remote \in [Procs -> Remotes] /\ gitFails \in GitMayFail
  /\ ino = [p \in Procs |-> 0] /\ shortFile = 0 /\ nextIno = 0
  /\ ran = [p \in Procs |-> FALSE]
  /\ status = None /\ workPid = None /\ origin = None /\ mirror = None
  /\ crashes = 0

Step(p, from, to) == pc[p] = from /\ pc' = [pc EXCEPT ![p] = to]

-----------------------------------------------------------------------------
(* flock(1) opens the lock file, creating it when no file has the name ... *)
OpenShort(p) ==
  /\ Step(p, "idle", "flock_short")
  /\ nextIno' = IF shortFile = 0 THEN nextIno + 1 ELSE nextIno
  /\ shortFile' = IF shortFile = 0 THEN nextIno + 1 ELSE shortFile
  /\ ino' = [ino EXCEPT ![p] = shortFile']
  /\ UNCHANGED <<local, ran, files, crashes>>

(* Mutant: the lock file is opened but never locked. *)
LockShortUnlocked(p) ==
  /\ Step(p, "flock_short", "read_status")
  /\ UNCHANGED <<local, lockf, ran, files, crashes>>

(* ... and blocks until no open description of that inode holds the lock.  *)
LockShort(p) ==
  /\ Step(p, "flock_short", "read_status")
  /\ \A q \in Procs : HoldsShort(q) => ino[q] # ino[p]
  /\ UNCHANGED <<local, lockf, ran, files, crashes>>

(* Mutant: do_clone without its "already done" test. *)
ReadStatusAlways(p) ==
  /\ Step(p, "read_status", "check_pid")
  /\ UNCHANGED <<local, lockf, ran, files, crashes>>

(* Only do_clone acts on the status it reads: "already done". *)
ReadStatus(p) ==
  /\ Step(p, "read_status", IF cmd[p] = "clone" /\ status = "ok"
                            THEN "already_done" ELSE "check_pid")
  /\ UNCHANGED <<local, lockf, ran, files, crashes>>

CheckPid(p) ==
  /\ Step(p, "check_pid", IF workPid # None THEN "already_working" ELSE "write_pid")
  /\ UNCHANGED <<local, lockf, ran, files, crashes>>

WritePid(p) ==
  /\ Step(p, "write_pid", IF cmd[p] = "clone" THEN "write_origin" ELSE "flock_long")
  /\ workPid' = p
  /\ UNCHANGED <<local, lockf, ran, status, origin, mirror, crashes>>

(* do_clone before it forks the job; do_fetch when git has run. *)
WriteOrigin(p) ==
  /\ \/ Step(p, "write_origin", "flock_long")
     \/ Step(p, "set_origin", "rm_pid")
  /\ origin' = remote[p]
  /\ UNCHANGED <<local, lockf, ran, status, workPid, mirror, crashes>>

(* Mutant: the job does not wait for the long lock. *)
LockLongUnlocked(p) ==
  /\ Step(p, "flock_long", IF cmd[p] = "clone" THEN "clean" ELSE "say")
  /\ UNCHANGED <<local, lockf, ran, files, crashes>>

LockLong(p) ==
  /\ Step(p, "flock_long", IF cmd[p] = "clone" THEN "clean" ELSE "say")
  /\ \A q \in Procs : ~HoldsLong(q)
  /\ UNCHANGED <<local, lockf, ran, files, crashes>>

(* flock 9 || exit 1: the job ends without the lock and leaves work_pid.   *)
LockLongFails(p) ==
  /\ Step(p, "flock_long", "no_lock")
  /\ UNCHANGED <<local, lockf, ran, files, crashes>>

(* do_rm announces itself as "fetch" too. *)
WriteStatus(p) ==
  /\ \/ Step(p, "clean", "rm_tree") /\ status' = "clean"
     \/ Step(p, "say", IF cmd[p] = "rm" THEN "rm_tree" ELSE "git")
        /\ status' = IF cmd[p] = "clone" THEN "clone" ELSE "fetch"
  /\ UNCHANGED <<local, lockf, ran, workPid, origin, mirror, crashes>>

RemoveTree(p) ==
  /\ Step(p, "rm_tree", IF cmd[p] = "clone" THEN "say" ELSE "rm_status")
  /\ mirror' = None
  /\ UNCHANGED <<local, lockf, ran, status, workPid, origin, crashes>>

(* One progress line of git reaches the status file; a fetch prints none   *)
(* when the directory it should cd to is missing.                          *)
GitProgress(p) ==
  /\ pc[p] = "git"
  /\ cmd[p] = "fetch" => mirror # None
  /\ status' = "progress"
  /\ mirror' = IF cmd[p] = "clone" THEN [of |-> remote[p], complete |-> FALSE]
                                   ELSE mirror
  /\ UNCHANGED <<pc, local, lockf, ran, workPid, origin, crashes>>

(* run_git is a pipeline git | sed | while: its status is the loop's. *)
PipelineStatus(gitOk) == TRUE

(* Mutant: the job repeats git until it succeeds. *)
GitEndRetry(p) ==
  /\ \E gitOk \in BOOLEAN :
       /\ gitOk => cmd[p] = "clone" \/ mirror # None
       /\ Step(p, "git", IF gitOk THEN "report" ELSE "git")
       /\ ran' = [ran EXCEPT ![p] = gitOk]
       /\ mirror' = IF gitOk /\ cmd[p] = "clone"
                     THEN [of |-> remote[p], complete |-> TRUE] ELSE mirror
  /\ UNCHANGED <<local, lockf, status, workPid, origin, crashes>>

(* Mutant: git goes on in the background when the job has gone on. *)
GitEndDetached(p) ==
  /\ Step(p, "git", "report")
  /\ ran' = [ran EXCEPT ![p] = TRUE]
  /\ UNCHANGED <<local, lockf, status, workPid, origin, mirror, crashes>>

(* A failing git clone removes what it created. *)
GitEnd(p) ==
  /\ Step(p, "git", "report")
  /\ \E gitOk \in BOOLEAN :
       /\ gitOk \/ gitFails \/ (cmd[p] = "fetch" /\ mirror = None)
       /\ gitOk => cmd[p] = "clone" \/ mirror # None
       /\ ran' = [ran EXCEPT ![p] = PipelineStatus(gitOk)]
       /\ mirror' = IF cmd[p] = "fetch" THEN mirror
                    ELSE IF gitOk THEN [of |-> remote[p], complete |-> TRUE]
                    ELSE None
  /\ UNCHANGED <<local, lockf, status, workPid, origin, crashes>>

Report(p) ==
  /\ Step(p, "report", IF cmd[p] = "fetch" /\ ran[p] THEN "set_origin" ELSE "rm_pid")
  /\ status' = IF ran[p] THEN "ok" ELSE "failed"
  /\ UNCHANGED <<local, lockf, ran, workPid, origin, mirror, crashes>>

(* do_rm's three rm calls; the last one unlinks the lock file it holds. *)
RemoveFiles(p) ==
  /\ \/ /\ Step(p, "rm_status", "rm_origin") /\ status' = None
        /\ UNCHANGED <<origin, shortFile>>
     \/ /\ Step(p, "rm_origin", "rm_short") /\ origin' = None
        /\ UNCHANGED <<status, shortFile>>
     \/ /\ Step(p, "rm_short", "rm_pid") /\ shortFile' = 0
        /\ UNCHANGED <<status, origin>>
  /\ UNCHANGED <<local, ino, nextIno, ran, workPid, mirror, crashes>>

(* Mutant: do_rm leaves its work_pid behind. *)
RemovePidExceptRm(p) ==
  /\ Step(p, "rm_pid", "done")
  /\ workPid' = IF cmd[p] = "rm" THEN workPid ELSE None
  /\ UNCHANGED <<local, lockf, ran, status, origin, mirror, crashes>>

(* The job's last step: the subshell exits and both locks go with it. *)
RemovePid(p) ==
  /\ Step(p, "rm_pid", "done")
  /\ workPid' = None
  /\ UNCHANGED <<local, lockf, ran, status, origin, mirror, crashes>>

(* The host goes down: processes and locks are gone, files stay. *)
Crash ==
  /\ crashes < MaxCrash
  /\ crashes' = crashes + 1
  /\ pc' = [p \in Procs |-> IF pc[p] \in Exited \cup {"idle"} THEN pc[p] ELSE "killed"]
  /\ UNCHANGED <<local, lockf, ran, files>>

AllExited == (\A p \in Procs : pc[p] \in Exited) /\ UNCHANGED vars

(* What the shell does by itself once the invocation is under way. *)
Script(p) ==
  \/ LockShort(p) \/ ReadStatus(p) \/ CheckPid(p) \/ WritePid(p) \/ WriteOrigin(p)
  \/ LockLong(p) \/ WriteStatus(p) \/ RemoveTree(p) \/ GitEnd(p) \/ Report(p)
  \/ RemoveFiles(p) \/ RemovePid(p)

Next ==
  \/ \E p \in Procs : OpenShort(p) \/ Script(p) \/ GitProgress(p) \/ LockLongFails(p)
  \/ Crash
  \/ AllExited

Spec == Init /\ [][Next]_vars

(* Invocations come when they like; one that has started keeps running,    *)
(* git ends, and flock(2) hands a free lock to a waiter.                   *)
FairSpec == Spec /\ \A p \in Procs : WF_vars(Script(p))

-----------------------------------------------------------------------------
(* The scripts never let a second job in beside an active one: "pid N      *)
(* already working" (do_clone:18, do_fetch:13).                            *)
OneJobAdmitted == \A p, q \in Procs : Admitted(p) /\ Admitted(q) => p = q

(* The short lock is the file it has been from the first caller on. *)
NeverUnlinked == nextIno <= 1 /\ shortFile = nextIno

(* Until a do_rm first unlinks the short lock, testing and writing work_pid*)
(* is atomic, through crashes and failures of git, and so the above holds. *)
OneJobUntilUnlinked == NeverUnlinked => OneJobAdmitted

(* A job that ended before its rm of work_pid: a crash, or no long lock.   *)
JobLost == crashes > 0 \/ \E p \in Procs : pc[p] = "no_lock"

(* Unless a job was lost, the process named in work_pid is an invocation   *)
(* that is at work and will remove the file, so the file never locks later *)
(* callers out; not even when two jobs share it.                           *)
WorkPidHasOwner == ~JobLost /\ workPid # None => Admitted(workPid)

(* A status of "ok" belongs to a finished mirror of the url in origin,     *)
(* which is what index.php prints as the insteadOf of the target.          *)
OkDescribesMirror ==
  status = "ok" => mirror # None /\ mirror.complete /\ mirror.of = origin

(* It does whenever git does not fail and only clones are invoked, of urls *)
(* that share the target name: no interleaving and no crash breaks it.     *)
OkDescribesClones == ~gitFails /\ (\A p \in Procs : cmd[p] = "clone") => OkDescribesMirror

(* Clones and removals of a target whose short lock was unlinked work      *)
(* beside one another, and still "ok" is said of a finished mirror only:   *)
(* each job takes the status away under the long lock before it touches    *)
(* the tree (do_clone:26-43, do_rm:20-24).  A fetch of a target that was   *)
(* removed, or a git that fails, says "ok" of nothing (PipelineStatus).    *)
OkOutlivesRemovals ==
  ~gitFails /\ (\A p \in Procs : cmd[p] # "fetch")
    => (status = "ok" => mirror # None /\ mirror.complete)

(* Unless a job was lost, "pid N already working" is said only when some   *)
(* other job is at work.                                                   *)
AlreadyWorkingIsTrue ==
  [][\A p \in Procs : pc[p] = "check_pid" /\ pc'[p] = "already_working" /\ ~JobLost
        => \E q \in Procs \ {p} : Admitted(q)]_vars

(* A finished mirror is taken away by a do_rm only, until one has unlinked *)
(* the short lock.  do_clone removes the tree it finds, so this rests on   *)
(* its "already done" test being made under that lock, when no fetch has   *)
(* the status at "fetch".                                                  *)
FinishedMirrorStays ==
  [][NeverUnlinked /\ mirror # None /\ mirror.complete
        => \/ mirror' # None /\ mirror'.complete
           \/ \E p \in Procs : cmd[p] = "rm" /\ pc[p] = "rm_tree" /\ pc'[p] = "rm_status"]_vars

(* Whatever order the two locks are waited for in, every invocation that   *)
(* started comes to an end.                                                *)
Terminates == \A p \in Procs : (pc[p] # "idle") ~> (pc[p] \in Exited)
=============================================================================

--------------------------------- MODULE Shm --------------------------------
(***************************************************************************)
(* The shared memory programs: shmopen.c, shmopen2.c and shmunlink.c share *)
(* a POSIX object by its name, shmget.c, shmread.c and shmstat.c a System  *)
(* V segment by its id.  Any number of them run side by side, and every    *)
(* call may fail.  What a memory holds only grows: nothing, zeros, a part  *)
(* of the message, the message.                                            *)
(***************************************************************************)
EXTENDS Integers, Sequences

CONSTANTS
  ShmProcs,       (* processes, numbers                                     *)
  ShmRoot         (* those of the privileged user                           *)

ASSUME ShmAssumption == ShmProcs \subseteq Nat \ {0} /\ ShmRoot \subseteq ShmProcs

ShmNothing == 0
ShmZeros == 1
ShmPart == 2
ShmWhole == 3
ShmNo == 0        (* no process made it: there is no such memory            *)

VARIABLES
  shm_pc,         (* the step each process is at                            *)
  shm_name,       (* maker of the object that has the name, ShmNo for none  *)
  shm_memory,     (* what the memory each process made holds                *)
  shm_segments,   (* processes that made a segment                          *)
  shm_of,         (* the maker of the memory a process has                  *)
  shm_found,      (* what that memory held when the process opened it       *)
  shm_read,       (* what a reader printed; -1 it has not, -2 it was killed *)
  shm_failed      (* processes a call of which has failed                   *)

shmVars == <<shm_pc, shm_name, shm_memory, shm_segments, shm_of, shm_found, shm_read, shm_failed>>

ShmTypeOK ==
  /\ shm_pc \in [ShmProcs -> {"start", "size", "map", "write", "writing", "remove", "look",
                              "stat", "attach", "exit"}]
  /\ shm_name \in {ShmNo} \cup ShmProcs
  /\ shm_memory \in [ShmProcs -> ShmNothing .. ShmWhole]
  /\ shm_segments \subseteq ShmProcs /\ shm_failed \subseteq ShmProcs
  /\ shm_of \in [ShmProcs -> {ShmNo} \cup ShmProcs]
  /\ shm_found \in [ShmProcs -> ShmNothing .. ShmWhole] /\ shm_read \in [ShmProcs -> -2 .. ShmWhole]

ShmInit ==
  /\ shm_pc = [p \in ShmProcs |-> "start"] /\ shm_name = ShmNo
  /\ shm_memory = [p \in ShmProcs |-> ShmNothing] /\ shm_segments = {}
  /\ shm_of = [p \in ShmProcs |-> ShmNo] /\ shm_found = [p \in ShmProcs |-> ShmNothing]
  /\ shm_read = [p \in ShmProcs |-> -1] /\ shm_failed = {}

ShmGo(p, from, to) == shm_pc[p] = from /\ shm_pc' = [shm_pc EXCEPT ![p] = to]

\* A call fails: the program ends and leaves everything as it is.
ShmFail(p, from) ==
  /\ ShmGo(p, from, "exit") /\ shm_failed' = shm_failed \cup {p}
  /\ UNCHANGED <<shm_name, shm_memory, shm_segments, shm_of, shm_found, shm_read>>

ShmHold(p, maker) ==
  /\ shm_of' = [shm_of EXCEPT ![p] = maker]
  /\ shm_found' = [shm_found EXCEPT ![p] = shm_memory[maker]]

ShmFill(p, what) == shm_memory' = [shm_memory EXCEPT ![shm_of[p]] = what]

(***************************************************************************)
(* shmopen.c                                                               *)
(***************************************************************************)
\* Mutant: O_TRUNC in place of O_EXCL.
ShmCreateTruncates(p) ==
  /\ ShmGo(p, "start", "size")
  /\ IF shm_name = ShmNo THEN shm_name' = p /\ shm_of' = [shm_of EXCEPT ![p] = p] /\ UNCHANGED shm_memory
     ELSE /\ UNCHANGED shm_name /\ shm_of' = [shm_of EXCEPT ![p] = shm_name]
          /\ shm_memory' = [shm_memory EXCEPT ![shm_name] = ShmNothing]
  /\ UNCHANGED <<shm_segments, shm_found, shm_read, shm_failed>>

\* shm_open with O_CREAT and O_EXCL: the object is empty.
ShmCreate(p) ==
  \/ /\ shm_name = ShmNo /\ ShmGo(p, "start", "size")
     /\ shm_name' = p /\ ShmHold(p, p)
     /\ UNCHANGED <<shm_memory, shm_segments, shm_read, shm_failed>>
  \/ ShmFail(p, "start")

ShmTruncate(p) ==
  \/ /\ ShmGo(p, "size", "map") /\ ShmFill(p, ShmZeros)
     /\ UNCHANGED <<shm_name, shm_segments, shm_of, shm_found, shm_read, shm_failed>>
  \/ ShmFail(p, "size")

ShmMap(p) ==
  \/ /\ ShmGo(p, "map", "write")
     /\ UNCHANGED <<shm_name, shm_memory, shm_segments, shm_of, shm_found, shm_read, shm_failed>>
  \/ ShmFail(p, "map")

\* sprintf, of both programs: the message appears bit by bit.  shmopen leaves
\* the object and its name behind, shmget removes the segment.
ShmWrite(p) ==
  /\ \/ ShmGo(p, "write", "writing") /\ ShmFill(p, ShmPart)
     \/ /\ ShmGo(p, "writing", IF p \in shm_segments THEN "remove" ELSE "exit")
        /\ ShmFill(p, ShmWhole)
  /\ UNCHANGED <<shm_name, shm_segments, shm_of, shm_found, shm_read, shm_failed>>

(***************************************************************************)
(* shmopen2.c, and how a reader of either kind ends                        *)
(***************************************************************************)
ShmOpen(p) ==
  \/ /\ shm_name # ShmNo /\ ShmGo(p, "start", "look") /\ ShmHold(p, shm_name)
     /\ UNCHANGED <<shm_name, shm_memory, shm_segments, shm_read, shm_failed>>
  \/ ShmFail(p, "start")

\* mmap, then the message is printed: an object without a size maps, and the
\* reader is killed when it touches it.
ShmLook(p) ==
  \/ /\ ShmGo(p, "look", "exit")
     /\ shm_read' = [shm_read EXCEPT ![p] =
                       IF shm_memory[shm_of[p]] = ShmNothing THEN -2 ELSE shm_memory[shm_of[p]]]
     /\ UNCHANGED <<shm_name, shm_memory, shm_segments, shm_of, shm_found, shm_failed>>
  \/ ShmFail(p, "look")

\* shmunlink.c: the name goes, the object stays for those that have it.
ShmUnlink(p) ==
  \/ /\ shm_name # ShmNo /\ ShmGo(p, "start", "exit") /\ shm_name' = ShmNo
     /\ UNCHANGED <<shm_memory, shm_segments, shm_of, shm_found, shm_read, shm_failed>>
  \/ ShmFail(p, "start")

(***************************************************************************)
(* shmget.c, shmstat.c and shmread.c                                       *)
(***************************************************************************)

\* shmget: a failure is not looked at, print_shm of the id -1 ends the program.
ShmGet(p) ==
  \/ /\ ShmGo(p, "start", "stat") /\ shm_segments' = shm_segments \cup {p}
     /\ shm_memory' = [shm_memory EXCEPT ![p] = ShmZeros] /\ shm_of' = [shm_of EXCEPT ![p] = p]
     /\ UNCHANGED <<shm_name, shm_found, shm_read, shm_failed>>
  \/ ShmFail(p, "start")

\* print_shm and shmat of shmget: the segment was created without any permission.
ShmAttach(p) ==
  \/ /\ p \in ShmRoot
     /\ ShmGo(p, "stat", "attach") \/ ShmGo(p, "attach", "write")
     /\ UNCHANGED <<shm_name, shm_memory, shm_segments, shm_of, shm_found, shm_read, shm_failed>>
  \/ ShmFail(p, "stat") \/ ShmFail(p, "attach")

\* shmdt and IPC_RMID.
ShmRemove(p) ==
  /\ ShmGo(p, "remove", "exit")
  /\ UNCHANGED <<shm_name, shm_memory, shm_segments, shm_of, shm_found, shm_read, shm_failed>>

\* A segment is there until its maker has removed it and no reader has it; until then
\* Linux lets others attach it.  A maker that fails leaves it for good.
ShmThere(maker) ==
  /\ maker \in shm_segments
  /\ \/ shm_pc[maker] # "exit" \/ maker \in shm_failed
     \/ \E q \in ShmProcs : shm_pc[q] = "look" /\ shm_of[q] = maker

\* shmread.c: shmat fails for an id that is gone, and for another user; the -1
\* it returns then is read all the same.
ShmAttachToRead(p, maker) ==
  \/ /\ ShmThere(maker) /\ p \in ShmRoot /\ ShmGo(p, "start", "look") /\ ShmHold(p, maker)
     /\ UNCHANGED <<shm_name, shm_memory, shm_segments, shm_read, shm_failed>>
  \/ /\ ShmGo(p, "start", "exit") /\ shm_read' = [shm_read EXCEPT ![p] = -2]
     /\ shm_failed' = shm_failed \cup {p}
     /\ UNCHANGED <<shm_name, shm_memory, shm_segments, shm_of, shm_found>>

ShmNext == \E p \in ShmProcs :
  \/ ShmCreate(p) \/ ShmTruncate(p) \/ ShmMap(p) \/ ShmWrite(p)
  \/ ShmOpen(p) \/ ShmLook(p) \/ ShmUnlink(p)
  \/ ShmGet(p) \/ ShmAttach(p) \/ ShmRemove(p)
  \/ \E maker \in ShmProcs : ShmAttachToRead(p, maker)

ShmSpec == ShmInit /\ [][ShmNext]_shmVars

(***************************************************************************)
(* Properties                                                              *)
(***************************************************************************)
\* A reader never sees less than there was when it opened the memory: neither a
\* second writer nor an unlink takes it away, so that one started after the
\* writer ended prints the whole message, and only one that opened the object
\* before ftruncate can be killed by it.
NeverSeesLess ==
  \A p \in ShmProcs \ shm_failed :
    (shm_pc[p] = "exit" /\ shm_read[p] # -1 /\ shm_found[p] > ShmNothing) =>
       shm_read[p] >= shm_found[p]

=============================================================================

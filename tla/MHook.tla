------------------------------- MODULE MHook -------------------------------
(***************************************************************************)
(* mtrace/mhook.c: malloc() and free() of a program with threads, recorded *)
(* in Mdb.  Nobody waits for the lock: a call that finds it taken, by      *)
(* another thread or by itself further up the stack, is not recorded.      *)
(***************************************************************************)
EXTENDS Mdb

CONSTANTS
  Threads,
  MaxCalls   (* calls of malloc()                                          *)

ASSUME MHookAssumption == MaxCalls \in Nat /\ None \notin Threads

VARIABLES
  tpc,       (* where in malloc() or free() each thread is                 *)
  arg,       (* the block it frees                                         *)
  lock,      (* who has it                                                 *)
  internal,
  term,
  live,      (* blocks malloc() has given out                              *)
  missed,    (* blocks that were freed without being taken off the record  *)
  calls

hook == <<lock, internal, term>>
heap == <<live, missed, calls>>
vars == <<mdb, tpc, arg, hook, heap>>

Places == {"idle", "m_lock", "record", "reset", "plain",
           "f_lock", "del", "unlock", "release", "abort"}

TypeOK ==
  /\ MdbTypeOK
  /\ tpc \in [Threads -> Places]
  /\ arg \in [Threads -> Ptrs \cup {None}]
  /\ lock \in Threads \cup {None} /\ internal \in BOOLEAN /\ term \in BOOLEAN
  /\ live \subseteq Ptrs /\ missed \subseteq Ptrs /\ calls \in 0..MaxCalls

Init ==
  /\ MdbInit
  /\ tpc = [t \in Threads |-> "idle"] /\ arg = [t \in Threads |-> None]
  /\ lock = None /\ internal = FALSE /\ term = FALSE
  /\ live = {} /\ missed = {} /\ calls = 0

(* abort() ends every thread. *)
Running == ~failed /\ \A t \in Threads : tpc[t] # "abort"

Step(t, from, to) == Running /\ tpc[t] = from /\ tpc' = [tpc EXCEPT ![t] = to]

(* __libc_malloc(): a block nobody has, or NULL when there is none. *)
LibcMalloc(ptr) ==
  \/ ptr \in Ptrs \ live /\ live' = live \cup {ptr}
  \/ ptr = None /\ live = Ptrs /\ UNCHANGED live

-----------------------------------------------------------------------------
Malloc(t) ==
  /\ calls < MaxCalls /\ calls' = calls + 1
  /\ Step(t, "idle", IF term THEN "plain" ELSE "m_lock")
  /\ UNCHANGED <<mdb, arg, hook, live, missed>>

(* pthread_mutex_trylock() in malloc(); internal under the lock is abort().*)
MallocLock(t) ==
  /\ \/ Step(t, "m_lock", "plain") /\ lock # None /\ UNCHANGED <<lock, internal>>
     \/ /\ Step(t, "m_lock", IF internal THEN "abort" ELSE "record")
        /\ lock = None /\ lock' = t
        /\ internal' = TRUE
  /\ UNCHANGED <<mdb, arg, term, heap>>

(* __libc_malloc() and mdb_add(); a NULL is not recorded. *)
Record(t) ==
  /\ Step(t, "record", "reset")
  /\ \E ptr \in Ptrs \cup {None} :
       /\ LibcMalloc(ptr)
       /\ \/ ptr = None /\ UNCHANGED mdb
          \/ ptr # None /\ \E bt \in Traces : mdb_add(ptr, bt)
  /\ UNCHANGED <<arg, hook, missed, calls>>

(* Mutant: internal is left set. *)
ResetNot(t) ==
  /\ Step(t, "reset", "unlock")
  /\ UNCHANGED <<mdb, arg, hook, heap>>

Reset(t) ==
  /\ Step(t, "reset", "unlock")
  /\ internal' = FALSE
  /\ UNCHANGED <<mdb, arg, lock, term, heap>>

Plain(t) ==
  /\ Step(t, "plain", "idle")
  /\ \E ptr \in Ptrs \cup {None} : LibcMalloc(ptr)
  /\ UNCHANGED <<mdb, arg, hook, missed, calls>>

(* Mutant: __libc_free() comes first. *)
FreeFirst(t) ==
  /\ Step(t, "idle", IF term THEN "release" ELSE "f_lock")
  /\ \E ptr \in live \ Range(arg) :
       /\ arg' = [arg EXCEPT ![t] = ptr]
       /\ live' = live \ {ptr}
  /\ UNCHANGED <<mdb, hook, missed, calls>>

(* A program frees each block once. *)
Free(t) ==
  /\ Step(t, "idle", IF term THEN "release" ELSE "f_lock")
  /\ \E ptr \in live \ Range(arg) :
       /\ arg' = [arg EXCEPT ![t] = ptr]
       /\ missed' = IF term THEN missed \cup {ptr} ELSE missed
  /\ UNCHANGED <<mdb, hook, live, calls>>

(* pthread_mutex_trylock() in free(). *)
FreeLock(t) ==
  /\ \/ Step(t, "f_lock", "release") /\ lock # None /\ UNCHANGED lock
        /\ missed' = missed \cup {arg[t]}
     \/ /\ Step(t, "f_lock", IF internal THEN "abort" ELSE "del")
        /\ lock = None /\ lock' = t
        /\ UNCHANGED missed
  /\ UNCHANGED <<mdb, arg, internal, term, live, calls>>

Del(t) ==
  /\ Step(t, "del", "unlock")
  /\ mdb_del(arg[t])
  /\ UNCHANGED <<arg, hook, heap>>

Unlock(t) ==
  /\ Step(t, "unlock", IF arg[t] = None THEN "idle" ELSE "release")
  /\ lock' = None
  /\ UNCHANGED <<mdb, arg, internal, term, heap>>

(* __libc_free() *)
Release(t) ==
  /\ Step(t, "release", "idle")
  /\ live' = live \ {arg[t]}
  /\ arg' = [arg EXCEPT ![t] = None]
  /\ UNCHANGED <<mdb, hook, missed, calls>>

(* The destructor; other threads may be anywhere. *)
Exit ==
  /\ Running /\ ~term /\ term' = TRUE
  /\ UNCHANGED <<mdb, tpc, arg, lock, internal, heap>>

Thread(t) ==
  \/ Malloc(t) \/ MallocLock(t) \/ Record(t) \/ Reset(t) \/ Plain(t)
  \/ Free(t) \/ FreeLock(t) \/ Del(t) \/ Unlock(t) \/ Release(t)

(* The process was aborted, or has nothing left to do. *)
Ended ==
  /\ ~Running \/ (calls = MaxCalls /\ live = {} /\ term)
  /\ UNCHANGED vars

Next ==
  \/ \E t \in Threads : Thread(t)
  \/ Exit
  \/ Ended

Spec == Init /\ [][Next]_vars

-----------------------------------------------------------------------------
(* Whoever gets the lock finds internal cleared: the abort() calls at      *)
(* mhook.c:81 and 104 are dead, since recursion is stopped by the trylock. *)
NoAbort == \A t \in Threads : tpc[t] # "abort"

(* Unless a free of that very address went by unrecorded, an address is    *)
(* recorded once at most and only while its block is allocated, whichever  *)
(* threads reuse it: it leaves the record before it returns to the heap.   *)
NoStaleEntry ==
  \A ptr \in Ptrs \ missed :
    LET entries == {k \in DOMAIN pairdb : pairdb[k].ptr = ptr}
    IN  Cardinality(entries) <= 1 /\ (entries # {} => ptr \in live)
=============================================================================

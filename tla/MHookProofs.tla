---------------------------- MODULE MHookProofs ----------------------------
(***************************************************************************)
(* MHook and its database, for any number of threads, calls, blocks and    *)
(* backtraces.                                                             *)
(***************************************************************************)
EXTENDS MHook, SequenceLemmas

(* Who is between the trylock and the unlock has the lock, and internal is *)
(* set only while somebody is in the part of malloc() that sets it.        *)
LockInv ==
  /\ tpc \in [Threads -> Places]
  /\ \A t \in Threads : tpc[t] \in {"record", "reset", "del", "unlock"} => lock = t
  /\ internal => \E t \in Threads : tpc[t] \in {"record", "reset"}
  /\ NoAbort

(* Every step of a thread keeps the order of lock and flag. *)
LEMMA LockKept ==
  ASSUME LockInv, [Next]_vars
  PROVE  LockInv'
<1> USE DEF LockInv, Places, NoAbort, Step
<1>1. ASSUME NEW t \in Threads, Malloc(t) PROVE LockInv'
  BY <1>1 DEF Malloc, hook
<1>2. ASSUME NEW t \in Threads, MallocLock(t) PROVE LockInv'
  <2>1. lock = None => ~internal
    BY MHookAssumption
  <2> QED
    BY <1>2, <2>1, MHookAssumption DEF MallocLock
<1>3. ASSUME NEW t \in Threads, Record(t) PROVE LockInv'
  BY <1>3 DEF Record, hook
<1>4. ASSUME NEW t \in Threads, Reset(t) PROVE LockInv'
  BY <1>4 DEF Reset
<1>5. ASSUME NEW t \in Threads, Plain(t) PROVE LockInv'
  BY <1>5 DEF Plain, hook
<1>6. ASSUME NEW t \in Threads, Free(t) PROVE LockInv'
  BY <1>6 DEF Free, hook
<1>7. ASSUME NEW t \in Threads, FreeLock(t) PROVE LockInv'
  <2>1. lock = None => ~internal
    BY MHookAssumption
  <2> QED
    BY <1>7, <2>1, MHookAssumption DEF FreeLock
<1>8. ASSUME NEW t \in Threads, Del(t) PROVE LockInv'
  BY <1>8 DEF Del, hook
<1>9. ASSUME NEW t \in Threads, Unlock(t) PROVE LockInv'
  BY <1>9 DEF Unlock
<1>10. ASSUME NEW t \in Threads, Release(t) PROVE LockInv'
  BY <1>10 DEF Release, hook
<1>11. CASE Exit
  BY <1>11 DEF Exit
<1>12. CASE UNCHANGED vars
  BY <1>12 DEF vars, hook
<1> QED
  BY <1>1, <1>2, <1>3, <1>4, <1>5, <1>6, <1>7, <1>8, <1>9, <1>10, <1>11, <1>12
     DEF Next, Thread, Ended

(* LockInv holds from the start, and no step breaks it. *)
LEMMA LockAlways == Spec => []LockInv
<1>1. Init => LockInv
  BY DEF Init, LockInv, Places, NoAbort
<1> QED
  BY <1>1, LockKept, PTL DEF Spec

(* The abort() calls of mhook.c:81 and 104 are dead code: whoever gets the *)
(* lock finds internal cleared, with any number of threads.                *)
THEOREM AbortsAreDead == Spec => []NoAbort
<1>1. LockInv => NoAbort
  BY DEF LockInv
<1> QED
  BY <1>1, LockAlways, PTL

-----------------------------------------------------------------------------
(* A thread in the middle of free() has a block of its own to free, and    *)
(* that block stays allocated until its release.                           *)
FreeInv ==
  /\ arg \in [Threads -> Ptrs \cup {None}] /\ live \subseteq Ptrs
  /\ \A t \in Threads : tpc[t] \in {"f_lock", "del", "release"} => arg[t] # None
  /\ \A t \in Threads : tpc[t] \in {"idle", "m_lock", "record", "reset", "plain"} => arg[t] = None
  /\ \A t \in Threads : arg[t] # None => arg[t] \in live
  /\ \A t, u \in Threads : arg[t] = arg[u] /\ arg[t] # None => t = u

(* The record is a list in which, unless a free of it was missed, an       *)
(* address occurs once, is allocated, and is gone when mdb_del() is done.  *)
IsList(s) == \E S : s \in Seq(S)

RecordInv ==
  /\ IsList(pairdb)
  /\ \A j, k \in 1..Len(pairdb) :
       pairdb[j].ptr = pairdb[k].ptr /\ pairdb[j].ptr \notin missed => j = k
  /\ \A k \in 1..Len(pairdb) : pairdb[k].ptr \notin missed => pairdb[k].ptr \in live
  /\ \A t \in Threads : tpc[t] \in {"unlock", "release"} /\ arg[t] # None /\ arg[t] \notin missed
       => \A k \in 1..Len(pairdb) : pairdb[k].ptr # arg[t]

(* Every step keeps the blocks of the threads in free() allocated, and    *)
(* apart.                                                                  *)
LEMMA FreeKept ==
  ASSUME LockInv, FreeInv, [Next]_vars
  PROVE  FreeInv'
<1> USE MdbAssumption DEF LockInv, FreeInv, Places, Step, LibcMalloc
<1>1. ASSUME NEW t \in Threads, Malloc(t) PROVE FreeInv'
  BY <1>1 DEF Malloc
<1>2. ASSUME NEW t \in Threads, MallocLock(t) PROVE FreeInv'
  BY <1>2 DEF MallocLock, heap
<1>3. ASSUME NEW t \in Threads, Record(t) PROVE FreeInv'
  BY <1>3 DEF Record
<1>4. ASSUME NEW t \in Threads, Reset(t) PROVE FreeInv'
  BY <1>4 DEF Reset, heap
<1>5. ASSUME NEW t \in Threads, Plain(t) PROVE FreeInv'
  BY <1>5 DEF Plain
<1>6. ASSUME NEW t \in Threads, Free(t) PROVE FreeInv'
  <2>1. PICK ptr \in live \ Range(arg) : arg' = [arg EXCEPT ![t] = ptr]
    BY <1>6 DEF Free
  <2>2. ptr \in Ptrs /\ \A u \in Threads : arg[u] # ptr
    BY <2>1 DEF Range
  <2> QED
    BY <1>6, <2>1, <2>2 DEF Free
<1>7. ASSUME NEW t \in Threads, FreeLock(t) PROVE FreeInv'
  BY <1>7 DEF FreeLock
<1>8. ASSUME NEW t \in Threads, Del(t) PROVE FreeInv'
  BY <1>8 DEF Del, heap
<1>9. ASSUME NEW t \in Threads, Unlock(t) PROVE FreeInv'
  BY <1>9 DEF Unlock, heap
<1>10. ASSUME NEW t \in Threads, Release(t) PROVE FreeInv'
  BY <1>10 DEF Release
<1>11. CASE Exit
  BY <1>11 DEF Exit, heap
<1>12. CASE UNCHANGED vars
  BY <1>12 DEF vars, heap
<1> QED
  BY <1>1, <1>2, <1>3, <1>4, <1>5, <1>6, <1>7, <1>8, <1>9, <1>10, <1>11, <1>12
     DEF Next, Thread, Ended

(* A new pair is put behind the others. *)
LEMMA AppendedIsList ==
  ASSUME NEW s, IsList(s), NEW e
  PROVE  /\ IsList(Append(s, e)) /\ Len(s) \in Nat /\ Len(Append(s, e)) = Len(s) + 1
         /\ \A k \in 1..Len(s) : Append(s, e)[k] = s[k]
         /\ Append(s, e)[Len(s) + 1] = e
<1>1. PICK S : s \in Seq(S)
  BY DEF IsList
<1>2. s \in Seq(S \cup {e})
  BY <1>1
<1>3. Append(s, e) \in Seq(S \cup {e})
  BY <1>2
<1> QED
  BY <1>2, <1>3 DEF IsList

(* The list without one of its entries. *)
LEMMA RemovedIsList ==
  ASSUME NEW s, IsList(s), NEW k \in 1..Len(s)
  PROVE  /\ IsList(RemoveAt(s, k)) /\ Len(s) \in Nat /\ Len(RemoveAt(s, k)) = Len(s) - 1
         /\ \A j \in 1..(Len(s) - 1) : RemoveAt(s, k)[j] = IF j < k THEN s[j] ELSE s[j + 1]
<1>1. PICK S : s \in Seq(S)
  BY DEF IsList
<1> QED
  BY <1>1, RemoveAtKeepsOthers DEF IsList

(* mdb_del() takes the oldest pair of the address off, if there is one. *)
LEMMA DelTakesOne ==
  ASSUME NEW ptr, IsList(pairdb), mdb_del(ptr)
  PROVE  \/ pairdb' = pairdb /\ \A k \in 1..Len(pairdb) : pairdb[k].ptr # ptr
         \/ \E k \in 1..Len(pairdb) : pairdb[k].ptr = ptr /\ pairdb' = RemoveAt(pairdb, k)
<1> DEFINE I == {k \in 1..Len(pairdb) : pairdb[k].ptr = ptr}
           sel == SelectInSeq(pairdb, LAMBDA pair : pair.ptr = ptr)
<1>1. Len(pairdb) \in Nat
  BY DEF IsList
<1>2. sel = IF I # {} THEN Min(I) ELSE 0
  BY DEF SelectInSeq
<1>3. I # {} => Min(I) \in I
  BY <1>1, MinIsLeast, SMTT(30)
<1>4. \/ sel = 0 /\ pairdb' = pairdb
      \/ sel # 0 /\ pairdb' = RemoveAt(pairdb, sel)
  BY DEF mdb_del
<1> HIDE DEF sel
<1> QED
  BY <1>1, <1>2, <1>3, <1>4

(* Every step keeps the record: a pair is added for a block that was not  *)
(* allocated before, and is gone before its block is released.             *)
LEMMA RecordKept ==
  ASSUME LockInv, FreeInv, RecordInv, [Next]_vars
  PROVE  RecordInv'
<1> USE MdbAssumption DEF LockInv, FreeInv, RecordInv, Places, Step
<1>1. ASSUME NEW t \in Threads, Malloc(t) PROVE RecordInv'
  BY <1>1 DEF Malloc, mdb
<1>2. ASSUME NEW t \in Threads, MallocLock(t) PROVE RecordInv'
  BY <1>2 DEF MallocLock, mdb, heap
<1>3. ASSUME NEW t \in Threads, Record(t) PROVE RecordInv'
  <2>1. PICK ptr \in Ptrs \cup {None} :
          /\ LibcMalloc(ptr)
          /\ \/ ptr = None /\ UNCHANGED mdb
             \/ ptr # None /\ \E bt \in Traces : mdb_add(ptr, bt)
    BY <1>3 DEF Record
  <2>2. CASE ptr = None
    BY <1>3, <2>1, <2>2 DEF Record, LibcMalloc, mdb
  <2>3. CASE ptr # None
    <3>1. PICK e : pairdb' = Append(pairdb, e) /\ e.ptr = ptr
      <4>1. PICK bt \in Traces : mdb_add(ptr, bt)
        BY <2>1, <2>3
      <4>2. \E cell : pairdb' = Append(pairdb, [ptr |-> ptr, frame |-> cell, by |-> bt])
        BY <4>1 DEF mdb_add
      <4> QED
        BY <4>2
    <3>2. ptr \in Ptrs \ live /\ live' = live \cup {ptr}
      BY <2>1, <2>3 DEF LibcMalloc
    <3>3. /\ IsList(pairdb') /\ Len(pairdb) \in Nat /\ Len(pairdb') = Len(pairdb) + 1
          /\ \A k \in 1..Len(pairdb) : pairdb'[k] = pairdb[k]
          /\ pairdb'[Len(pairdb) + 1].ptr = ptr
      BY <3>1, AppendedIsList
    <3>4. missed' = missed /\ arg' = arg /\ tpc' = [tpc EXCEPT ![t] = "reset"] /\ tpc[t] = "record"
      BY <1>3 DEF Record
    <3>5. ptr \notin missed => \A k \in 1..Len(pairdb) : pairdb[k].ptr # ptr
      BY <3>2
    <3>6. \A u \in Threads : arg[u] # ptr
      BY <2>3, <3>2
    <3> QED
      BY <3>2, <3>3, <3>4, <3>5, <3>6, SMTT(30)
  <2> QED
    BY <2>2, <2>3
<1>4. ASSUME NEW t \in Threads, Reset(t) PROVE RecordInv'
  BY <1>4 DEF Reset, mdb, heap
<1>5. ASSUME NEW t \in Threads, Plain(t) PROVE RecordInv'
  BY <1>5 DEF Plain, LibcMalloc, mdb
<1>6. ASSUME NEW t \in Threads, Free(t) PROVE RecordInv'
  BY <1>6 DEF Free, mdb
<1>7. ASSUME NEW t \in Threads, FreeLock(t) PROVE RecordInv'
  BY <1>7 DEF FreeLock, mdb
<1>8. ASSUME NEW t \in Threads, Del(t) PROVE RecordInv'
  <2>1. /\ tpc[t] = "del" /\ tpc' = [tpc EXCEPT ![t] = "unlock"] /\ arg' = arg
        /\ live' = live /\ missed' = missed
    BY <1>8 DEF Del, heap
  <2>2. CASE pairdb' = pairdb /\ \A k \in 1..Len(pairdb) : pairdb[k].ptr # arg[t]
    BY <2>1, <2>2
  <2>3. ASSUME NEW k \in 1..Len(pairdb), pairdb[k].ptr = arg[t], pairdb' = RemoveAt(pairdb, k)
        PROVE  RecordInv'
    <3> DEFINE old(j) == IF j < k THEN j ELSE j + 1
    <3>1. IsList(pairdb) /\ pairdb' = RemoveAt(pairdb, k)
      BY <2>3
    <3>2. /\ IsList(pairdb') /\ Len(pairdb) \in Nat /\ Len(pairdb') = Len(pairdb) - 1
          /\ \A j \in 1..(Len(pairdb) - 1) : pairdb'[j] = IF j < k THEN pairdb[j] ELSE pairdb[j + 1]
      BY ONLY <3>1, RemovedIsList, k \in 1..Len(pairdb)
    <3>3. \A j \in 1..Len(pairdb') :
            old(j) \in 1..Len(pairdb) /\ old(j) # k /\ pairdb'[j] = pairdb[old(j)]
      BY <3>2
    <3>4. \A i, j \in 1..Len(pairdb') : old(i) = old(j) => i = j
      BY <3>2
    <3> HIDE DEF old
    <3>5. IsList(pairdb')
      BY <3>2
    <3>6. \A i, j \in 1..Len(pairdb') :
            pairdb'[i].ptr = pairdb'[j].ptr /\ pairdb'[i].ptr \notin missed => i = j
      BY <3>3, <3>4
    <3>7. \A j \in 1..Len(pairdb') : pairdb'[j].ptr \notin missed => pairdb'[j].ptr \in live
      BY <3>3
    <3>8. arg[t] \notin missed => \A j \in 1..Len(pairdb') : pairdb'[j].ptr # arg[t]
      BY <2>3, <3>3
    <3>9. ASSUME NEW u \in Threads, tpc[u] \in {"unlock", "release"}, arg[u] # None,
                 arg[u] \notin missed, NEW j \in 1..Len(pairdb')
          PROVE  pairdb'[j].ptr # arg[u]
      BY <3>3, <3>9
    <3> QED
      BY <2>1, <3>5, <3>6, <3>7, <3>8, <3>9
  <2> QED
    BY <1>8, <2>2, <2>3, DelTakesOne DEF Del
<1>9. ASSUME NEW t \in Threads, Unlock(t) PROVE RecordInv'
  BY <1>9 DEF Unlock, mdb, heap
<1>10. ASSUME NEW t \in Threads, Release(t) PROVE RecordInv'
  BY <1>10 DEF Release, mdb
<1>11. CASE Exit
  BY <1>11 DEF Exit, mdb, heap
<1>12. CASE UNCHANGED vars
  BY <1>12 DEF vars, mdb, heap
<1> QED
  BY <1>1, <1>2, <1>3, <1>4, <1>5, <1>6, <1>7, <1>8, <1>9, <1>10, <1>11, <1>12
     DEF Next, Thread, Ended

(* Both hold from the start. *)
LEMMA RecordAlways == Spec => [](FreeInv /\ RecordInv)
<1>1. Init => FreeInv /\ RecordInv
  <2>1. Init => IsList(pairdb)
    <3>1. <<>> \in Seq({})
      OBVIOUS
    <3> QED
      BY <3>1 DEF Init, MdbInit, IsList
  <2> QED
    BY <2>1 DEF Init, MdbInit, FreeInv, RecordInv
<1> QED
  BY <1>1, LockAlways, FreeKept, RecordKept, PTL DEF Spec

(* The record never names an address twice, or one that is back in the     *)
(* heap, unless a free of that address went by unrecorded, with any number *)
(* of threads: free() takes a block off the record before anybody can be   *)
(* given its address.                                                      *)
THEOREM RecordIsCurrent == Spec => []NoStaleEntry
<1>1. ASSUME RecordInv PROVE NoStaleEntry
  <2> SUFFICES ASSUME NEW ptr \in Ptrs \ missed
               PROVE  LET entries == {k \in DOMAIN pairdb : pairdb[k].ptr = ptr}
                      IN  Cardinality(entries) <= 1 /\ (entries # {} => ptr \in live)
    BY DEF NoStaleEntry
  <2> DEFINE entries == {k \in DOMAIN pairdb : pairdb[k].ptr = ptr}
  <2>1. DOMAIN pairdb = 1..Len(pairdb)
    BY <1>1 DEF RecordInv, IsList
  <2>2. \A j, k \in entries : j = k
    BY <1>1, <2>1 DEF RecordInv
  <2>3. entries = {} \/ \E k : entries = {k}
    BY <2>2
  <2>4. Cardinality(entries) <= 1
    <3>1. CASE entries = {}
      <4>1. Cardinality(entries) = 0
        BY <3>1, FS_EmptySet
      <4> QED
        BY <4>1
    <3>2. ASSUME NEW k, entries = {k} PROVE Cardinality(entries) <= 1
      <4>1. Cardinality(entries) = 1
        BY <3>2, FS_Singleton
      <4> QED
        BY <4>1
    <3> QED
      BY <2>3, <3>1, <3>2
  <2>5. entries # {} => ptr \in live
    BY <1>1, <2>1 DEF RecordInv
  <2> QED
    BY <2>4, <2>5
<1> QED
  BY <1>1, RecordAlways, PTL

-----------------------------------------------------------------------------
(* Mdb: the constants.                                                     *)
LEMMA MdbConstants ==
  /\ MaxArrays \in Nat /\ MaxCallers \in Nat /\ MaxCallers > 0
  /\ Root \in Cells /\ Addrs \subseteq Nat \ {0}
  /\ \A bt \in Traces : bt \in Seq(Nat \ {0}) /\ Len(bt) \in Nat /\ \A i \in 1 .. Len(bt) : bt[i] \in Addrs
<1>1. /\ MaxArrays \in Nat /\ MaxCallers \in Nat /\ MaxCallers > 0 /\ Root \in Cells
  BY MdbAssumption DEF Cells, Root
<1>2. ASSUME NEW bt \in Traces
      PROVE  bt \in Seq(Nat \ {0}) /\ Len(bt) \in Nat /\ DOMAIN bt = 1 .. Len(bt)
  BY MdbAssumption
<1>3. ASSUME NEW bt \in Traces, NEW i \in 1 .. Len(bt)
      PROVE  bt[i] \in Addrs
  <2>1. bt[i] \in Range(bt)
    BY <1>2 DEF Range
  <2> QED
    BY <2>1 DEF Addrs
<1>4. Addrs \subseteq Nat \ {0}
  <2> SUFFICES ASSUME NEW bt \in Traces, NEW i \in DOMAIN bt
               PROVE  bt[i] \in Nat \ {0}
    BY DEF Addrs, Range
  <2> QED
    BY <1>2
<1> QED
  BY <1>1, <1>2, <1>3, <1>4

(* The spans the binary search goes through, and what it does with one.    *)
Spans(n) == {p \in (0 .. n) \X (0 .. n) : p[1] <= p[2]}
Middle(p) == p[1] + (p[2] - p[1]) \div 2

(* Both halves of a span are shorter.                                      *)
LEMMA SpanHalves ==
  ASSUME NEW n \in Nat, NEW p \in Spans(n), p[1] # p[2]
  PROVE  /\ Middle(p) \in p[1] .. p[2] - 1 /\ Middle(p) \in 0 .. n - 1
         /\ <<Middle(p) + 1, p[2]>> \in Spans(n) /\ <<p[1], Middle(p)>> \in Spans(n)
         /\ p[2] - (Middle(p) + 1) < p[2] - p[1] /\ Middle(p) - p[1] < p[2] - p[1]
<1>1. p[1] \in 0 .. n /\ p[2] \in 0 .. n /\ p[1] <= p[2]
  BY DEF Spans
<1>2. (p[2] - p[1]) \div 2 \in Nat /\ (p[2] - p[1]) \div 2 < p[2] - p[1]
  BY <1>1
<1>3. Middle(p) \in p[1] .. p[2] - 1
  BY <1>1, <1>2 DEF Middle
<1> QED
  BY <1>1, <1>3 DEF Spans

(* What the search makes of a span, if f is what it makes of shorter ones. *)
Halves(f, m, frame, addr, p) ==
  IF p[1] = p[2] THEN [at |-> p[1], match |-> FALSE]
  ELSE IF m[<<m[frame].callers, Middle(p)>>].faddr = addr THEN [at |-> Middle(p), match |-> TRUE]
  ELSE IF m[<<m[frame].callers, Middle(p)>>].faddr < addr THEN f[<<Middle(p) + 1, p[2]>>]
  ELSE f[<<p[1], Middle(p)>>]

SearchesTo(f, m, frame, addr, n, w) ==
  f = [p \in {q \in Spans(n) : q[2] - q[1] < w} |-> Halves(f, m, frame, addr, p)]

SearchesAll(f, m, frame, addr, n) == f = [p \in Spans(n) |-> Halves(f, m, frame, addr, p)]

(* There is such a search: for spans of any width, width by width.         *)
LEMMA SearchExists ==
  ASSUME NEW m, NEW frame, NEW addr, NEW n \in Nat
  PROVE  \E f : SearchesAll(f, m, frame, addr, n)
<1> DEFINE T == {w \in 1 .. n + 1 : \E f : SearchesTo(f, m, frame, addr, n, w)}
<1>1. 1 \in T
  <2> DEFINE f == [p \in {q \in Spans(n) : q[2] - q[1] < 1} |-> [at |-> p[1], match |-> FALSE]]
  <2>1. \A p \in {q \in Spans(n) : q[2] - q[1] < 1} : p[1] = p[2]
    BY DEF Spans
  <2>2. SearchesTo(f, m, frame, addr, n, 1)
    BY <2>1, Zenon DEF SearchesTo, Halves
  <2>3. 1 \in 1 .. n + 1
    OBVIOUS
  <2> QED
    BY <2>2, <2>3
<1>2. ASSUME NEW w \in T, w < n + 1
      PROVE  w + 1 \in T
  <2>1. PICK f : SearchesTo(f, m, frame, addr, n, w)
    OBVIOUS
  <2> DEFINE A == {q \in Spans(n) : q[2] - q[1] < w}
             B == {q \in Spans(n) : q[2] - q[1] < w + 1}
             g == [p \in B |-> Halves(f, m, frame, addr, p)]
  <2>2. w \in Nat /\ w > 0 /\ w + 1 \in 1 .. n + 1
    BY <1>2
  <2>3. A \subseteq B
    BY <2>2 DEF Spans
  <2>4. \A p \in A : g[p] = f[p]
    BY <2>1, <2>3, Zenon DEF SearchesTo
  <2>5. ASSUME NEW p \in B
        PROVE  Halves(f, m, frame, addr, p) = Halves(g, m, frame, addr, p)
    <3>1. CASE p[1] = p[2]
      BY <3>1, Zenon DEF Halves
    <3>2. CASE p[1] # p[2]
      <4>1. p \in Spans(n) /\ p[2] - p[1] < w + 1 /\ p[1] \in Int /\ p[2] \in Int
        BY DEF Spans
      <4>2. <<Middle(p) + 1, p[2]>> \in A /\ <<p[1], Middle(p)>> \in A
        <5>1. /\ <<Middle(p) + 1, p[2]>> \in Spans(n) /\ <<p[1], Middle(p)>> \in Spans(n)
              /\ p[2] - (Middle(p) + 1) < p[2] - p[1] /\ Middle(p) - p[1] < p[2] - p[1]
              /\ Middle(p) \in 0 .. n - 1
          BY <3>2, <4>1, SpanHalves
        <5>2. p[2] - (Middle(p) + 1) < w /\ Middle(p) - p[1] < w
          BY <2>2, <4>1, <5>1
        <5> QED
          BY <5>1, <5>2
      <4>3. g[<<Middle(p) + 1, p[2]>>] = f[<<Middle(p) + 1, p[2]>>] /\ g[<<p[1], Middle(p)>>] = f[<<p[1], Middle(p)>>]
        BY <2>4, <4>2, Zenon
      <4> HIDE DEF g
      <4> QED
        BY <4>3, Zenon DEF Halves
    <3> QED
      BY <3>1, <3>2
  <2>6. g = [p \in B |-> Halves(g, m, frame, addr, p)]
    <3> DEFINE h == [p \in B |-> Halves(g, m, frame, addr, p)]
    <3>1. \A p \in B : g[p] = h[p]
      BY <2>5, Zenon
    <3>2. DOMAIN g = B /\ DOMAIN h = B /\ g = [p \in B |-> g[p]] /\ h = [p \in B |-> h[p]]
      BY Zenon
    <3> HIDE DEF g, h, B
    <3>3. g = h
      BY <3>1, <3>2
    <3> QED
      BY <3>3, Zenon DEF h
  <2> HIDE DEF g
  <2>7. SearchesTo(g, m, frame, addr, n, w + 1)
    BY <2>6, Zenon DEF SearchesTo
  <2> QED
    BY <2>2, <2>7
<1>3. n + 1 \in T
  <2>1. T \in SUBSET Nat /\ n + 1 \in Nat /\ n + 1 \in 1 .. n + 1
    BY DEF Spans
  <2> HIDE DEF T
  <2>2. 1 .. n + 1 \subseteq T
    BY <1>1, <1>2, <2>1, CountingUp, Zenon
  <2> QED
    BY <2>1, <2>2
<1>4. PICK f : SearchesTo(f, m, frame, addr, n, n + 1)
  BY <1>3
<1>5. {q \in Spans(n) : q[2] - q[1] < n + 1} = Spans(n)
  BY DEF Spans
<1> QED
  BY <1>4, <1>5, Zenon DEF SearchesTo, SearchesAll

(* The search, span by span.                                               *)
Search(m, frame, addr) ==
  CHOOSE f : f = [p \in Spans(m[frame].callers_filled) |-> Halves(f, m, frame, addr, p)]

(* Position is what it makes of the whole array.                           *)
LEMMA PositionSearches ==
  ASSUME NEW m, NEW frame, NEW addr, m[frame].callers_filled \in Nat
  PROVE  /\ Position(m, frame, addr) = Search(m, frame, addr)[<<0, m[frame].callers_filled>>]
         /\ \A p \in Spans(m[frame].callers_filled) :
              Search(m, frame, addr)[p] = Halves(Search(m, frame, addr), m, frame, addr, p)
<1>1. Position(m, frame, addr) = Search(m, frame, addr)[<<0, m[frame].callers_filled>>]
  BY DEF Position, Search, Halves, Middle, Spans
<1> DEFINE n == m[frame].callers_filled
           Body(f) == [p \in Spans(n) |-> Halves(f, m, frame, addr, p)]
           g == Search(m, frame, addr)
<1>2. \E f : f = Body(f)
  <2>1. n \in Nat
    OBVIOUS
  <2> HIDE DEF n
  <2>2. \E f : SearchesAll(f, m, frame, addr, n)
    BY <2>1, SearchExists, Zenon
  <2> QED
    BY <2>2, Zenon DEF SearchesAll
<1>3. g = CHOOSE f : f = Body(f)
  BY Zenon DEF Search
<1> HIDE DEF Body, g
<1>4. g = Body(g)
  BY <1>2, <1>3, Zenon
<1>5. \A p \in Spans(n) : g[p] = Halves(g, m, frame, addr, p)
  BY <1>4, Zenon DEF Body
<1> QED
  BY <1>1, <1>5, Zenon DEF g

Faddr(m, frame, k) == m[<<m[frame].callers, k>>].faddr
InOrder(m, frame) ==
  \A j, k \in 0 .. m[frame].callers_filled - 1 : j < k => Faddr(m, frame, j) < Faddr(m, frame, k)

(* Where addr is, or between which callers it belongs.                     *)
Between(m, frame, addr, s, e) ==
  /\ \A j \in 0 .. s - 1 : Faddr(m, frame, j) < addr
  /\ \A j \in e .. m[frame].callers_filled - 1 : addr < Faddr(m, frame, j)
Found(m, frame, addr, r) ==
  r.match => r.at \in 0 .. m[frame].callers_filled - 1 /\ Faddr(m, frame, r.at) = addr
Placed(m, frame, addr, r, p) ==
  ~r.match => /\ r.at \in 0 .. m[frame].callers_filled
              /\ InOrder(m, frame) /\ Between(m, frame, addr, p[1], p[2])
                   => Between(m, frame, addr, r.at, r.at)

(* One step of the search, if it is right about shorter spans.             *)
LEMMA SearchStep ==
  ASSUME NEW m, NEW frame, NEW addr \in Int, NEW n \in Nat, n = m[frame].callers_filled,
         \A k \in 0 .. n - 1 : Faddr(m, frame, k) \in Int,
         NEW f, NEW p \in Spans(n), f[p] = Halves(f, m, frame, addr, p),
         \A q \in Spans(n) : q[2] - q[1] < p[2] - p[1] =>
            Found(m, frame, addr, f[q]) /\ Placed(m, frame, addr, f[q], q)
  PROVE  Found(m, frame, addr, f[p]) /\ Placed(m, frame, addr, f[p], p)
<1>1. p[1] \in 0 .. n /\ p[2] \in 0 .. n /\ p[1] <= p[2]
  BY DEF Spans
<1>2. CASE p[1] = p[2]
  <2>1. f[p] = [at |-> p[1], match |-> FALSE]
    BY <1>2, Zenon DEF Halves
  <2>2. f[p].at = p[1] /\ ~f[p].match
    <3>1. [at |-> p[1], match |-> FALSE].at = p[1] /\ [at |-> p[1], match |-> FALSE].match = FALSE
      BY Zenon
    <3>2. f[p].at = p[1] /\ f[p].match = FALSE
      BY <2>1, <3>1, Zenon
    <3> QED
      BY <3>2, Zenon
  <2>3. f[p].at \in 0 .. n
    BY <1>1, <2>2
  <2> QED
    BY <1>2, <2>2, <2>3, Zenon DEF Found, Placed
<1>3. CASE p[1] # p[2]
  <2> DEFINE mid == Middle(p)
  <2>1. /\ mid \in p[1] .. p[2] - 1 /\ mid \in 0 .. n - 1
        /\ <<mid + 1, p[2]>> \in Spans(n) /\ <<p[1], mid>> \in Spans(n)
        /\ p[2] - (mid + 1) < p[2] - p[1] /\ mid - p[1] < p[2] - p[1]
    BY <1>3, SpanHalves
  <2> HIDE DEF mid
  <2>2. Faddr(m, frame, mid) \in Int
    BY <2>1
  <2>3. CASE Faddr(m, frame, mid) = addr
    <3>1. f[p] = [at |-> mid, match |-> TRUE]
      BY <1>3, <2>3, Zenon DEF Halves, Faddr, mid
    <3>2. f[p].at = mid /\ f[p].match
      <4>1. [at |-> mid, match |-> TRUE].at = mid /\ [at |-> mid, match |-> TRUE].match = TRUE
        BY Zenon
      <4>2. f[p].at = mid /\ f[p].match = TRUE
        BY <3>1, <4>1, Zenon
      <4> QED
        BY <4>2, Zenon
    <3> QED
      BY <2>1, <2>3, <3>2, Zenon DEF Found, Placed
  <2>4. CASE Faddr(m, frame, mid) # addr /\ Faddr(m, frame, mid) < addr
    <3> DEFINE q == <<mid + 1, p[2]>>
    <3>1. f[p] = f[q]
      BY <1>3, <2>4, Zenon DEF Halves, Faddr, mid
    <3>2. q \in Spans(n) /\ q[1] = mid + 1 /\ q[2] = p[2] /\ q[2] - q[1] < p[2] - p[1]
      BY <2>1
    <3> HIDE DEF q
    <3>3. Found(m, frame, addr, f[q]) /\ Placed(m, frame, addr, f[q], q)
      BY <3>2, Zenon
    <3>4. ASSUME InOrder(m, frame), Between(m, frame, addr, p[1], p[2])
          PROVE  Between(m, frame, addr, q[1], q[2])
      <4>1. ASSUME NEW j \in 0 .. (mid + 1) - 1
            PROVE  Faddr(m, frame, j) < addr
        <5>1. j \in 0 .. n - 1 /\ (j = mid \/ j < mid)
          BY <2>1
        <5>2. Faddr(m, frame, j) \in Int
          BY <5>1
        <5>3. CASE j < mid
          <6>1. Faddr(m, frame, j) < Faddr(m, frame, mid)
            BY <2>1, <3>4, <5>1, <5>3, Zenon DEF InOrder
          <6> QED
            BY <2>2, <2>4, <5>2, <6>1
        <5> QED
          BY <2>4, <5>1, <5>3
      <4> QED
        BY <3>2, <3>4, <4>1, Zenon DEF Between
    <3> QED
      BY <3>1, <3>3, <3>4, Zenon DEF Found, Placed
  <2>5. CASE Faddr(m, frame, mid) # addr /\ ~(Faddr(m, frame, mid) < addr)
    <3> DEFINE q == <<p[1], mid>>
    <3>1. f[p] = f[q]
      BY <1>3, <2>5, Zenon DEF Halves, Faddr, mid
    <3>2. q \in Spans(n) /\ q[1] = p[1] /\ q[2] = mid /\ q[2] - q[1] < p[2] - p[1]
      BY <2>1
    <3> HIDE DEF q
    <3>3. Found(m, frame, addr, f[q]) /\ Placed(m, frame, addr, f[q], q)
      BY <3>2, Zenon
    <3>4. ASSUME InOrder(m, frame), Between(m, frame, addr, p[1], p[2])
          PROVE  Between(m, frame, addr, q[1], q[2])
      <4>1. ASSUME NEW j \in mid .. n - 1
            PROVE  addr < Faddr(m, frame, j)
        <5>1. j \in 0 .. n - 1 /\ (j = mid \/ mid < j)
          BY <2>1
        <5>2. Faddr(m, frame, j) \in Int
          BY <5>1
        <5>3. CASE mid < j
          <6>1. Faddr(m, frame, mid) < Faddr(m, frame, j)
            BY <2>1, <3>4, <5>1, <5>3, Zenon DEF InOrder
          <6> QED
            BY <2>2, <2>5, <5>2, <6>1
        <5> QED
          BY <2>2, <2>5, <5>1, <5>3
      <4> QED
        BY <3>2, <3>4, <4>1, Zenon DEF Between
    <3> QED
      BY <3>1, <3>3, <3>4, Zenon DEF Found, Placed
  <2> QED
    BY <2>3, <2>4, <2>5
<1> QED
  BY <1>2, <1>3

(* The binary search finds what is there; where the callers are in order,  *)
(* it finds the place of what is not.                                      *)
LEMMA PositionFinds ==
  ASSUME NEW m, NEW frame, NEW addr \in Int, m[frame].callers_filled \in Nat,
         \A k \in 0 .. m[frame].callers_filled - 1 : Faddr(m, frame, k) \in Int
  PROVE  /\ Found(m, frame, addr, Position(m, frame, addr))
         /\ Placed(m, frame, addr, Position(m, frame, addr), <<0, m[frame].callers_filled>>)
<1> DEFINE n == m[frame].callers_filled
           f == Search(m, frame, addr)
           Right(p) == Found(m, frame, addr, f[p]) /\ Placed(m, frame, addr, f[p], p)
           T == {w \in 1 .. n + 1 : \A p \in Spans(n) : p[2] - p[1] < w => Right(p)}
<1>1. Position(m, frame, addr) = f[<<0, n>>] /\ \A p \in Spans(n) : f[p] = Halves(f, m, frame, addr, p)
  BY PositionSearches
<1>2. n \in Nat
  OBVIOUS
<1> HIDE DEF f
<1>3. ASSUME NEW p \in Spans(n), \A q \in Spans(n) : q[2] - q[1] < p[2] - p[1] => Right(q)
      PROVE  Right(p)
  BY <1>1, <1>3, SearchStep
<1> HIDE DEF Right
<1>4. \A p \in Spans(n) : p[1] \in 0 .. n /\ p[2] \in 0 .. n /\ p[2] - p[1] \in 0 .. n
  BY DEF Spans
<1>5. 1 \in T
  <2>1. ASSUME NEW p \in Spans(n), p[2] - p[1] < 1
        PROVE  Right(p)
    <3>1. \A q \in Spans(n) : ~(q[2] - q[1] < p[2] - p[1])
      BY <1>4, <2>1
    <3> QED
      BY <1>3, <3>1, Zenon
  <2>2. 1 \in 1 .. n + 1
    BY <1>2
  <2> QED
    BY <2>1, <2>2
<1>6. ASSUME NEW w \in T, w < n + 1
      PROVE  w + 1 \in T
  <2>1. w \in Nat /\ w + 1 \in 1 .. n + 1
    BY <1>2, <1>6
  <2>2. ASSUME NEW p \in Spans(n), p[2] - p[1] < w + 1
        PROVE  Right(p)
    <3>1. ASSUME NEW q \in Spans(n), q[2] - q[1] < p[2] - p[1]
          PROVE  Right(q)
      <4>1. q[2] - q[1] < w
        BY <1>4, <2>1, <2>2, <3>1
      <4> QED
        BY <4>1
    <3> QED
      BY <1>3, <3>1, Zenon
  <2> QED
    BY <2>1, <2>2
<1>7. n + 1 \in T
  <2>1. T \in SUBSET Nat /\ n + 1 \in Nat /\ n + 1 \in 1 .. n + 1
    BY <1>2
  <2> HIDE DEF T
  <2>2. 1 .. n + 1 \subseteq T
    BY <1>5, <1>6, <2>1, CountingUp, Zenon
  <2> QED
    BY <2>1, <2>2
<1>8. <<0, n>> \in Spans(n) /\ <<0, n>>[2] - <<0, n>>[1] < n + 1
  BY <1>2 DEF Spans
<1>9. Right(<<0, n>>)
  BY <1>7, <1>8
<1> QED
  BY <1>1, <1>9, Zenon DEF Right

-----------------------------------------------------------------------------
(* The parts of insert(): the array a caller gets to, and the array after  *)
(* the others have made room for it.                                       *)
Own(d) == IF d.mem[d.cell].callers = 0 THEN d.arrays + 1 ELSE d.mem[d.cell].callers
Slid(d, own, at) ==
  [c \in Cells |->
     IF c[1] # own THEN d.mem[c]
     ELSE IF own > d.arrays THEN Fresh(d.unused)
     ELSE IF at < c[2] /\ c[2] <= d.mem[d.cell].callers_filled THEN d.mem[<<own, c[2] - 1>>]
     ELSE d.mem[c]]
Added(d, own, at, addr) ==
  [Slid(d, own, at) EXCEPT ![<<own, at>>].faddr = addr, ![<<own, at>>].callee = d.cell,
                           ![d.cell].callers = own, ![d.cell].callers_filled = @ + 1]

(* What a record of insert() has in its fields.                            *)
HasFields(r, a, b, c, e, f, g) ==
  r.mem = a /\ r.cell = b /\ r.arrays = c /\ r.stale = e /\ r.unused = f /\ r.fits = g

(* And a record made of them has them.                                     *)
LEMMA WalkFields ==
  ASSUME NEW a, NEW b, NEW c, NEW e, NEW f, NEW g, NEW r,
         r = [mem |-> a, cell |-> b, arrays |-> c, stale |-> e, unused |-> f, fits |-> g]
  PROVE  HasFields(r, a, b, c, e, f, g)
BY DEF HasFields

InsertsAs(r, d, addr, pos, own) ==
  /\ r.cell = <<own, pos.at>> /\ r.unused = d.unused
  /\ r.arrays = IF own > d.arrays THEN own ELSE d.arrays
  /\ r.fits = (d.fits /\ own <= MaxArrays /\ (pos.match \/ d.mem[d.cell].callers_filled < MaxCallers))
  /\ pos.match => r.mem = [d.mem EXCEPT ![<<own, pos.at>>].user = @ + 1]
  /\ ~pos.match => r.mem = [Added(d, own, pos.at, addr) EXCEPT ![<<own, pos.at>>].user = @ + 1]
  /\ r.stale = ((d.stale \/ (~pos.match /\ pos.at < d.mem[d.cell].callers_filled))
                \/ (own > d.arrays /\ d.unused # 0))

(* What insert() returns, field by field.                                  *)
LEMMA InsertIs ==
  ASSUME NEW d, NEW addr, NEW r, r = Insert(d, addr), NEW pos, pos = Position(d.mem, d.cell, addr),
         NEW own, own = Own(d)
  PROVE  InsertsAs(r, d, addr, pos, own)
<1> DEFINE base == IF pos.match THEN d.mem ELSE Added(d, own, pos.at, addr)
           room == d.fits /\ own <= MaxArrays /\ (pos.match \/ d.mem[d.cell].callers_filled < MaxCallers)
           moved == (d.stale \/ (~pos.match /\ pos.at < d.mem[d.cell].callers_filled))
                    \/ (own > d.arrays /\ d.unused # 0)
           mem1 == [base EXCEPT ![<<own, pos.at>>].user = @ + 1]
           arrays1 == IF own > d.arrays THEN own ELSE d.arrays
<1>1. r = [mem |-> mem1, cell |-> <<own, pos.at>>, arrays |-> arrays1, stale |-> moved,
           unused |-> d.unused, fits |-> room]
  <2> DEFINE Rec(p, o) ==
        [mem |-> [IF p.match THEN d.mem ELSE Added(d, o, p.at, addr) EXCEPT ![<<o, p.at>>].user = @ + 1],
         cell |-> <<o, p.at>>, arrays |-> IF o > d.arrays THEN o ELSE d.arrays,
         stale |-> (d.stale \/ (~p.match /\ p.at < d.mem[d.cell].callers_filled))
                   \/ (o > d.arrays /\ d.unused # 0),
         unused |-> d.unused,
         fits |-> d.fits /\ o <= MaxArrays /\ (p.match \/ d.mem[d.cell].callers_filled < MaxCallers)]
  <2>1. Insert(d, addr) = Rec(Position(d.mem, d.cell, addr), Own(d))
    BY Zenon DEF Insert, Own, Added, Slid
  <2>2. r = Rec(pos, own)
    <3> HIDE DEF Rec
    <3> QED
      BY <2>1, Zenon
  <2> QED
    BY <2>2, Zenon
<1>2. pos.match => base = d.mem
  BY Zenon
<1>3. ~pos.match => base = Added(d, own, pos.at, addr)
  BY Zenon
<1> HIDE DEF base, room, moved, arrays1, mem1
<1>4. /\ r.cell = <<own, pos.at>> /\ r.unused = d.unused /\ r.arrays = arrays1 /\ r.mem = mem1
      /\ r.fits = room /\ r.stale = moved
  <2>1. HasFields(r, mem1, <<own, pos.at>>, arrays1, moved, d.unused, room)
    BY <1>1, WalkFields, Zenon
  <2> QED
    BY <2>1, Zenon DEF HasFields
<1> QED
  BY <1>2, <1>3, <1>4, Zenon DEF InsertsAs, room, moved, arrays1, mem1

(* A frame has an array of callers that is younger than its own; the first *)
(* one belongs to the root alone, and is in order.                         *)
MdbOK(m, arrs) ==
  /\ m \in [Cells -> Frames] /\ arrs \in 0 .. MaxArrays
  /\ \A c \in Cells : m[c].callers # 0 => c[1] < m[c].callers /\ m[c].callers <= arrs
  /\ \A c \in Cells : m[c].callers = 1 => c = Root
  /\ IF arrs = 0 THEN m[Root].callers_filled = 0 ELSE m[Root].callers = 1
  /\ InOrder(m, Root)
WalkOK(d) ==
  /\ MdbOK(d.mem, d.arrays) /\ d.cell \in Cells /\ d.unused \in Nat
  /\ d.cell = Root \/ d.cell[1] \in 1 .. d.arrays

(* A frame and its cell, field by field.                                   *)
LEMMA FrameIs ==
  ASSUME NEW m \in [Cells -> Frames], NEW c \in Cells
  PROVE  /\ m[c] \in Frames /\ m[c].user \in Nat /\ m[c].faddr \in Nat /\ m[c].faddr \in Addrs \cup {0}
         /\ m[c].callee \in Cells /\ m[c].callers_filled \in 0 .. MaxCallers /\ m[c].callers \in 0 .. MaxArrays
         /\ c[1] \in 0 .. MaxArrays /\ c[2] \in 0 .. MaxCallers - 1 /\ c = <<c[1], c[2]>>
<1>1. m[c] \in Frames
  OBVIOUS
<1>2. /\ m[c].user \in Nat /\ m[c].faddr \in Addrs \cup {0} /\ m[c].callee \in Cells
      /\ m[c].callers_filled \in 0 .. MaxCallers /\ m[c].callers \in 0 .. MaxArrays
  BY <1>1, Zenon DEF Frames
<1>3. m[c].faddr \in Nat
  <2>1. Addrs \subseteq Nat /\ 0 \in Nat
    BY MdbConstants
  <2> QED
    BY <1>2, <2>1, Zenon
<1>4. c[1] \in 0 .. MaxArrays /\ c[2] \in 0 .. MaxCallers - 1 /\ c = <<c[1], c[2]>>
  BY DEF Cells
<1> QED
  BY <1>1, <1>2, <1>3, <1>4

(* Where insert() goes, as long as it fits.                                *)
LEMMA InsertPlace ==
  ASSUME NEW d, WalkOK(d), NEW addr \in Addrs, NEW pos, pos = Position(d.mem, d.cell, addr),
         NEW own, own = Own(d), own <= MaxArrays,
         pos.match \/ d.mem[d.cell].callers_filled < MaxCallers
  PROVE  /\ own \in 1 .. MaxArrays /\ d.cell[1] < own /\ own <= d.arrays + 1
         /\ <<own, pos.at>> \in Cells /\ <<own, pos.at>> # d.cell /\ <<own, pos.at>> # Root
         /\ pos.match => pos.at \in 0 .. d.mem[d.cell].callers_filled - 1
         /\ ~pos.match => pos.at \in 0 .. d.mem[d.cell].callers_filled
         /\ own = 1 => d.cell = Root
         /\ d.cell = Root => own = 1
         /\ Placed(d.mem, d.cell, addr, pos, <<0, d.mem[d.cell].callers_filled>>)
         /\ Found(d.mem, d.cell, addr, pos)
<1> DEFINE f == d.mem[d.cell]
<1>1. /\ d.mem \in [Cells -> Frames] /\ d.arrays \in 0 .. MaxArrays /\ d.cell \in Cells
      /\ \A c \in Cells : d.mem[c].callers # 0 => c[1] < d.mem[c].callers /\ d.mem[c].callers <= d.arrays
      /\ IF d.arrays = 0 THEN d.mem[Root].callers_filled = 0 ELSE d.mem[Root].callers = 1
      /\ d.cell = Root \/ d.cell[1] \in 1 .. d.arrays
  BY DEF WalkOK, MdbOK
<1>2. /\ f.callers_filled \in 0 .. MaxCallers /\ f.callers \in 0 .. MaxArrays
      /\ d.cell[1] \in 0 .. MaxArrays /\ d.cell[2] \in 0 .. MaxCallers - 1
  BY <1>1, FrameIs
<1>3. ASSUME NEW k \in 0 .. f.callers_filled - 1
      PROVE  Faddr(d.mem, d.cell, k) \in Int
  <2>1. <<f.callers, k>> \in Cells
    <3>1. k \in 0 .. MaxCallers - 1
      <4>1. MaxCallers \in Nat
        BY MdbConstants
      <4> QED
        BY <1>2, <1>3, <4>1
    <3> QED
      BY <1>2, <3>1, Zenon DEF Cells
  <2>2. d.mem[<<f.callers, k>>].faddr \in Nat
    BY <1>1, <2>1, FrameIs
  <2> QED
    BY <2>2 DEF Faddr
<1>4. addr \in Int /\ f.callers_filled \in Nat
  BY <1>2, MdbConstants
<1>5. Found(d.mem, d.cell, addr, pos) /\ Placed(d.mem, d.cell, addr, pos, <<0, f.callers_filled>>)
  BY <1>3, <1>4, PositionFinds
<1>6. /\ pos.match => pos.at \in 0 .. f.callers_filled - 1
      /\ ~pos.match => pos.at \in 0 .. f.callers_filled
  BY <1>5, Zenon DEF Found, Placed
<1>7. Root[1] = 0
  BY DEF Root
<1> HIDE DEF f
<1>8. own = IF f.callers = 0 THEN d.arrays + 1 ELSE f.callers
  BY Zenon DEF Own, f
<1>9. f.callers # 0 => d.cell[1] < f.callers /\ f.callers <= d.arrays
  BY <1>1, Zenon DEF f
<1>10. own \in 1 .. MaxArrays /\ d.cell[1] < own /\ own <= d.arrays + 1
  BY <1>1, <1>2, <1>7, <1>8, <1>9, MdbConstants, SMTT(30)
<1>11. pos.at \in 0 .. MaxCallers - 1
  <2>1. CASE pos.match
    <3>1. pos.at \in 0 .. f.callers_filled - 1
      BY <1>6, <2>1, Zenon
    <3> QED
      BY <1>2, <3>1, MdbConstants, SMTT(30) DEF f
  <2>2. CASE ~pos.match
    <3>1. pos.at \in 0 .. f.callers_filled /\ f.callers_filled < MaxCallers
      BY <1>6, <2>2, Zenon DEF f
    <3> QED
      BY <1>2, <3>1, MdbConstants DEF f
  <2> QED
    BY <2>1, <2>2
<1>12. <<own, pos.at>> \in Cells
  BY <1>10, <1>11, MdbConstants DEF Cells
<1>13. <<own, pos.at>> # d.cell /\ <<own, pos.at>> # Root
  <2>1. <<own, pos.at>>[1] = own
    OBVIOUS
  <2>2. own # d.cell[1] /\ own # Root[1]
    BY <1>2, <1>7, <1>10
  <2> QED
    BY <2>1, <2>2
<1>14. own = 1 => d.cell = Root
  <2> SUFFICES ASSUME own = 1
               PROVE  d.cell = Root
    OBVIOUS
  <2>1. ~(d.cell[1] \in 1 .. d.arrays)
    BY <1>1, <1>2, <1>10
  <2> QED
    BY <1>1, <2>1
<1>15. d.cell = Root => own = 1
  <2> SUFFICES ASSUME d.cell = Root
               PROVE  own = 1
    OBVIOUS
  <2>1. f.callers = d.mem[Root].callers
    BY DEF f
  <2> QED
    BY <1>1, <1>2, <1>8, <1>9, <2>1
<1> QED
  BY <1>5, <1>6, <1>10, <1>12, <1>13, <1>14, <1>15, Zenon DEF f

(* Room is made by moving frames within their array.                       *)
LEMMA SlidIs ==
  ASSUME NEW d, WalkOK(d), NEW own \in 1 .. MaxArrays, NEW at \in Nat, NEW S, S = Slid(d, own, at)
  PROVE  /\ S \in [Cells -> Frames]
         /\ \A c \in Cells : c[1] # own => S[c] = d.mem[c]
         /\ \A c \in Cells : S[c].callers # 0 => c[1] < S[c].callers /\ S[c].callers <= d.arrays
         /\ \A k \in 0 .. MaxCallers - 1 : own <= d.arrays =>
              S[<<own, k>>] = IF at < k /\ k <= d.mem[d.cell].callers_filled THEN d.mem[<<own, k - 1>>]
                              ELSE d.mem[<<own, k>>]
         /\ own > d.arrays => \A k \in 0 .. MaxCallers - 1 : S[<<own, k>>] = Fresh(d.unused)
<1>1. /\ d.mem \in [Cells -> Frames] /\ d.arrays \in 0 .. MaxArrays /\ d.cell \in Cells /\ d.unused \in Nat
      /\ \A c \in Cells : d.mem[c].callers # 0 => c[1] < d.mem[c].callers /\ d.mem[c].callers <= d.arrays
  BY DEF WalkOK, MdbOK
<1>2. MaxArrays \in Nat /\ MaxCallers \in Nat /\ Root \in Cells
  BY MdbConstants
<1>3. Fresh(d.unused) \in Frames /\ Fresh(d.unused).callers = 0
  BY <1>1, <1>2 DEF Fresh, Frames
<1>4. \A c \in Cells : c[1] # own => S[c] = d.mem[c]
  BY Zenon DEF Slid
<1>5. ASSUME NEW k \in 0 .. MaxCallers - 1
      PROVE  /\ <<own, k>> \in Cells /\ <<own, k>>[1] = own /\ <<own, k>>[2] = k
             /\ at < k => <<own, k - 1>> \in Cells /\ <<own, k - 1>>[1] = own
             /\ own <= d.arrays =>
                  S[<<own, k>>] = IF at < k /\ k <= d.mem[d.cell].callers_filled THEN d.mem[<<own, k - 1>>]
                                  ELSE d.mem[<<own, k>>]
             /\ own > d.arrays => S[<<own, k>>] = Fresh(d.unused)
  <2>1. <<own, k>> \in Cells
    BY <1>2 DEF Cells
  <2>2. at < k => <<own, k - 1>> \in Cells
    BY <1>2 DEF Cells
  <2>3. S[<<own, k>>] = IF own > d.arrays THEN Fresh(d.unused)
                        ELSE IF at < k /\ k <= d.mem[d.cell].callers_filled THEN d.mem[<<own, k - 1>>]
                        ELSE d.mem[<<own, k>>]
    <3> DEFINE c == <<own, k>>
    <3>1. c[1] = own /\ c[2] = k
      OBVIOUS
    <3>2. c \in Cells
      BY <2>1
    <3>3. S[c] = IF c[1] # own THEN d.mem[c]
                 ELSE IF own > d.arrays THEN Fresh(d.unused)
                 ELSE IF at < c[2] /\ c[2] <= d.mem[d.cell].callers_filled THEN d.mem[<<own, c[2] - 1>>]
                 ELSE d.mem[c]
      <4> HIDE DEF c
      <4> QED
        BY <3>2, Zenon DEF Slid
    <3> QED
      BY <3>1, <3>3, Zenon
  <2>4. own <= d.arrays => ~(own > d.arrays)
    BY <1>1
  <2> QED
    BY <2>1, <2>2, <2>3, <2>4
<1>6. ASSUME NEW c \in Cells
      PROVE  S[c] \in Frames /\ (S[c].callers # 0 => c[1] < S[c].callers /\ S[c].callers <= d.arrays)
  <2>1. CASE c[1] # own
    BY <1>1, <1>4, <2>1
  <2>2. CASE c[1] = own
    <3>1. c[2] \in 0 .. MaxCallers - 1 /\ c = <<own, c[2]>>
      BY <1>1, <2>2, FrameIs
    <3> DEFINE k == c[2]
    <3> HIDE DEF k
    <3>2. k \in 0 .. MaxCallers - 1 /\ c = <<own, k>>
      BY <3>1, Zenon DEF k
    <3>3. CASE own > d.arrays
      BY <1>3, <1>5, <3>2, <3>3
    <3>4. CASE ~(own > d.arrays)
      <4>1. own <= d.arrays
        BY <1>1, <3>4
      <4>2. PICK b \in Cells : b[1] = own /\ S[c] = d.mem[b]
        <5>1. CASE at < k /\ k <= d.mem[d.cell].callers_filled
          BY <1>5, <3>2, <4>1, <5>1, Zenon
        <5>2. CASE ~(at < k /\ k <= d.mem[d.cell].callers_filled)
          BY <1>5, <3>2, <4>1, <5>2, Zenon
        <5> QED
          BY <5>1, <5>2
      <4> QED
        BY <1>1, <2>2, <4>2
    <3> QED
      BY <3>3, <3>4
  <2> QED
    BY <2>1, <2>2
<1>7. S \in [Cells -> Frames]
  <2>1. S = [c \in Cells |-> S[c]]
    BY Zenon DEF Slid
  <2> QED
    BY <1>6, <2>1
<1> QED
  BY <1>4, <1>5, <1>6, <1>7, Zenon

(* The frame that is added, the one it is added to, and all the others.    *)
IsAdded(M, S, cell, to, addr, own) ==
  /\ M \in [Cells -> Frames]
  /\ \A c \in Cells \ {cell, to} : M[c] = S[c]
  /\ M[cell].faddr = addr /\ M[cell].callee = to /\ M[cell].user = S[cell].user + 1
  /\ M[cell].callers = S[cell].callers /\ M[cell].callers_filled = S[cell].callers_filled
  /\ M[to].callers = own /\ M[to].callers_filled = S[to].callers_filled + 1
  /\ M[to].faddr = S[to].faddr /\ M[to].callee = S[to].callee /\ M[to].user = S[to].user

AddsTo(M, S, cell, to, addr, own) ==
  M = [[S EXCEPT ![cell].faddr = addr, ![cell].callee = to,
                 ![to].callers = own, ![to].callers_filled = @ + 1] EXCEPT ![cell].user = @ + 1]

(* Insert fills in the new frame and counts it as one more caller.         *)
LEMMA AddedIs ==
  ASSUME NEW S \in [Cells -> Frames], NEW cell \in Cells, NEW to \in Cells, cell # to, NEW addr \in Addrs,
         NEW own \in 1 .. MaxArrays, S[to].callers_filled < MaxCallers,
         NEW M, AddsTo(M, S, cell, to, addr, own)
  PROVE  IsAdded(M, S, cell, to, addr, own)
<1>1. M = [c \in Cells |-> IF c = cell THEN [S[c] EXCEPT !.faddr = addr, !.callee = to, !.user = @ + 1]
                           ELSE IF c = to THEN [S[c] EXCEPT !.callers = own, !.callers_filled = @ + 1]
                           ELSE S[c]]
  BY ZenonT(60) DEF AddsTo
<1>2. S[cell] \in Frames /\ S[to] \in Frames /\ MaxArrays \in Nat /\ MaxCallers \in Nat
  BY MdbConstants
<1>3. \A c \in Cells \ {cell, to} : M[c] = S[c]
  BY <1>1
<1>4. /\ M[cell] = [S[cell] EXCEPT !.faddr = addr, !.callee = to, !.user = @ + 1]
      /\ M[to] = [S[to] EXCEPT !.callers = own, !.callers_filled = @ + 1]
  BY <1>1
<1>5. /\ M[cell].faddr = addr /\ M[cell].callee = to /\ M[cell].user = S[cell].user + 1
      /\ M[cell].callers = S[cell].callers /\ M[cell].callers_filled = S[cell].callers_filled
      /\ M[to].callers = own /\ M[to].callers_filled = S[to].callers_filled + 1
      /\ M[to].faddr = S[to].faddr /\ M[to].callee = S[to].callee /\ M[to].user = S[to].user
  BY <1>2, <1>4 DEF Frames
<1>6. M[cell] \in Frames
  <2>1. S[cell].user + 1 \in Nat /\ addr \in Addrs \cup {0} /\ to \in Cells
        /\ S[cell].callers_filled \in 0 .. MaxCallers /\ S[cell].callers \in 0 .. MaxArrays
    BY <1>2 DEF Frames
  <2>2. M[cell] = [user |-> S[cell].user + 1, faddr |-> addr, callee |-> to,
                   callers_filled |-> S[cell].callers_filled, callers |-> S[cell].callers]
    BY <1>2, <1>4 DEF Frames
  <2>3. ASSUME NEW U, NEW A, NEW C, NEW n, NEW a,
               NEW u \in U, NEW f \in A, NEW c \in C, NEW l \in n, NEW o \in a
        PROVE  [user |-> u, faddr |-> f, callee |-> c, callers_filled |-> l, callers |-> o]
                 \in [user : U, faddr : A, callee : C, callers_filled : n, callers : a]
    OBVIOUS
  <2>4. [user |-> S[cell].user + 1, faddr |-> addr, callee |-> to,
         callers_filled |-> S[cell].callers_filled, callers |-> S[cell].callers] \in Frames
    BY <2>1, <2>3 DEF Frames
  <2> QED
    BY <2>2, <2>4, Zenon
<1>7. M[to] \in Frames
  <2>1. own \in 0 .. MaxArrays /\ S[to].callers_filled + 1 \in 0 .. MaxCallers
    BY <1>2 DEF Frames
  <2>2. [S[to] EXCEPT !.callers = own, !.callers_filled = @ + 1] \in Frames
    BY <1>2, <2>1 DEF Frames
  <2> QED
    BY <1>4, <2>2, Zenon
<1>8. M \in [Cells -> Frames]
  <2>1. \A c \in Cells : M[c] \in Frames
    BY <1>3, <1>6, <1>7
  <2> QED
    BY <1>1, <2>1, Zenon
<1> QED
  BY <1>3, <1>5, <1>8, Zenon DEF IsAdded

(* Nothing but the counts of the frames differs.                           *)
SameShape(m, M) ==
  \A c \in Cells : /\ M[c].callers = m[c].callers /\ M[c].callers_filled = m[c].callers_filled
                    /\ M[c].faddr = m[c].faddr

(* Then the arrays stay in order.                                          *)
LEMMA ShapeKeeps ==
  ASSUME NEW m, NEW arrs \in Nat, MdbOK(m, arrs), NEW n \in arrs .. MaxArrays, arrs = 0 => n = 0,
         NEW M \in [Cells -> Frames], SameShape(m, M)
  PROVE  MdbOK(M, n)
<1>1. /\ m \in [Cells -> Frames] /\ arrs \in 0 .. MaxArrays
      /\ \A c \in Cells : m[c].callers # 0 => c[1] < m[c].callers /\ m[c].callers <= arrs
      /\ \A c \in Cells : m[c].callers = 1 => c = Root
      /\ IF arrs = 0 THEN m[Root].callers_filled = 0 ELSE m[Root].callers = 1
  BY DEF MdbOK
<1>2. Root \in Cells /\ MaxCallers \in Nat
  BY MdbConstants
<1>3. \A c \in Cells : /\ M[c].callers = m[c].callers /\ M[c].callers_filled = m[c].callers_filled
                        /\ M[c].faddr = m[c].faddr
  BY DEF SameShape
<1>4. M \in [Cells -> Frames]
  OBVIOUS
<1>5. \A c \in Cells : M[c].callers # 0 => c[1] < M[c].callers /\ M[c].callers <= n
  <2> SUFFICES ASSUME NEW c \in Cells, m[c].callers # 0
               PROVE  c[1] < m[c].callers /\ m[c].callers <= n
    BY <1>3
  <2>1. c[1] < m[c].callers /\ m[c].callers <= arrs
    BY <1>1
  <2>2. m[c].callers \in 0 .. MaxArrays
    BY <1>1, FrameIs
  <2> QED
    BY <2>1, <2>2
<1>6. InOrder(M, Root)
  <2> SUFFICES ASSUME NEW j \in 0 .. m[Root].callers_filled - 1, NEW k \in 0 .. m[Root].callers_filled - 1, j < k
               PROVE  Faddr(M, Root, j) < Faddr(M, Root, k)
    BY <1>2, <1>3 DEF InOrder
  <2>1. Faddr(m, Root, j) < Faddr(m, Root, k)
    BY DEF MdbOK, InOrder
  <2>2. m[Root].callers_filled \in 0 .. MaxCallers /\ m[Root].callers \in 0 .. MaxArrays
    BY <1>1, <1>2, FrameIs
  <2>3. j \in 0 .. MaxCallers - 1 /\ k \in 0 .. MaxCallers - 1
    BY <1>2, <2>2
  <2>4. <<m[Root].callers, j>> \in Cells /\ <<m[Root].callers, k>> \in Cells
    BY <2>2, <2>3 DEF Cells
  <2> QED
    BY <1>2, <1>3, <2>1, <2>4 DEF Faddr
<1>7. IF n = 0 THEN M[Root].callers_filled = 0 ELSE M[Root].callers = 1
  BY <1>1, <1>2, <1>3
<1>8. \A c \in Cells : M[c].callers = 1 => c = Root
  BY <1>1, <1>3
<1>9. n \in 0 .. MaxArrays
  OBVIOUS
<1> QED
  BY <1>4, <1>5, <1>6, <1>7, <1>8, <1>9, Zenon DEF MdbOK

(* A match only counts.                                                    *)
LEMMA MatchKeeps ==
  ASSUME NEW m, NEW arrs \in Nat, MdbOK(m, arrs), NEW cell \in Cells, NEW n \in arrs .. MaxArrays,
         arrs = 0 => n = 0,
         NEW M, M = [m EXCEPT ![cell].user = @ + 1]
  PROVE  MdbOK(M, n)
<1>1. m \in [Cells -> Frames]
  BY DEF MdbOK
<1>2. ASSUME NEW c \in Cells
      PROVE  /\ M[c] \in Frames /\ M[c].callers = m[c].callers /\ M[c].callers_filled = m[c].callers_filled
             /\ M[c].faddr = m[c].faddr
  <2>1. m[c] \in Frames
    BY <1>1
  <2>2. M[c] = IF c = cell THEN [m[c] EXCEPT !.user = @ + 1] ELSE m[c]
    BY <1>1
  <2> QED
    BY <2>1, <2>2 DEF Frames
<1>3. M \in [Cells -> Frames]
  <2>1. M = [c \in Cells |-> M[c]]
    BY <1>1
  <2> QED
    BY <1>2, <2>1, Zenon
<1>4. SameShape(m, M)
  BY <1>2, Zenon DEF SameShape
<1> QED
  BY <1>3, <1>4, ShapeKeeps

(* So does a frame that is added: the root's callers stay in order.        *)
LEMMA AddKeeps ==
  ASSUME NEW d, WalkOK(d), NEW addr \in Addrs, NEW pos, pos = Position(d.mem, d.cell, addr),
         NEW own, own = Own(d), own <= MaxArrays,
         ~pos.match, d.mem[d.cell].callers_filled < MaxCallers,
         NEW r, InsertsAs(r, d, addr, pos, own)
  PROVE  MdbOK(r.mem, r.arrays)
<1>a. PICK n, M : n = r.arrays /\ M = r.mem
  OBVIOUS
<1>0. /\ n = IF own > d.arrays THEN own ELSE d.arrays
      /\ M = [Added(d, own, pos.at, addr) EXCEPT ![<<own, pos.at>>].user = @ + 1]
  BY <1>a, Zenon DEF InsertsAs
<1> DEFINE f == d.mem[d.cell]
           cell == <<own, pos.at>>
           at == pos.at
           S == Slid(d, own, at)
<1>1. /\ d.mem \in [Cells -> Frames] /\ d.arrays \in 0 .. MaxArrays /\ d.cell \in Cells
      /\ \A c \in Cells : d.mem[c].callers # 0 => c[1] < d.mem[c].callers /\ d.mem[c].callers <= d.arrays
      /\ \A c \in Cells : d.mem[c].callers = 1 => c = Root
      /\ IF d.arrays = 0 THEN d.mem[Root].callers_filled = 0 ELSE d.mem[Root].callers = 1
      /\ d.cell = Root \/ d.cell[1] \in 1 .. d.arrays
  BY DEF WalkOK, MdbOK
<1>2. InOrder(d.mem, Root)
  BY DEF WalkOK, MdbOK
<1>3. Root \in Cells /\ MaxCallers \in Nat /\ MaxArrays \in Nat /\ Root[1] = 0 /\ addr \in Nat
  BY MdbConstants DEF Root
<1>4. /\ own \in 1 .. MaxArrays /\ d.cell[1] < own /\ own <= d.arrays + 1
      /\ cell \in Cells /\ cell # d.cell /\ cell # Root /\ at \in 0 .. f.callers_filled
      /\ own = 1 => d.cell = Root
      /\ d.cell = Root => own = 1
      /\ Placed(d.mem, d.cell, addr, pos, <<0, f.callers_filled>>)
  BY InsertPlace, Zenon
<1>5. /\ f.callers_filled \in 0 .. MaxCallers /\ f.callers \in 0 .. MaxArrays /\ d.cell[1] \in 0 .. MaxArrays
      /\ f.faddr \in Nat
  BY <1>1, FrameIs
<1>6. at \in Nat /\ cell[1] = own /\ cell[2] = at
  BY <1>4, <1>5
<1> HIDE DEF f, at, cell
<1>7. /\ S \in [Cells -> Frames]
      /\ \A c \in Cells : c[1] # own => S[c] = d.mem[c]
      /\ \A c \in Cells : S[c].callers # 0 => c[1] < S[c].callers /\ S[c].callers <= d.arrays
      /\ \A k \in 0 .. MaxCallers - 1 : own <= d.arrays =>
           S[<<own, k>>] = IF at < k /\ k <= d.mem[d.cell].callers_filled THEN d.mem[<<own, k - 1>>]
                           ELSE d.mem[<<own, k>>]
  BY <1>4, <1>6, SlidIs
<1> HIDE DEF S
<1>8. S[d.cell] = f /\ S[Root] = d.mem[Root]
  <2>1. d.cell[1] # own /\ Root[1] # own
    BY <1>3, <1>4, <1>5
  <2> QED
    BY <1>1, <1>3, <1>7, <2>1, Zenon DEF f
<1>9. AddsTo(M, S, cell, d.cell, addr, own)
  BY <1>0, Zenon DEF AddsTo, Added, S, cell, at
<1>10. S[d.cell].callers_filled < MaxCallers
  BY <1>8 DEF f
<1>11. /\ M \in [Cells -> Frames]
       /\ \A c \in Cells \ {cell, d.cell} : M[c] = S[c]
       /\ M[cell].faddr = addr /\ M[cell].callers = S[cell].callers
       /\ M[d.cell].callers = own /\ M[d.cell].callers_filled = S[d.cell].callers_filled + 1
       /\ M[d.cell].faddr = S[d.cell].faddr
  <2>1. IsAdded(M, S, cell, d.cell, addr, own)
    BY <1>1, <1>4, <1>7, <1>9, <1>10, AddedIs, Zenon
  <2> QED
    BY <2>1, Zenon DEF IsAdded
<1>12. n \in 1 .. MaxArrays /\ own <= n /\ d.arrays <= n
  BY <1>0, <1>1, <1>3, <1>4
<1>13. \A c \in Cells : M[c].callers # 0 => c[1] < M[c].callers /\ M[c].callers <= n
  <2> SUFFICES ASSUME NEW c \in Cells, M[c].callers # 0
               PROVE  c[1] < M[c].callers /\ M[c].callers <= n
    OBVIOUS
  <2>1. CASE c = d.cell
    BY <1>4, <1>11, <1>12, <2>1
  <2>2. CASE c # d.cell
    <3>1. M[c].callers = S[c].callers
      BY <1>11, <2>2
    <3>2. c[1] < S[c].callers /\ S[c].callers <= d.arrays
      BY <1>7, <2>2, <3>1
    <3>3. S[c].callers \in 0 .. MaxArrays
      BY <1>7, FrameIs
    <3> QED
      BY <1>1, <1>12, <3>1, <3>2, <3>3
  <2> QED
    BY <2>1, <2>2
<1>14. \A c \in Cells : M[c].callers = 1 => c = Root
  <2> SUFFICES ASSUME NEW c \in Cells, M[c].callers = 1
               PROVE  c = Root
    OBVIOUS
  <2>1. CASE c = d.cell
    BY <1>4, <1>11, <2>1
  <2>2. CASE c # d.cell
    <3>1. S[c].callers = 1
      BY <1>11, <2>2
    <3>2. c[1] < 1 /\ c[1] \in 0 .. MaxArrays
      <4>1. c[1] \in 0 .. MaxArrays
        BY <1>7, FrameIs
      <4> QED
        BY <1>7, <3>1, <4>1
    <3>3. c[1] # own
      BY <1>3, <1>4, <3>2
    <3>4. d.mem[c].callers = 1
      BY <1>7, <3>1, <3>3
    <3> QED
      BY <1>1, <3>4
  <2> QED
    BY <2>1, <2>2
<1>15. M[Root].callers = 1
  <2>1. CASE d.cell = Root
    BY <1>4, <1>11, <2>1
  <2>2. CASE d.cell # Root
    <3>1. M[Root] = d.mem[Root]
      BY <1>3, <1>4, <1>8, <1>11, <2>2
    <3>2. d.arrays # 0
      BY <1>1, <2>2
    <3> QED
      BY <1>1, <3>1, <3>2
  <2> QED
    BY <2>1, <2>2
<1>18. InOrder(M, Root) => MdbOK(r.mem, r.arrays)
  <2>1. n \in 0 .. MaxArrays /\ n # 0
    BY <1>12
  <2>2. IF n = 0 THEN M[Root].callers_filled = 0 ELSE M[Root].callers = 1
    BY <1>15, <2>1, Zenon
  <2> QED
    BY <1>a, <1>11, <1>13, <1>14, <2>1, <2>2, Zenon DEF MdbOK
<1>16. CASE d.cell # Root
  <2>1. M[Root] = d.mem[Root] /\ d.arrays # 0 /\ own # 1
    <3>1. M[Root] = S[Root]
      BY <1>3, <1>4, <1>11, <1>16
    <3>2. d.arrays # 0
      BY <1>1, <1>16
    <3>3. own # 1
      BY <1>4, <1>16, Zenon
    <3> QED
      BY <1>8, <3>1, <3>2, <3>3
  <2>2. d.mem[Root].callers = 1
    BY <1>1, <2>1
  <2>3. d.mem[Root].callers_filled \in 0 .. MaxCallers
    BY <1>1, <1>3, FrameIs
  <2>4. ASSUME NEW k \in 0 .. d.mem[Root].callers_filled - 1
        PROVE  Faddr(M, Root, k) = Faddr(d.mem, Root, k)
    <3>1. <<1, k>> \in Cells /\ <<1, k>>[1] = 1
      <4>1. k \in 0 .. MaxCallers - 1 /\ 1 \in 0 .. MaxArrays
        BY <1>3, <1>4, <2>3
      <4> QED
        BY <4>1 DEF Cells
    <3>2. <<1, k>> # cell /\ S[<<1, k>>] = d.mem[<<1, k>>]
      BY <1>6, <1>7, <2>1, <3>1
    <3>3. M[<<1, k>>].faddr = d.mem[<<1, k>>].faddr
      BY <1>8, <1>11, <3>1, <3>2 DEF f
    <3> QED
      BY <2>1, <2>2, <3>3 DEF Faddr
  <2>5. InOrder(M, Root)
    <3> SUFFICES ASSUME NEW j \in 0 .. M[Root].callers_filled - 1, NEW k \in 0 .. M[Root].callers_filled - 1, j < k
                 PROVE  Faddr(M, Root, j) < Faddr(M, Root, k)
      BY DEF InOrder
    <3>1. j \in 0 .. d.mem[Root].callers_filled - 1 /\ k \in 0 .. d.mem[Root].callers_filled - 1
      BY <2>1
    <3>2. Faddr(d.mem, Root, j) < Faddr(d.mem, Root, k)
      BY <1>2, <3>1 DEF InOrder
    <3>3. Faddr(M, Root, j) = Faddr(d.mem, Root, j) /\ Faddr(M, Root, k) = Faddr(d.mem, Root, k)
      BY <2>4, <3>1
    <3> QED
      BY <3>2, <3>3
  <2> QED
    BY <1>18, <2>5
<1>17. CASE d.cell = Root
  <2>1. own = 1 /\ M[Root].callers = 1 /\ M[Root].callers_filled = f.callers_filled + 1
    BY <1>4, <1>8, <1>11, <1>17
  <2>2. ASSUME NEW k \in 0 .. f.callers_filled
        PROVE  /\ <<1, k>> \in Cells /\ k \in 0 .. MaxCallers - 1
               /\ Faddr(M, Root, k) = IF k = at THEN addr ELSE S[<<1, k>>].faddr
    <3>1. k \in 0 .. MaxCallers - 1 /\ 1 \in 0 .. MaxArrays
      BY <1>3, <1>4, <1>5, <1>8, <1>10
    <3>2. <<1, k>> \in Cells
      BY <3>1 DEF Cells
    <3>3. CASE k = at
      <4>1. <<1, k>> = cell
        BY <2>1, <3>3 DEF cell, at
      <4> QED
        BY <1>11, <2>1, <3>1, <3>2, <3>3, <4>1 DEF Faddr
    <3>4. CASE k # at
      <4>1. <<1, k>> # cell /\ <<1, k>> # d.cell
        <5>1. <<1, k>>[1] = 1 /\ <<1, k>>[2] = k
          OBVIOUS
        <5> QED
          BY <1>3, <1>6, <1>17, <3>4, <5>1
      <4>2. M[<<1, k>>] = S[<<1, k>>]
        BY <1>11, <3>2, <4>1
      <4>3. Faddr(M, Root, k) = S[<<1, k>>].faddr
        BY <2>1, <4>2 DEF Faddr
      <4> QED
        BY <3>1, <3>2, <3>4, <4>3
    <3> QED
      BY <3>3, <3>4
  <2>3. CASE d.arrays = 0
    <3>1. f.callers_filled = 0
      BY <1>1, <1>17, <2>3 DEF f
    <3>2. InOrder(M, Root)
      <4>1. \A j, k \in 0 .. (0 + 1) - 1 : ~(j < k)
        OBVIOUS
      <4> QED
        BY <2>1, <3>1, <4>1, Zenon DEF InOrder
    <3> QED
      BY <1>18, <3>2
  <2>4. CASE d.arrays # 0
    <3>1. d.mem[Root].callers = 1 /\ own <= d.arrays
      BY <1>1, <2>1, <2>4
    <3> DEFINE g(k) == Faddr(d.mem, Root, k)
    <3>2. ASSUME NEW k \in 0 .. f.callers_filled
          PROVE  Faddr(M, Root, k) = IF k = at THEN addr ELSE IF at < k THEN g(k - 1) ELSE g(k)
      <4>1. S[<<1, k>>] = IF at < k /\ k <= f.callers_filled THEN d.mem[<<1, k - 1>>] ELSE d.mem[<<1, k>>]
        BY <1>7, <2>1, <2>2, <3>1, Zenon DEF f
      <4>2. k <= f.callers_filled
        BY <1>5
      <4>3. S[<<1, k>>].faddr = IF at < k THEN g(k - 1) ELSE g(k)
        BY <3>1, <4>1, <4>2 DEF Faddr
      <4> QED
        BY <2>2, <4>3
    <3>3. ASSUME NEW k \in 0 .. f.callers_filled - 1
          PROVE  g(k) \in Nat
      <4>1. <<1, k>> \in Cells
        <5>1. k \in 0 .. f.callers_filled
          BY <1>5
        <5> QED
          BY <2>2, <5>1
      <4>2. d.mem[<<1, k>>].faddr \in Nat
        BY <1>1, <4>1, FrameIs
      <4> QED
        BY <3>1, <4>2 DEF Faddr
    <3>4. \A j, k \in 0 .. f.callers_filled - 1 : j < k => g(j) < g(k)
      BY <1>2, <1>17 DEF InOrder, f
    <3>5. /\ \A j \in 0 .. at - 1 : g(j) < addr
          /\ \A j \in at .. f.callers_filled - 1 : addr < g(j)
      <4>1. Placed(d.mem, Root, addr, pos, <<0, f.callers_filled>>) /\ f = d.mem[Root]
        BY <1>4, <1>17 DEF f
      <4>2. Between(d.mem, Root, addr, <<0, f.callers_filled>>[1], <<0, f.callers_filled>>[2])
        <5>1. <<0, f.callers_filled>>[1] = 0 /\ <<0, f.callers_filled>>[2] = f.callers_filled
          OBVIOUS
        <5>2. \A j \in 0 .. 0 - 1 : FALSE
          OBVIOUS
        <5>3. \A j \in f.callers_filled .. f.callers_filled - 1 : FALSE
          BY <1>5
        <5> QED
          BY <4>1, <5>1, <5>2, <5>3, Zenon DEF Between
      <4>3. Between(d.mem, Root, addr, at, at)
        BY <1>2, <4>1, <4>2, Zenon DEF Placed, at
      <4> QED
        BY <4>1, <4>3, Zenon DEF Between
    <3> HIDE DEF g
    <3>6. ASSUME NEW j \in 0 .. f.callers_filled, NEW k \in 0 .. f.callers_filled, j < k
          PROVE  Faddr(M, Root, j) < Faddr(M, Root, k)
      <4>1. Faddr(M, Root, j) = IF j = at THEN addr ELSE IF at < j THEN g(j - 1) ELSE g(j)
        BY <3>2
      <4>2. Faddr(M, Root, k) = IF k = at THEN addr ELSE IF at < k THEN g(k - 1) ELSE g(k)
        BY <3>2
      <4>3. CASE k < at
        BY <1>4, <1>5, <3>4, <3>6, <4>1, <4>2, <4>3
      <4>4. CASE k = at
        BY <1>4, <1>5, <3>5, <3>6, <4>1, <4>2, <4>4
      <4>5. CASE at < k /\ j < at
        <5>1. j \in 0 .. at - 1 /\ k - 1 \in at .. f.callers_filled - 1
          BY <1>4, <1>5, <3>6, <4>5
        <5>2. g(j) < addr /\ addr < g(k - 1)
          BY <3>5, <5>1
        <5>3. g(j) \in Nat /\ g(k - 1) \in Nat
          BY <1>4, <1>5, <3>3, <5>1
        <5> QED
          BY <1>3, <1>6, <3>6, <4>1, <4>2, <4>5, <5>2, <5>3
      <4>6. CASE at < k /\ j = at
        <5>1. k - 1 \in at .. f.callers_filled - 1
          BY <1>4, <1>5, <3>6, <4>6
        <5> QED
          BY <1>6, <3>5, <4>1, <4>2, <4>6, <5>1
      <4>7. CASE at < k /\ at < j
        <5>1. j - 1 \in 0 .. f.callers_filled - 1 /\ k - 1 \in 0 .. f.callers_filled - 1 /\ j - 1 < k - 1
          BY <1>5, <1>6, <3>6, <4>7
        <5>2. g(j - 1) < g(k - 1)
          BY <3>4, <5>1
        <5> QED
          BY <1>6, <3>6, <4>1, <4>2, <4>7, <5>2
      <4> QED
        BY <1>6, <3>6, <4>3, <4>4, <4>5, <4>6, <4>7
    <3>7. InOrder(M, Root)
      <4>1. (f.callers_filled + 1) - 1 = f.callers_filled
        BY <1>5
      <4> QED
        BY <2>1, <3>6, <4>1, Zenon DEF InOrder
    <3> QED
      BY <1>18, <3>7
  <2> QED
    BY <2>3, <2>4
<1> QED
  BY <1>16, <1>17

(* What does not fit before does not fit afterwards.                       *)
LEMMA InsertFits ==
  ASSUME NEW d, NEW addr, Insert(d, addr).fits
  PROVE  d.fits
<1> DEFINE pos == Position(d.mem, d.cell, addr)
<1>1. Insert(d, addr).fits = (d.fits /\ Own(d) <= MaxArrays
                              /\ (pos.match \/ d.mem[d.cell].callers_filled < MaxCallers))
  <2>1. InsertsAs(Insert(d, addr), d, addr, pos, Own(d))
    BY InsertIs, Zenon
  <2> QED
    BY <2>1, Zenon DEF InsertsAs
<1> HIDE DEF pos
<1> QED
  BY <1>1, Zenon

(* One call of insert() that fits.                                         *)
LEMMA InsertKeeps ==
  ASSUME NEW d, WalkOK(d), NEW addr \in Addrs, NEW r, r = Insert(d, addr), r.fits
  PROVE  d.fits /\ WalkOK(r)
<1> DEFINE pos == Position(d.mem, d.cell, addr)
           own == Own(d)
<1>0. InsertsAs(r, d, addr, pos, own)
  BY InsertIs, Zenon
<1>1. /\ r.cell = <<own, pos.at>> /\ r.unused = d.unused
      /\ r.arrays = IF own > d.arrays THEN own ELSE d.arrays
      /\ r.fits = (d.fits /\ own <= MaxArrays /\ (pos.match \/ d.mem[d.cell].callers_filled < MaxCallers))
      /\ pos.match => r.mem = [d.mem EXCEPT ![<<own, pos.at>>].user = @ + 1]
      /\ ~pos.match => r.mem = [Added(d, own, pos.at, addr) EXCEPT ![<<own, pos.at>>].user = @ + 1]
  BY <1>0, Zenon DEF InsertsAs
<1> HIDE DEF pos, own
<1>2. d.fits /\ own <= MaxArrays /\ (pos.match \/ d.mem[d.cell].callers_filled < MaxCallers)
  BY <1>1, Zenon
<1>3. /\ own \in 1 .. MaxArrays /\ own <= d.arrays + 1
      /\ <<own, pos.at>> \in Cells
      /\ pos.match => pos.at \in 0 .. d.mem[d.cell].callers_filled - 1
      /\ d.cell = Root => own = 1
  BY <1>2, InsertPlace, Zenon DEF pos, own
<1>4. /\ MdbOK(d.mem, d.arrays) /\ d.arrays \in 0 .. MaxArrays /\ d.unused \in Nat /\ MaxArrays \in Nat
      /\ d.cell = Root \/ d.cell[1] \in 1 .. d.arrays
      /\ IF d.arrays = 0 THEN d.mem[Root].callers_filled = 0 ELSE d.mem[Root].callers = 1
  BY MdbConstants DEF WalkOK, MdbOK
<1>5. r.arrays \in d.arrays .. MaxArrays /\ r.arrays \in 1 .. MaxArrays /\ own \in 1 .. r.arrays
  BY <1>1, <1>3, <1>4
<1>6. MdbOK(r.mem, r.arrays)
  <2>1. CASE pos.match
    <3>1. d.arrays # 0
      <4>1. d.arrays = 0 => d.cell = Root /\ d.mem[d.cell].callers_filled = 0
        BY <1>4
      <4>2. pos.at \in 0 .. d.mem[d.cell].callers_filled - 1
        BY <1>3, <2>1, Zenon
      <4> QED
        BY <4>1, <4>2
    <3>2. r.mem = [d.mem EXCEPT ![<<own, pos.at>>].user = @ + 1]
      BY <1>1, <2>1, Zenon
    <3>3. d.arrays \in Nat /\ (d.arrays = 0 => r.arrays = 0)
      BY <1>4, <3>1
    <3> QED
      BY <1>3, <1>4, <1>5, <3>2, <3>3, MatchKeeps, ZenonT(60)
  <2>2. CASE ~pos.match
    <3>2. d.mem[d.cell].callers_filled < MaxCallers
      BY <1>2, <2>2, Zenon
    <3>3. pos = Position(d.mem, d.cell, addr) /\ own = Own(d)
      BY Zenon DEF pos, own
    <3> QED
      BY <1>0, <1>2, <2>2, <3>2, <3>3, AddKeeps, Zenon
  <2> QED
    BY <2>1, <2>2
<1>7. r.cell \in Cells /\ r.cell[1] \in 1 .. r.arrays
  BY <1>1, <1>3, <1>5
<1> QED
  BY <1>1, <1>2, <1>4, <1>6, <1>7, Zenon DEF WalkOK

(* The calls of insert(), one by one.                                      *)
Start(u) == [mem |-> mem, cell |-> Root, arrays |-> arrays, stale |-> stale, unused |-> u, fits |-> TRUE]
WalksTo(f, u, bt, n) ==
  f = [k \in 0 .. n |-> IF k = 0 THEN Start(u) ELSE Insert(f[k - 1], bt[k])]

(* There is such a walk for a backtrace of any length, call by call.       *)
LEMMA WalkExists ==
  ASSUME NEW u, NEW bt, NEW n \in Nat
  PROVE  \E f : WalksTo(f, u, bt, n)
<1> DEFINE T == {m \in 1 .. n + 1 : \E f : WalksTo(f, u, bt, m - 1)}
<1>1. 1 \in T
  <2> DEFINE f == [k \in 0 .. 1 - 1 |-> Start(u)]
  <2>1. \A k \in 0 .. 1 - 1 : k = 0
    OBVIOUS
  <2>2. WalksTo(f, u, bt, 1 - 1)
    BY <2>1, Zenon DEF WalksTo
  <2>3. 1 \in 1 .. n + 1
    OBVIOUS
  <2> QED
    BY <2>2, <2>3, Zenon
<1>2. ASSUME NEW m \in T, m < n + 1
      PROVE  m + 1 \in T
  <2>1. PICK f : WalksTo(f, u, bt, m - 1)
    OBVIOUS
  <2> DEFINE g == [k \in 0 .. (m + 1) - 1 |-> IF k = 0 THEN Start(u) ELSE Insert(f[k - 1], bt[k])]
  <2>2. m \in Nat /\ m >= 1 /\ m + 1 \in 1 .. n + 1
    BY <1>2
  <2>3. \A k \in 0 .. m - 1 : g[k] = f[k]
    <3>1. \A k \in 0 .. m - 1 : k \in 0 .. (m + 1) - 1
      BY <2>2
    <3> QED
      BY <2>1, <3>1, Zenon DEF WalksTo
  <2>4. ASSUME NEW k \in 0 .. (m + 1) - 1
        PROVE  g[k] = IF k = 0 THEN Start(u) ELSE Insert(g[k - 1], bt[k])
    <3>1. CASE k = 0
      BY <3>1, Zenon
    <3>2. CASE k # 0
      <4>1. k - 1 \in 0 .. m - 1
        BY <2>2, <3>2
      <4>2. g[k - 1] = f[k - 1]
        BY <2>3, <4>1, Zenon
      <4>3. g[k] = Insert(f[k - 1], bt[k])
        BY <3>2, Zenon
      <4> HIDE DEF g
      <4> QED
        BY <3>2, <4>2, <4>3, Zenon
    <3> QED
      BY <3>1, <3>2
  <2>5. g = [k \in 0 .. (m + 1) - 1 |-> g[k]]
    BY Zenon
  <2> HIDE DEF g
  <2>6. WalksTo(g, u, bt, (m + 1) - 1)
    BY <2>4, <2>5, Zenon DEF WalksTo
  <2> QED
    BY <2>2, <2>6, Zenon
<1>3. n + 1 \in T
  <2>1. T \in SUBSET Nat /\ n + 1 \in Nat /\ n + 1 \in 1 .. n + 1
    OBVIOUS
  <2> HIDE DEF T
  <2>2. 1 .. n + 1 \subseteq T
    BY <1>1, <1>2, <2>1, CountingUp, Zenon
  <2> QED
    BY <2>1, <2>2
<1>4. (n + 1) - 1 = n
  OBVIOUS
<1> QED
  BY <1>3, <1>4, Zenon

Steps(u, bt) == CHOOSE f : WalksTo(f, u, bt, Len(bt))

(* Walk is its last call.                                                  *)
LEMMA WalkIs ==
  ASSUME NEW u, NEW bt, Len(bt) \in Nat
  PROVE  /\ Walk(u, bt) = Steps(u, bt)[Len(bt)] /\ Steps(u, bt)[0] = Start(u)
         /\ \A k \in 1 .. Len(bt) : Steps(u, bt)[k] = Insert(Steps(u, bt)[k - 1], bt[k])
<1>1. Walk(u, bt) = Steps(u, bt)[Len(bt)]
  BY Zenon DEF Walk, Steps, WalksTo, Start
<1>2. WalksTo(Steps(u, bt), u, bt, Len(bt))
  <2>1. \E f : WalksTo(f, u, bt, Len(bt))
    BY WalkExists, Zenon
  <2> QED
    BY <2>1, Zenon DEF Steps
<1>3. \A k \in 0 .. Len(bt) :
        Steps(u, bt)[k] = IF k = 0 THEN Start(u) ELSE Insert(Steps(u, bt)[k - 1], bt[k])
  BY <1>2, Zenon DEF WalksTo
<1>4. 0 \in 0 .. Len(bt) /\ \A k \in 1 .. Len(bt) : k \in 0 .. Len(bt) /\ k # 0
  OBVIOUS
<1> QED
  BY <1>1, <1>3, <1>4, Zenon

(* The whole backtrace, as long as it fits.                                *)
LEMMA WalkKeeps ==
  ASSUME MdbOK(mem, arrays), NEW u \in Nat, NEW bt, Len(bt) \in Nat, \A k \in 1 .. Len(bt) : bt[k] \in Addrs,
         Walk(u, bt).fits
  PROVE  WalkOK(Walk(u, bt))
<1> DEFINE W == Steps(u, bt)
           T == {k \in 1 .. Len(bt) + 1 : W[k - 1].fits => WalkOK(W[k - 1])}
<1>1. Walk(u, bt) = W[Len(bt)] /\ W[0] = Start(u) /\ \A k \in 1 .. Len(bt) : W[k] = Insert(W[k - 1], bt[k])
  BY WalkIs
<1>2. WalkOK(W[0])
  <2>1. Start(u).mem = mem /\ Start(u).cell = Root /\ Start(u).arrays = arrays /\ Start(u).unused = u
    BY DEF Start
  <2>2. WalkOK(Start(u))
    BY <2>1, MdbConstants, Zenon DEF WalkOK
  <2> QED
    BY <1>1, <2>2, Zenon
<1> HIDE DEF W
<1>3. 1 \in T
  BY <1>2
<1>4. ASSUME NEW k \in T, k < Len(bt) + 1
      PROVE  k + 1 \in T
  <2>1. k \in 1 .. Len(bt) /\ k + 1 \in 1 .. Len(bt) + 1 /\ (k + 1) - 1 = k
    BY <1>4
  <2>2. ASSUME W[k].fits
        PROVE  WalkOK(W[k])
    <3>1. W[k] = Insert(W[k - 1], bt[k]) /\ bt[k] \in Addrs
      BY <1>1, <2>1, Zenon
    <3>2. W[k - 1].fits
      <4>1. Insert(W[k - 1], bt[k]).fits
        BY <2>2, <3>1, Zenon
      <4> QED
        BY <4>1, InsertFits, Zenon
    <3>3. WalkOK(W[k - 1])
      BY <3>2
    <3> QED
      BY <2>2, <3>1, <3>3, InsertKeeps, Zenon
  <2> QED
    BY <2>1, <2>2
<1>5. Len(bt) + 1 \in T
  <2>1. T \in SUBSET Nat /\ Len(bt) + 1 \in Nat /\ Len(bt) + 1 \in 1 .. Len(bt) + 1
    OBVIOUS
  <2> HIDE DEF T
  <2>2. 1 .. Len(bt) + 1 \subseteq T
    BY <1>3, <1>4, <2>1, CountingUp, Zenon
  <2> QED
    BY <2>1, <2>2
<1>6. (Len(bt) + 1) - 1 = Len(bt)
  OBVIOUS
<1>7. W[Len(bt)].fits => WalkOK(W[Len(bt)])
  BY <1>5, <1>6, Zenon
<1>8. W[Len(bt)].fits
  BY <1>1, Zenon
<1> QED
  BY <1>1, <1>7, <1>8, Zenon

-----------------------------------------------------------------------------
(* A recorded block: every way mdb_add() can go keeps the frames in order. *)
LEMMA AddsKeep ==
  ASSUME MdbOK(mem, arrays), NEW ptr, NEW bt \in Traces, mdb_add(ptr, bt)
  PROVE  MdbOK(mem, arrays)'
<1>1. PICK u \in Unused : Walk(u, bt).fits /\ mem' = Walk(u, bt).mem /\ arrays' = Walk(u, bt).arrays
  BY Zenon DEF mdb_add
<1>2. u \in Nat
  BY MdbAssumption
<1>3. Len(bt) \in Nat /\ \A k \in 1 .. Len(bt) : bt[k] \in Addrs
  BY MdbConstants, Zenon
<1>4. WalkOK(Walk(u, bt))
  BY <1>1, <1>2, <1>3, WalkKeeps, Zenon
<1>5. MdbOK(Walk(u, bt).mem, Walk(u, bt).arrays)
  BY <1>4, Zenon DEF WalkOK
<1>6. MdbOK(mem', arrays')
  BY <1>1, <1>5, Zenon
<1> QED
  BY <1>6 DEF MdbOK, InOrder, Faddr

(* Counting down along the stack of a block that is freed does too.        *)
LEMMA DelKeeps ==
  ASSUME MdbOK(mem, arrays), NEW ptr, mdb_del(ptr)
  PROVE  MdbOK(mem, arrays)'
<1>1. mem \in [Cells -> Frames] /\ arrays \in 0 .. MaxArrays /\ MaxArrays \in Nat
  BY MdbConstants DEF MdbOK
<1>2. arrays' = arrays
  BY Zenon DEF mdb_del
<1>3. \/ mem' = mem
      \/ \E stack : /\ \A c \in stack : mem[c].user > 0
                    /\ mem' = [c \in Cells |-> IF c \in stack THEN [mem[c] EXCEPT !.user = @ - 1]
                                               ELSE mem[c]]
  BY Zenon DEF mdb_del
<1>4. mem' \in [Cells -> Frames] /\ SameShape(mem, mem')
  <2>1. CASE mem' = mem
    BY <1>1, <2>1 DEF SameShape
  <2>2. ASSUME NEW stack, \A c \in stack : mem[c].user > 0,
               mem' = [c \in Cells |-> IF c \in stack THEN [mem[c] EXCEPT !.user = @ - 1] ELSE mem[c]]
        PROVE  mem' \in [Cells -> Frames] /\ SameShape(mem, mem')
    <3>1. ASSUME NEW c \in Cells
          PROVE  /\ mem'[c] \in Frames /\ mem'[c].callers = mem[c].callers
                 /\ mem'[c].callers_filled = mem[c].callers_filled /\ mem'[c].faddr = mem[c].faddr
      <4>1. mem[c] \in Frames
        BY <1>1
      <4>2. mem'[c] = IF c \in stack THEN [mem[c] EXCEPT !.user = @ - 1] ELSE mem[c]
        BY <2>2
      <4>3. c \in stack => mem[c].user - 1 \in Nat
        BY <2>2, <4>1 DEF Frames
      <4> QED
        BY <4>1, <4>2, <4>3 DEF Frames
    <3>2. mem' \in [Cells -> Frames]
      BY <2>2, <3>1
    <3>3. SameShape(mem, mem')
      BY <3>1, Zenon DEF SameShape
    <3> QED
      BY <3>2, <3>3
  <2> QED
    BY <1>3, <2>1, <2>2
<1>5. MdbOK(mem', arrays')
  <2>1. arrays \in Nat /\ arrays \in arrays .. MaxArrays
    BY <1>1
  <2> QED
    BY <1>2, <1>4, <2>1, ShapeKeeps, Zenon
<1> QED
  BY <1>5 DEF MdbOK, InOrder, Faddr

(* Every other step leaves the database alone.                             *)
LEMMA FramesKept ==
  ASSUME MdbOK(mem, arrays), [Next]_vars
  PROVE  MdbOK(mem, arrays)'
<1>1. CASE UNCHANGED mdb
  BY <1>1 DEF mdb, MdbOK, InOrder, Faddr
<1>2. ASSUME NEW t \in Threads, Record(t)
      PROVE  MdbOK(mem, arrays)'
  <2>1. UNCHANGED mdb \/ \E ptr, bt : bt \in Traces /\ mdb_add(ptr, bt)
    BY <1>2, Zenon DEF Record
  <2> QED
    BY <1>1, <2>1, AddsKeep, Zenon
<1>3. ASSUME NEW t \in Threads, Del(t)
      PROVE  MdbOK(mem, arrays)'
  <2>1. mdb_del(arg[t])
    BY <1>3, Zenon DEF Del
  <2> QED
    BY <2>1, DelKeeps, Zenon
<1>4. \/ UNCHANGED mdb
      \/ \E t \in Threads : Record(t) \/ Del(t)
  BY Zenon DEF Next, Thread, Malloc, MallocLock, Reset, Plain, Free, FreeLock, Unlock, Release, Exit,
               Ended, vars
<1> QED
  BY <1>1, <1>2, <1>3, <1>4, Zenon

(* An empty database is in order.                                          *)
LEMMA FramesStart == Init => MdbOK(mem, arrays)
<1> SUFFICES ASSUME Init
             PROVE  MdbOK(mem, arrays)
  OBVIOUS
<1>1. mem = [c \in Cells |-> Fresh(0)] /\ arrays = 0
  BY DEF Init, MdbInit
<1>2. Root \in Cells /\ MaxArrays \in Nat /\ MaxCallers \in Nat
  BY MdbConstants
<1>3. Fresh(0) \in Frames /\ Fresh(0).callers = 0 /\ Fresh(0).callers_filled = 0
  BY <1>2 DEF Fresh, Frames
<1>4. mem \in [Cells -> Frames] /\ \A c \in Cells : mem[c].callers = 0 /\ mem[c].callers_filled = 0
  BY <1>1, <1>3
<1>5. InOrder(mem, Root)
  BY <1>2, <1>4 DEF InOrder
<1> QED
  BY <1>1, <1>2, <1>4, <1>5 DEF MdbOK

(* And stays so.                                                           *)
LEMMA FramesAlways == Spec => []MdbOK(mem, arrays)
BY FramesStart, FramesKept, PTL DEF Spec

(* The frames below the root stay in the order of their addresses, each    *)
(* once, whatever backtraces come in which order and however often frames  *)
(* are moved to make room for others.                                      *)
THEOREM CallersStaySorted == Spec => []CallersSorted
<1>1. MdbOK(mem, arrays) => CallersSorted
  BY DEF MdbOK, InOrder, Faddr, CallersSorted
<1> QED
  BY <1>1, FramesAlways, PTL

(* What the order is for: the binary search finds an address among the     *)
(* root's callers exactly when it is there, so insert() never adds a       *)
(* second frame for it.                                                    *)
SearchIsRight ==
  \A addr \in Addrs :
    Position(mem, Root, addr).match <=>
      \E k \in 0 .. mem[Root].callers_filled - 1 : mem[<<mem[Root].callers, k>>].faddr = addr

(* Through every insertion, with any backtraces, the search of the root's  *)
(* callers is right.                                                       *)
THEOREM RootSearchIsRight == Spec => []SearchIsRight
<1>1. ASSUME MdbOK(mem, arrays)
      PROVE  SearchIsRight
  <2> SUFFICES ASSUME NEW addr \in Addrs
               PROVE  Position(mem, Root, addr).match <=>
                        \E k \in 0 .. mem[Root].callers_filled - 1 : Faddr(mem, Root, k) = addr
    BY Zenon DEF SearchIsRight, Faddr
  <2> DEFINE n == mem[Root].callers_filled
             pos == Position(mem, Root, addr)
  <2>1. mem \in [Cells -> Frames] /\ InOrder(mem, Root) /\ Root \in Cells /\ addr \in Int /\ MaxCallers \in Nat
    BY <1>1, MdbConstants DEF MdbOK
  <2>2. n \in 0 .. MaxCallers /\ n \in Nat /\ mem[Root].callers \in 0 .. MaxArrays
    BY <2>1, FrameIs
  <2>3. ASSUME NEW k \in 0 .. n - 1
        PROVE  Faddr(mem, Root, k) \in Int
    <3>1. k \in 0 .. MaxCallers - 1
      BY <2>1, <2>2
    <3>2. <<mem[Root].callers, k>> \in Cells
      BY <2>2, <3>1, Zenon DEF Cells
    <3>3. mem[<<mem[Root].callers, k>>].faddr \in Nat
      BY <2>1, <3>2, FrameIs
    <3> QED
      BY <3>3 DEF Faddr
  <2>4. Found(mem, Root, addr, pos) /\ Placed(mem, Root, addr, pos, <<0, n>>)
    BY <2>1, <2>2, <2>3, PositionFinds
  <2> HIDE DEF pos
  <2>5. ASSUME pos.match
        PROVE  \E k \in 0 .. n - 1 : Faddr(mem, Root, k) = addr
    BY <2>4, <2>5, Zenon DEF Found
  <2>6. ASSUME ~pos.match, NEW k \in 0 .. n - 1
        PROVE  Faddr(mem, Root, k) # addr
    <3>1. Between(mem, Root, addr, 0, n)
      BY <2>2 DEF Between
    <3>2. pos.at \in 0 .. n /\ Between(mem, Root, addr, pos.at, pos.at)
      BY <2>1, <2>4, <2>6, <3>1 DEF Placed
    <3>3. CASE k < pos.at
      <4>1. Faddr(mem, Root, k) < addr
        BY <2>2, <3>2, <3>3 DEF Between
      <4> QED
        BY <2>1, <2>3, <4>1
    <3>4. CASE ~(k < pos.at)
      <4>1. addr < Faddr(mem, Root, k)
        BY <2>2, <3>2, <3>4 DEF Between
      <4> QED
        BY <2>1, <2>3, <4>1
    <3> QED
      BY <3>3, <3>4
  <2> QED
    BY <2>5, <2>6, Zenon DEF pos
<1> QED
  BY <1>1, FramesAlways, PTL

-----------------------------------------------------------------------------
(* What one recorded block changes has the types of the variables.         *)
LEMMA AddTypes ==
  ASSUME MdbTypeOK, MdbOK(mem, arrays), NEW ptr \in Ptrs, NEW bt \in Traces, mdb_add(ptr, bt)
  PROVE  MdbTypeOK'
<1>1. PICK u \in Unused :
        /\ Walk(u, bt).fits /\ mem' = Walk(u, bt).mem /\ arrays' = Walk(u, bt).arrays
        /\ stale' = Walk(u, bt).stale /\ failed' = failed
        /\ pairdb' = Append(pairdb, [ptr |-> ptr, frame |-> Walk(u, bt).cell, by |-> bt])
  BY Zenon DEF mdb_add
<1>2. u \in Nat /\ Len(bt) \in Nat /\ \A k \in 1 .. Len(bt) : bt[k] \in Addrs
  BY MdbAssumption, MdbConstants
<1>3. WalkOK(Walk(u, bt))
  BY <1>1, <1>2, WalkKeeps, Zenon
<1>4. mem' \in [Cells -> Frames] /\ arrays' \in 0 .. MaxArrays /\ Walk(u, bt).cell \in Cells
  BY <1>1, <1>3, Zenon DEF WalkOK, MdbOK
<1>5. stale' \in BOOLEAN
  <2> DEFINE W == Steps(u, bt)
             d == W[Len(bt) - 1]
             pos == Position(d.mem, d.cell, bt[Len(bt)])
  <2>1. Len(bt) \in 1 .. Len(bt)
    BY MdbAssumption
  <2>2. Walk(u, bt) = W[Len(bt)] /\ \A k \in 1 .. Len(bt) : W[k] = Insert(W[k - 1], bt[k])
    BY <1>2, WalkIs
  <2>3. Walk(u, bt) = Insert(d, bt[Len(bt)])
    BY <2>1, <2>2, Zenon
  <2> HIDE DEF d
  <2>4. InsertsAs(Walk(u, bt), d, bt[Len(bt)], pos, Own(d))
    BY <2>3, InsertIs, Zenon
  <2> HIDE DEF pos
  <2>5. Walk(u, bt).stale = ((d.stale \/ (~pos.match /\ pos.at < d.mem[d.cell].callers_filled))
                             \/ (Own(d) > d.arrays /\ d.unused # 0))
    BY <2>4, Zenon DEF InsertsAs
  <2>6. \A a, b : (a \/ b) \in BOOLEAN
    OBVIOUS
  <2> QED
    BY <1>1, <2>5, <2>6, Zenon
<1>6. pairdb' \in Seq([ptr : Ptrs, frame : Cells, by : Traces])
  <2>1. [ptr |-> ptr, frame |-> Walk(u, bt).cell, by |-> bt] \in [ptr : Ptrs, frame : Cells, by : Traces]
    BY <1>4
  <2>2. pairdb \in Seq([ptr : Ptrs, frame : Cells, by : Traces])
    BY DEF MdbTypeOK
  <2>3. \A T, s, e : s \in Seq(T) /\ e \in T => Append(s, e) \in Seq(T)
    OBVIOUS
  <2> QED
    BY <1>1, <2>1, <2>2, <2>3, Zenon
<1>7. failed' \in BOOLEAN
  BY <1>1 DEF MdbTypeOK
<1> QED
  BY <1>4, <1>5, <1>6, <1>7 DEF MdbTypeOK

(* So has what one freed block changes.                                    *)
LEMMA DelTypes ==
  ASSUME MdbTypeOK, MdbOK(mem, arrays), NEW ptr, mdb_del(ptr)
  PROVE  MdbTypeOK'
<1> DEFINE Pairs == [ptr : Ptrs, frame : Cells, by : Traces]
<1>1. pairdb \in Seq(Pairs) /\ IsList(pairdb)
  BY DEF MdbTypeOK, IsList
<1>2. mem' \in [Cells -> Frames] /\ arrays' \in 0 .. MaxArrays
  <2>1. MdbOK(mem, arrays)'
    BY DelKeeps
  <2> QED
    BY <2>1 DEF MdbOK
<1>3. stale' = stale /\ (failed' = failed \/ failed' = TRUE)
  BY Zenon DEF mdb_del
<1>4. pairdb' \in Seq(Pairs)
  <2> HIDE DEF Pairs
  <2>1. CASE pairdb' = pairdb
    BY <1>1, <2>1
  <2>2. ASSUME NEW k \in 1 .. Len(pairdb), pairdb' = RemoveAt(pairdb, k)
        PROVE  pairdb' \in Seq(Pairs)
    BY <1>1, <2>2, RemoveAtKeepsOthers, Zenon
  <2> QED
    BY <1>1, <2>1, <2>2, DelTakesOne, Zenon
<1> QED
  BY <1>2, <1>3, <1>4 DEF MdbTypeOK

(* The hook's own variables: a block that is missed is one of a thread in  *)
(* free().                                                                 *)
HookTypes ==
  /\ lock \in Threads \cup {None} /\ internal \in BOOLEAN /\ term \in BOOLEAN
  /\ missed \subseteq Ptrs /\ calls \in 0 .. MaxCalls

(* The hook's own variables keep their types.                              *)
LEMMA HookTypesKept ==
  ASSUME FreeInv, HookTypes, [Next]_vars
  PROVE  HookTypes'
<1> USE MHookAssumption DEF HookTypes, Step
<1>1. ASSUME NEW t \in Threads, Malloc(t) PROVE HookTypes'
  BY <1>1 DEF Malloc, hook
<1>2. ASSUME NEW t \in Threads, MallocLock(t) PROVE HookTypes'
  BY <1>2 DEF MallocLock, heap
<1>3. ASSUME NEW t \in Threads, Record(t) PROVE HookTypes'
  BY <1>3 DEF Record, hook
<1>4. ASSUME NEW t \in Threads, Reset(t) PROVE HookTypes'
  BY <1>4 DEF Reset, heap
<1>5. ASSUME NEW t \in Threads, Plain(t) PROVE HookTypes'
  BY <1>5 DEF Plain, hook
<1>6. ASSUME NEW t \in Threads, Free(t) PROVE HookTypes'
  BY <1>6 DEF Free, hook, FreeInv
<1>7. ASSUME NEW t \in Threads, FreeLock(t) PROVE HookTypes'
  BY <1>7 DEF FreeLock, FreeInv
<1>8. ASSUME NEW t \in Threads, Del(t) PROVE HookTypes'
  BY <1>8 DEF Del, hook, heap
<1>9. ASSUME NEW t \in Threads, Unlock(t) PROVE HookTypes'
  BY <1>9 DEF Unlock, heap
<1>10. ASSUME NEW t \in Threads, Release(t) PROVE HookTypes'
  BY <1>10 DEF Release, hook
<1>11. CASE Exit
  BY <1>11 DEF Exit, heap
<1>12. CASE UNCHANGED vars
  BY <1>12 DEF vars, hook, heap
<1> QED
  BY <1>1, <1>2, <1>3, <1>4, <1>5, <1>6, <1>7, <1>8, <1>9, <1>10, <1>11, <1>12
     DEF Next, Thread, Ended

(* The frames and the record keep their types, whoever records or frees.   *)
LEMMA MdbTypesKept ==
  ASSUME MdbTypeOK, MdbOK(mem, arrays), [Next]_vars
  PROVE  MdbTypeOK'
<1>1. CASE UNCHANGED mdb
  BY <1>1 DEF mdb, MdbTypeOK
<1>2. ASSUME NEW t \in Threads, Record(t)
      PROVE  MdbTypeOK'
  <2>1. UNCHANGED mdb \/ \E ptr \in Ptrs, bt \in Traces : mdb_add(ptr, bt)
    <3>1. \E ptr \in Ptrs \cup {None} :
            (ptr = None /\ UNCHANGED mdb) \/ (ptr # None /\ \E bt \in Traces : mdb_add(ptr, bt))
      BY <1>2, Zenon DEF Record
    <3> QED
      BY <3>1, Zenon
  <2> QED
    BY <1>1, <2>1, AddTypes, Zenon
<1>3. ASSUME NEW t \in Threads, Del(t)
      PROVE  MdbTypeOK'
  <2>1. mdb_del(arg[t])
    BY <1>3, Zenon DEF Del
  <2> QED
    BY <2>1, DelTypes, Zenon
<1>4. \/ UNCHANGED mdb
      \/ \E t \in Threads : Record(t) \/ Del(t)
  BY Zenon DEF Next, Thread, Malloc, MallocLock, Reset, Plain, Free, FreeLock, Unlock, Release, Exit,
               Ended, vars
<1> QED
  BY <1>1, <1>2, <1>3, <1>4, Zenon

(* The variables keep their types for any threads, blocks and backtraces:  *)
(* no insert() goes outside the arrays of callers it has room in, and only *)
(* blocks that malloc() gave out are in the record or missed.              *)
THEOREM TypeCorrect == Spec => []TypeOK
<1>1. Init => MdbTypeOK /\ HookTypes
  <2>1. <<>> \in Seq([ptr : Ptrs, frame : Cells, by : Traces])
    OBVIOUS
  <2>2. Init => mem \in [Cells -> Frames] /\ arrays \in 0 .. MaxArrays
    BY FramesStart DEF MdbOK
  <2>3. Init => pairdb = <<>> /\ stale \in BOOLEAN /\ failed \in BOOLEAN
    BY DEF Init, MdbInit
  <2>4. Init => MdbTypeOK
    BY <2>1, <2>2, <2>3, Zenon DEF MdbTypeOK
  <2>5. Init => HookTypes
    <3>1. 0 \in 0 .. MaxCalls
      BY MHookAssumption
    <3>2. Init => lock = None /\ internal \in BOOLEAN /\ term \in BOOLEAN /\ missed = {} /\ calls = 0
      BY DEF Init
    <3> QED
      BY <3>1, <3>2, Zenon DEF HookTypes
  <2> QED
    BY <2>4, <2>5
<1>2. LockInv /\ FreeInv /\ MdbTypeOK /\ HookTypes => TypeOK
  BY DEF LockInv, FreeInv, HookTypes, TypeOK
<1> QED
  BY <1>1, <1>2, LockAlways, RecordAlways, FramesAlways, HookTypesKept, MdbTypesKept, PTL DEF Spec
=============================================================================

-------------------------------- MODULE Mdb --------------------------------
(***************************************************************************)
(* mtrace/mdb.c: which blocks have been allocated, by which backtrace.     *)
(*                                                                         *)
(* Every level of the call tree keeps an array of struct aframe, sorted by *)
(* address.  Frames lie in their array by value: inserting one in front of *)
(* others moves those with memmove(), while the pairs and the frames one   *)
(* level up the stack keep the addresses of where they were.  So a pointer *)
(* to a frame is modelled by the cell it points to, array and index.       *)
(***************************************************************************)
EXTENDS Integers, FiniteSets, SequencesExt

CONSTANTS
  Ptrs,        (* what malloc() may return, besides NULL                   *)
  Traces,      (* backtraces, innermost address first                      *)
  MaxArrays,   (* bound: arrays of callers                                 *)
  MaxCallers,  (* bound: their length; the code's grows by 256 at a time,  *)
               (* and a second realloc() of one is not modelled            *)
  Unused,      (* what user may be in memory that realloc() gives out      *)
  None         (* NULL                                                     *)

Addrs == UNION {Range(bt) : bt \in Traces}
Depth == Max({Len(bt) : bt \in Traces})

ASSUME MdbAssumption ==
  /\ MaxArrays \in Nat /\ MaxCallers \in Nat \ {0} /\ Unused \subseteq Nat
  /\ Traces \subseteq Seq(Nat \ {0}) /\ <<>> \notin Traces
  /\ None \notin Ptrs

(* There are backtraces, and as backtrace() is asked for num_frame          *)
(* addresses there is a longest one.                                       *)
ASSUME DepthAssumption == Traces # {} /\ IsFiniteSet({Len(bt) : bt \in Traces})

(* Array 0 is the variable root, which has no address, callers = 0 is NULL.*)
Cells  == (0..MaxArrays) \X (0..(MaxCallers - 1))
Root   == <<0, 0>>
Frames == [user : Nat, faddr : Addrs \cup {0}, callee : Cells,
           callers_filled : 0..MaxCallers, callers : 0..MaxArrays]
(* A frame nobody has filled in.  Of what else was in its memory only user *)
(* is modelled: a callers_filled from before ends the process.             *)
Fresh(user) == [user |-> user, faddr |-> 0, callee |-> Root, callers_filled |-> 0, callers |-> 0]

VARIABLES
  mem,     (* the frames                                                   *)
  arrays,  (* arrays allocated so far                                      *)
  pairdb,  (* recorded blocks, oldest first; "by" is not in the code       *)
  stale,   (* whether memmove() has moved a frame, or an array lies in     *)
           (* memory that was not zero; not in the code                    *)
  failed   (* the assertion of mdb_del() has failed                        *)

mdb == <<mem, arrays, pairdb, stale, failed>>

MdbTypeOK ==
  /\ mem \in [Cells -> Frames] /\ arrays \in 0..MaxArrays
  /\ pairdb \in Seq([ptr : Ptrs, frame : Cells, by : Traces])
  /\ stale \in BOOLEAN /\ failed \in BOOLEAN

MdbInit ==
  /\ mem = [c \in Cells |-> Fresh(0)] /\ arrays = 0
  /\ pairdb = <<>> /\ stale = FALSE /\ failed = FALSE

-----------------------------------------------------------------------------
(* Mutant: a new frame goes behind the others. *)
PositionLast(m, frame, addr) ==
  LET here == {k \in 0..(m[frame].callers_filled - 1) : m[<<m[frame].callers, k>>].faddr = addr}
  IN  IF here = {} THEN [at |-> m[frame].callers_filled, match |-> FALSE]
      ELSE [at |-> Min(here), match |-> TRUE]

(* The binary search: where addr is or belongs among frame's callers. *)
Position(m, frame, addr) ==
  LET at(k) == m[<<m[frame].callers, k>>].faddr
      n == m[frame].callers_filled
      search[p \in {q \in (0..n) \X (0..n) : q[1] <= q[2]}] ==
        LET s == p[1]
            e == p[2]
            k == s + (e - s) \div 2
        IN  IF s = e THEN [at |-> s, match |-> FALSE]
            ELSE IF at(k) = addr THEN [at |-> k, match |-> TRUE]
            ELSE IF at(k) < addr THEN search[<<k + 1, e>>] ELSE search[<<s, k>>]
  IN  search[<<0, n>>]

(* One call of insert().  The new cell's address, depth and callee are set;*)
(* its user and its callers stay what was in that memory.  It fits as long *)
(* as no bound is reached.                                                 *)
Insert(d, addr) ==
  LET frame == d.mem[d.cell]
      pos   == Position(d.mem, d.cell, addr)
      own   == IF frame.callers = 0 THEN d.arrays + 1 ELSE frame.callers
      cell  == <<own, pos.at>>
      slid  == [c \in Cells |->
                  IF c[1] # own THEN d.mem[c]
                  ELSE IF own > d.arrays THEN Fresh(d.unused)
                  ELSE IF pos.at < c[2] /\ c[2] <= frame.callers_filled THEN d.mem[<<own, c[2] - 1>>]
                  ELSE d.mem[c]]
      added == [slid EXCEPT ![cell].faddr = addr, ![cell].callee = d.cell,
                            ![d.cell].callers = own, ![d.cell].callers_filled = @ + 1]
      m     == IF pos.match THEN d.mem ELSE added
  IN  [mem    |-> [m EXCEPT ![cell].user = @ + 1],
       cell   |-> cell,
       arrays |-> IF own > d.arrays THEN own ELSE d.arrays,
       stale  |-> \/ d.stale \/ (~pos.match /\ pos.at < frame.callers_filled)
                  \/ own > d.arrays /\ d.unused # 0,
       unused |-> d.unused,
       fits   |-> d.fits /\ own <= MaxArrays /\ (pos.match \/ frame.callers_filled < MaxCallers)]

(* The calls of insert(), one for each address of the backtrace. *)
Walk(u, bt) ==
  LET at[k \in 0..Len(bt)] ==
        IF k = 0 THEN [mem |-> mem, cell |-> Root, arrays |-> arrays, stale |-> stale,
                       unused |-> u, fits |-> TRUE]
        ELSE Insert(at[k - 1], bt[k])
  IN  at[Len(bt)]

(* Mutant: the pair is given the frame one level up. *)
mdb_addCallee(ptr, bt) ==
  /\ \E u \in Unused :
       LET d == Walk(u, bt)
       IN  /\ d.fits
           /\ mem' = d.mem /\ arrays' = d.arrays /\ stale' = d.stale
           /\ pairdb' = Append(pairdb, [ptr |-> ptr, frame |-> d.mem[d.cell].callee, by |-> bt])
  /\ UNCHANGED failed

mdb_add(ptr, bt) ==
  /\ \E u \in Unused :
       LET d == Walk(u, bt)
       IN  /\ d.fits
           /\ mem' = d.mem /\ arrays' = d.arrays /\ stale' = d.stale
           /\ pairdb' = Append(pairdb, [ptr |-> ptr, frame |-> d.cell, by |-> bt])
  /\ UNCHANGED failed

(* The cells from a frame up to below the root, as callee links them. *)
Stack(cell) ==
  LET up[k \in 1..Depth] ==
        IF k = 1 THEN cell ELSE IF up[k - 1] = Root THEN Root ELSE mem[up[k - 1]].callee
  IN  {up[k] : k \in 1..Depth} \ {Root}

(* The oldest pair with this address goes; "unknown addr." changes nothing.*)
mdb_del(ptr) ==
  LET k == SelectInSeq(pairdb, LAMBDA pair : pair.ptr = ptr) IN
  /\ UNCHANGED <<arrays, stale>>
  /\ \/ k = 0 /\ UNCHANGED <<mem, pairdb, failed>>
     \/ /\ k # 0
        /\ pairdb' = RemoveAt(pairdb, k)
        /\ LET stack == Stack(pairdb[k].frame) IN
             \/ /\ \A c \in stack : mem[c].user > 0
                /\ mem' = [c \in Cells |-> IF c \in stack THEN [mem[c] EXCEPT !.user = @ - 1]
                                                          ELSE mem[c]]
                /\ UNCHANGED failed
             \/ /\ \E c \in stack : mem[c].user = 0
                /\ failed' = TRUE
                /\ UNCHANGED mem

(* What do_dump() prints: address path and "not freed count" of the frames *)
(* without callers that it gets to through frames with a count.            *)
do_dump ==
  LET callers(c) == {<<mem[c].callers, k>> : k \in 0..(mem[c].callers_filled - 1)}
      walks[n \in 0..Depth] ==
        IF n = 0 THEN {<<Root>>}
        ELSE UNION {{Append(w, c) : c \in {k \in callers(w[n]) : mem[k].user > 0}} : w \in walks[n - 1]}
      leaves == {w \in UNION {walks[n] : n \in 1..Depth} : mem[Last(w)].callers_filled = 0}
  IN  {<<[k \in 1..(Len(w) - 1) |-> mem[w[k + 1]].faddr], mem[Last(w)].user>> : w \in leaves}

-----------------------------------------------------------------------------
(* The frames below the root are in the order of their addresses, each     *)
(* once, through every memmove(): the binary search finds what is there.   *)
CallersSorted ==
  \A j, k \in 0..(mem[Root].callers_filled - 1) :
    j < k => mem[<<mem[Root].callers, j>>].faddr < mem[<<mem[Root].callers, k>>].faddr

(* As long as backtraces come in ascending order, so that no frame has     *)
(* been moved, and realloc() gives out memory that is zero, "not freed     *)
(* count" is printed for exactly the backtraces that have recorded blocks, *)
(* with their number (none of the backtraces being the beginning of        *)
(* another).                                                               *)
DumpTells ==
  ~stale =>
    LET blocks(bt) == {k \in DOMAIN pairdb : pairdb[k].by = bt}
    IN  do_dump = {<<bt, Cardinality(blocks(bt))>> : bt \in {tr \in Traces : blocks(tr) # {}}}

(* assert (frame->user > 0), mdb.c:156. *)
AssertionHolds == ~failed
=============================================================================

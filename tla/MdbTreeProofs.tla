--------------------------- MODULE MdbTreeProofs ---------------------------
(***************************************************************************)
(* The call tree of Mdb as a whole: while no frame has been moved, every   *)
(* frame stands for one path of addresses, its count is the number of      *)
(* recorded blocks whose backtrace goes through it, mdb_del() finds all of *)
(* a block's frames, and the dump prints the backtraces that have blocks.  *)
(***************************************************************************)
EXTENDS MHookProofs

(* p is how q begins. *)
Begins(p, q) == Len(p) <= Len(q) /\ \A i \in 1 .. Len(p) : p[i] = q[i]

(* The frames that have been filled in. *)
InUse(m) == {c \in Cells : c = Root \/ m[c].faddr # 0}

(* Every frame is the caller of its callee, and its path goes one further. *)
Linked(m, path) ==
  /\ path \in [Cells -> Seq(Nat)] /\ path[Root] = <<>> /\ m[Root].faddr = 0
  /\ \A c \in InUse(m) \ {Root} :
       /\ m[c].callee \in InUse(m) /\ m[m[c].callee].callers = c[1] /\ c[2] < m[m[c].callee].callers_filled
       /\ path[c] = Append(path[m[c].callee], m[c].faddr)

(* The callers of a frame, and what is in the cells nobody has filled in.  *)
Rows(m) ==
  /\ \A o \in InUse(m) :
       /\ m[o].callers = 0 <=> m[o].callers_filled = 0
       /\ InOrder(m, o)
       /\ \A k \in 0 .. m[o].callers_filled - 1 :
            /\ <<m[o].callers, k>> \in InUse(m) \ {Root}
            /\ m[<<m[o].callers, k>>].callee = o
  /\ \A c \in Cells \ InUse(m) : m[c].user = 0 /\ m[c].callers = 0 /\ m[c].callers_filled = 0

(* No two frames stand for the same path. *)
Distinct(m, path) ==
  \A c, d \in InUse(m) : Len(path[c]) = Len(path[d]) /\ Begins(path[c], path[d]) => c = d

(* A path has all its beginnings in the tree, and is how a backtrace begins. *)
Reached(m, path) ==
  \A c \in InUse(m) :
    /\ \A n \in 0 .. Len(path[c]) : \E d \in InUse(m) : Len(path[d]) = n /\ Begins(path[d], path[c])
    /\ \E bt \in Traces : Begins(path[c], bt)

Tree(m, path) == Linked(m, path) /\ Rows(m) /\ Distinct(m, path) /\ Reached(m, path)

(* The recorded blocks whose backtrace goes through p. *)
Through(pairs, p) == {k \in 1 .. Len(pairs) : Begins(p, pairs[k].by)}

(* A block's frame is the one at the end of its backtrace. *)
Held(m, path, pairs) ==
  \A j \in 1 .. Len(pairs) :
    pairs[j].frame \in InUse(m) /\ path[pairs[j].frame] = pairs[j].by /\ pairs[j].by \in Traces

(* The counts, when the first k addresses of bt have been inserted. *)
CountAt(p, pairs, bt, k) ==
  Cardinality(Through(pairs, p)) + IF Begins(p, bt) /\ Len(p) <= k THEN 1 ELSE 0
Counted(m, path, pairs, bt, k) ==
  \A c \in InUse(m) \ {Root} : m[c].user = CountAt(path[c], pairs, bt, k)

(* The frame that insert() has got to. *)
OnWay(d, path, bt, k) == d.cell \in InUse(d.mem) /\ Len(path[d.cell]) = k /\ Begins(path[d.cell], bt)
Accounts(d, path, pairs, bt, k) ==
  Tree(d.mem, path) /\ Held(d.mem, path, pairs) /\ Counted(d.mem, path, pairs, bt, k) /\ OnWay(d, path, bt, k)

-----------------------------------------------------------------------------
(* One address more. *)
LEMMA OneFurther ==
  ASSUME NEW p \in Seq(Nat), NEW a \in Nat
  PROVE  /\ Append(p, a) \in Seq(Nat) /\ Len(Append(p, a)) = Len(p) + 1 /\ Len(p) \in Nat
         /\ \A i \in 1 .. Len(p) : Append(p, a)[i] = p[i] /\ i \in 1 .. Len(p) + 1
         /\ Append(p, a)[Len(p) + 1] = a
         /\ Len(p) + 1 \in 1 .. Len(p) + 1
         /\ \A i \in 1 .. Len(p) + 1 : i \in 1 .. Len(p) \/ i = Len(p) + 1
<1>1. Append(p, a) \in Seq(Nat) /\ Len(Append(p, a)) = Len(p) + 1 /\ Len(p) \in Nat
  OBVIOUS
<1>2. \A i \in 1 .. Len(p) : Append(p, a)[i] = p[i]
  OBVIOUS
<1>3. Append(p, a)[Len(p) + 1] = a
  OBVIOUS
<1>4. /\ Len(p) + 1 \in 1 .. Len(p) + 1
      /\ \A i \in 1 .. Len(p) + 1 : i \in 1 .. Len(p) \/ i = Len(p) + 1
      /\ \A i \in 1 .. Len(p) : i \in 1 .. Len(p) + 1
  BY <1>1
<1> QED
  BY <1>1, <1>2, <1>3, <1>4, Zenon

(* A path begins the one that is one address further, which begins what    *)
(* has this address at the next place. *)
LEMMA FurtherBegins ==
  ASSUME NEW p \in Seq(Nat), NEW a \in Nat, NEW q, Len(q) \in Nat
  PROVE  /\ Begins(p, Append(p, a))
         /\ Begins(Append(p, a), q) <=> Begins(p, q) /\ Len(p) < Len(q) /\ q[Len(p) + 1] = a
<1> DEFINE s == Append(p, a)
<1>1. /\ Len(s) = Len(p) + 1 /\ Len(p) \in Nat
      /\ \A i \in 1 .. Len(p) : s[i] = p[i] /\ i \in 1 .. Len(p) + 1
      /\ s[Len(p) + 1] = a /\ Len(p) + 1 \in 1 .. Len(p) + 1
      /\ \A i \in 1 .. Len(p) + 1 : i \in 1 .. Len(p) \/ i = Len(p) + 1
  BY OneFurther
<1> HIDE DEF s
<1>2. Begins(p, s)
  BY <1>1 DEF Begins
<1>3. ASSUME Begins(s, q)
      PROVE  Begins(p, q) /\ Len(p) < Len(q) /\ q[Len(p) + 1] = a
  <2>1. Len(p) + 1 <= Len(q) /\ \A i \in 1 .. Len(p) + 1 : s[i] = q[i]
    BY <1>1, <1>3, Zenon DEF Begins
  <2>2. Len(p) <= Len(q) /\ Len(p) < Len(q)
    BY <1>1, <2>1
  <2>3. \A i \in 1 .. Len(p) : p[i] = q[i]
    BY <1>1, <2>1, Zenon
  <2>4. q[Len(p) + 1] = a
    BY <1>1, <2>1, Zenon
  <2> QED
    BY <2>2, <2>3, <2>4, Zenon DEF Begins
<1>4. ASSUME Begins(p, q), Len(p) < Len(q), q[Len(p) + 1] = a
      PROVE  Begins(s, q)
  <2>1. Len(p) + 1 <= Len(q)
    BY <1>1, <1>4
  <2>2. \A i \in 1 .. Len(p) + 1 : s[i] = q[i]
    BY <1>1, <1>4, Zenon DEF Begins
  <2> QED
    BY <1>1, <2>1, <2>2, Zenon DEF Begins
<1> QED
  BY <1>2, <1>3, <1>4, Zenon DEF s

(* Beginnings of the same list. *)
LEMMA BeginsBoth ==
  ASSUME NEW p, NEW q, NEW r, Len(p) \in Nat, Len(q) \in Nat, Len(r) \in Nat
  PROVE  /\ Begins(p, q) /\ Begins(q, r) => Begins(p, r)
         /\ Begins(p, r) /\ Begins(q, r) /\ Len(p) <= Len(q) => Begins(p, q)
         /\ Begins(p, p)
         /\ Begins(p, q) /\ Len(p) = Len(q) => Begins(q, p)
<1>1. Len(p) <= Len(q) => 1 .. Len(p) \subseteq 1 .. Len(q)
  OBVIOUS
<1>2. Begins(p, q) /\ Begins(q, r) => Begins(p, r)
  <2>1. \A a, b, c \in Nat : a <= b /\ b <= c => a <= c
    OBVIOUS
  <2> QED
    BY <1>1, <2>1, Zenon DEF Begins
<1>3. Begins(p, r) /\ Begins(q, r) /\ Len(p) <= Len(q) => Begins(p, q)
  BY <1>1, Zenon DEF Begins
<1>4. Begins(p, p)
  BY DEF Begins
<1>5. Begins(p, q) /\ Len(p) = Len(q) => Begins(q, p)
  BY DEF Begins
<1> QED
  BY <1>2, <1>3, <1>4, <1>5, Zenon

-----------------------------------------------------------------------------
(* Frames that differ in their counts only, and not in those nobody has    *)
(* filled in. *)
SameLinks(m, M) ==
  \A c \in Cells : /\ M[c].faddr = m[c].faddr /\ M[c].callee = m[c].callee
                   /\ M[c].callers = m[c].callers /\ M[c].callers_filled = m[c].callers_filled
                   /\ c \notin InUse(m) => M[c].user = m[c].user

(* The tree is about their links alone. *)
LEMMA LinksKeepTree ==
  ASSUME NEW m, NEW M, NEW path, Tree(m, path), SameLinks(m, M)
  PROVE  Tree(M, path) /\ InUse(M) = InUse(m)
<1>1. InUse(M) = InUse(m)
  BY Zenon DEF InUse, SameLinks
<1>2. \A c \in InUse(m) : c \in Cells
  BY Zenon DEF InUse
<1>3. Root \in Cells
  BY MdbConstants
<1>4. Linked(M, path)
  <2>1. path \in [Cells -> Seq(Nat)] /\ path[Root] = <<>> /\ M[Root].faddr = 0
    BY <1>3, Zenon DEF Tree, Linked, SameLinks
  <2>2. ASSUME NEW c \in InUse(m) \ {Root}
        PROVE  /\ M[c].callee \in InUse(m) /\ M[M[c].callee].callers = c[1]
               /\ c[2] < M[M[c].callee].callers_filled
               /\ path[c] = Append(path[M[c].callee], M[c].faddr)
    <3>1. /\ m[c].callee \in InUse(m) /\ m[m[c].callee].callers = c[1] /\ c[2] < m[m[c].callee].callers_filled
          /\ path[c] = Append(path[m[c].callee], m[c].faddr)
      BY Zenon DEF Tree, Linked
    <3>2. M[c].callee = m[c].callee /\ M[c].faddr = m[c].faddr
      BY <1>2, Zenon DEF SameLinks
    <3>3. /\ M[m[c].callee].callers = m[m[c].callee].callers
          /\ M[m[c].callee].callers_filled = m[m[c].callee].callers_filled
      BY <1>2, <3>1, Zenon DEF SameLinks
    <3> QED
      BY <3>1, <3>2, <3>3, Zenon
  <2> QED
    BY <1>1, <2>1, <2>2, Zenon DEF Linked
<1>5. ASSUME NEW o \in InUse(m)
      PROVE  /\ M[o].callers = 0 <=> M[o].callers_filled = 0
             /\ InOrder(M, o)
             /\ \A k \in 0 .. M[o].callers_filled - 1 :
                  /\ <<M[o].callers, k>> \in InUse(M) \ {Root}
                  /\ M[<<M[o].callers, k>>].callee = o
  <2>1. M[o].callers = m[o].callers /\ M[o].callers_filled = m[o].callers_filled
    BY <1>2, Zenon DEF SameLinks
  <2>2. \A k \in 0 .. m[o].callers_filled - 1 :
           <<m[o].callers, k>> \in InUse(m) \ {Root} /\ m[<<m[o].callers, k>>].callee = o
    BY Zenon DEF Tree, Rows
  <2>3. \A k \in 0 .. m[o].callers_filled - 1 : /\ Faddr(M, o, k) = Faddr(m, o, k)
                                                /\ M[<<m[o].callers, k>>].callee = o
    BY <1>2, <2>1, <2>2, Zenon DEF SameLinks, Faddr
  <2>4. InOrder(M, o)
    <3>1. InOrder(m, o)
      BY Zenon DEF Tree, Rows
    <3>2. \A j, k \in 0 .. m[o].callers_filled - 1 : j < k => Faddr(M, o, j) < Faddr(M, o, k)
      BY <2>3, <3>1 DEF InOrder
    <3> QED
      BY <2>1, <3>2, Zenon DEF InOrder
  <2>5. m[o].callers = 0 <=> m[o].callers_filled = 0
    BY Zenon DEF Tree, Rows
  <2> QED
    BY <1>1, <2>1, <2>2, <2>3, <2>4, <2>5, Zenon
<1>6. ASSUME NEW c \in Cells \ InUse(M)
      PROVE  M[c].user = 0 /\ M[c].callers = 0 /\ M[c].callers_filled = 0
  BY <1>1, Zenon DEF Tree, Rows, SameLinks
<1>7. Rows(M)
  BY <1>1, <1>5, <1>6, Zenon DEF Rows
<1>8. Distinct(M, path) /\ Reached(M, path)
  BY <1>1, Zenon DEF Tree, Distinct, Reached
<1> QED
  BY <1>1, <1>4, <1>7, <1>8, Zenon DEF Tree

(* No two frames have the same array of callers. *)
LEMMA OneOwner ==
  ASSUME NEW m \in [Cells -> Frames], NEW path, Tree(m, path), NEW o \in InUse(m), NEW p \in InUse(m),
         m[o].callers = m[p].callers, m[o].callers # 0
  PROVE  o = p
<1>1. /\ m[o].callers_filled # 0 /\ m[p].callers_filled # 0
      /\ \A k \in 0 .. m[o].callers_filled - 1 : m[<<m[o].callers, k>>].callee = o
      /\ \A k \in 0 .. m[p].callers_filled - 1 : m[<<m[p].callers, k>>].callee = p
  BY Zenon DEF Tree, Rows
<1>2. o \in Cells /\ p \in Cells
  BY DEF InUse
<1>3. m[o].callers_filled \in 0 .. MaxCallers /\ m[p].callers_filled \in 0 .. MaxCallers /\ MaxCallers \in Nat
  BY <1>2, FrameIs, MdbConstants
<1>4. 0 \in 0 .. m[o].callers_filled - 1 /\ 0 \in 0 .. m[p].callers_filled - 1
  BY <1>1, <1>3
<1> QED
  BY <1>1, <1>4, Zenon

(* A frame's cell is one of its callee's. *)
LEMMA CellOf ==
  ASSUME NEW m \in [Cells -> Frames], NEW path, Tree(m, path), NEW c \in InUse(m) \ {Root}
  PROVE  \E o \in InUse(m) : \E k \in 0 .. m[o].callers_filled - 1 :
           /\ m[c].callee = o /\ c = <<m[o].callers, k>> /\ m[o].callers # 0
           /\ path[c] = Append(path[o], m[c].faddr) /\ m[c].faddr = Faddr(m, o, k)
           /\ path[o] \in Seq(Nat) /\ m[c].faddr \in Nat \ {0}
<1>1. c \in Cells /\ m[c].faddr # 0
  BY DEF InUse
<1>2. c[2] \in 0 .. MaxCallers - 1 /\ c = <<c[1], c[2]>> /\ m[c].faddr \in Nat
  BY <1>1, FrameIs
<1> DEFINE o == m[c].callee
<1>3. /\ o \in InUse(m) /\ m[o].callers = c[1] /\ c[2] < m[o].callers_filled
      /\ path[c] = Append(path[o], m[c].faddr)
  BY Zenon DEF Tree, Linked
<1>4. o \in Cells /\ (m[o].callers = 0 <=> m[o].callers_filled = 0)
  BY <1>3, Zenon DEF InUse, Tree, Rows
<1>5. m[o].callers_filled \in 0 .. MaxCallers /\ MaxCallers \in Nat
  BY <1>4, FrameIs, MdbConstants
<1> HIDE DEF o
<1>6. c[2] \in 0 .. m[o].callers_filled - 1 /\ m[o].callers # 0
  BY <1>2, <1>3, <1>4, <1>5
<1>7. path[o] \in Seq(Nat)
  BY <1>4 DEF Tree, Linked
<1>8. m[c].faddr = Faddr(m, o, c[2])
  BY <1>2, <1>3, Zenon DEF Faddr
<1> QED
  BY <1>1, <1>2, <1>3, <1>6, <1>7, <1>8, Zenon DEF o

(* Of that, what says where the cell is. *)
LEMMA CellInRow ==
  ASSUME NEW m \in [Cells -> Frames], NEW path, Tree(m, path), NEW c \in InUse(m) \ {Root}
  PROVE  \E o \in InUse(m) : \E k \in 0 .. m[o].callers_filled - 1 : c = <<m[o].callers, k>>
<1>1. PICK o \in InUse(m) : \E k \in 0 .. m[o].callers_filled - 1 : c = <<m[o].callers, k>>
  BY CellOf
<1> QED
  BY <1>1, Zenon

(* A frame that is added behind the callers that are there. *)
Grows(m, M, cell, to, own, addr) ==
  /\ to \in InUse(m) /\ cell \in Cells \ InUse(m) /\ own # 0 /\ addr \in Nat \ {0}
  /\ cell = <<own, m[to].callers_filled>> /\ m[to].callers \in {0, own}
  /\ \A o \in InUse(m) \ {to} : m[o].callers # own
  /\ \A k \in 0 .. m[to].callers_filled - 1 : Faddr(m, to, k) < addr
  /\ \A c \in Cells \ {cell} : M[c].faddr = m[c].faddr /\ M[c].user = m[c].user
  /\ \A c \in Cells \ {cell, to} : M[c].callers = m[c].callers /\ M[c].callers_filled = m[c].callers_filled
  /\ \A c \in InUse(m) : M[c].callee = m[c].callee
  /\ M[cell].faddr = addr /\ M[cell].callee = to /\ M[cell].callers = 0 /\ M[cell].callers_filled = 0
  /\ M[to].callers = own /\ M[to].callers_filled = m[to].callers_filled + 1

Further(path, cell, to, addr) == [path EXCEPT ![cell] = Append(path[to], addr)]

(* It is one more in use, at the end of its row; the paths of the others   *)
(* are what they were. *)
LEMMA GrownUse ==
  ASSUME NEW m \in [Cells -> Frames], NEW M, NEW cell, NEW to, NEW own, NEW addr, Grows(m, M, cell, to, own, addr),
         NEW path, Tree(m, path)
  PROVE  /\ InUse(M) = InUse(m) \cup {cell} /\ cell # Root /\ cell # to
         /\ \A c \in InUse(m) : /\ c \in Cells /\ c # cell /\ path[c] \in Seq(Nat)
                                /\ Further(path, cell, to, addr)[c] = path[c]
         /\ Further(path, cell, to, addr)[cell] = Append(path[to], addr)
         /\ Further(path, cell, to, addr) \in [Cells -> Seq(Nat)]
<1>1. path \in [Cells -> Seq(Nat)] /\ Root \in InUse(m) /\ Root \in Cells /\ cell \in Cells /\ to \in Cells
  BY MdbConstants DEF Tree, Linked, InUse, Grows
<1>2. \A c \in InUse(m) : c \in Cells /\ c # cell /\ path[c] \in Seq(Nat)
  BY <1>1 DEF InUse, Grows
<1>3. InUse(M) = InUse(m) \cup {cell}
  <2>1. \A c \in Cells \ {cell} : c \in InUse(M) <=> c \in InUse(m)
    BY Zenon DEF InUse, Grows
  <2>2. cell \in InUse(M)
    BY <1>1, Zenon DEF InUse, Grows
  <2>3. \A c \in InUse(M) : c \in Cells
    BY Zenon DEF InUse
  <2> QED
    BY <1>2, <2>1, <2>2, <2>3, Zenon
<1>4. Append(path[to], addr) \in Seq(Nat)
  <2>1. path[to] \in Seq(Nat) /\ addr \in Nat
    BY <1>1 DEF Grows
  <2> QED
    BY <2>1, OneFurther, Zenon
<1>5. cell # Root /\ cell # to
  BY <1>1, <1>2, Zenon DEF Grows
<1>6. \A c \in Cells : Further(path, cell, to, addr)[c] = IF c = cell THEN Append(path[to], addr) ELSE path[c]
  BY <1>1, Zenon DEF Further
<1>7. Further(path, cell, to, addr) \in [Cells -> Seq(Nat)]
  BY <1>1, <1>4 DEF Further
<1> QED
  BY <1>1, <1>2, <1>3, <1>5, <1>6, <1>7, Zenon

(* Links of the grown tree. *)
LEMMA GrownLinked ==
  ASSUME NEW m \in [Cells -> Frames], NEW M, NEW cell, NEW to, NEW own, NEW addr, Grows(m, M, cell, to, own, addr),
         NEW path, Tree(m, path)
  PROVE  Linked(M, Further(path, cell, to, addr))
<1> DEFINE far == Further(path, cell, to, addr)
<1>1. /\ InUse(M) = InUse(m) \cup {cell} /\ cell # Root /\ cell # to
      /\ \A c \in InUse(m) : c \in Cells /\ c # cell /\ far[c] = path[c]
      /\ far[cell] = Append(path[to], addr) /\ far \in [Cells -> Seq(Nat)]
  BY GrownUse
<1> HIDE DEF far
<1>2. Root \in InUse(m)
  BY MdbConstants DEF InUse
<1>3. far[Root] = <<>> /\ M[Root].faddr = 0
  BY <1>1, <1>2, Zenon DEF Tree, Linked, Grows
<1>4. m[to].callers_filled \in Nat /\ (m[to].callers = 0 <=> m[to].callers_filled = 0)
  <2>1. to \in Cells /\ to \in InUse(m)
    BY <1>1, Zenon DEF Grows
  <2> QED
    BY <2>1, FrameIs DEF Tree, Rows
<1>5. ASSUME NEW c \in InUse(m) \ {Root}
      PROVE  /\ M[c].callee \in InUse(M) /\ M[M[c].callee].callers = c[1]
             /\ c[2] < M[M[c].callee].callers_filled
             /\ far[c] = Append(far[M[c].callee], M[c].faddr)
  <2>0. PICK o \in InUse(m) : \E k \in 0 .. m[o].callers_filled - 1 :
           /\ m[c].callee = o /\ c = <<m[o].callers, k>> /\ m[o].callers # 0
           /\ path[c] = Append(path[o], m[c].faddr)
    BY CellOf
  <2>1. PICK k \in 0 .. m[o].callers_filled - 1 :
           /\ m[c].callee = o /\ c = <<m[o].callers, k>> /\ m[o].callers # 0
           /\ path[c] = Append(path[o], m[c].faddr)
    BY <2>0
  <2>2. M[c].callee = o /\ M[c].faddr = m[c].faddr /\ far[c] = path[c] /\ far[o] = path[o] /\ c # cell
    BY <1>1, <2>1, Zenon DEF Grows
  <2>3. M[o].callers = m[o].callers
    BY <1>1, <2>1, Zenon DEF Grows
  <2>4. c[1] = m[o].callers /\ c[2] = k
    BY <2>1
  <2>5. m[o].callers_filled \in Nat
    BY <1>1, FrameIs, SMTT(30)
  <2>6. M[o].callers_filled = m[o].callers_filled \/ M[o].callers_filled = m[o].callers_filled + 1
    BY <1>1, Zenon DEF Grows
  <2>7. c[2] < M[o].callers_filled
    BY <2>4, <2>5, <2>6
  <2> QED
    BY <1>1, <2>1, <2>2, <2>3, <2>4, <2>7, Zenon
<1>6. /\ M[cell].callee \in InUse(M) /\ M[M[cell].callee].callers = cell[1]
      /\ cell[2] < M[M[cell].callee].callers_filled
      /\ far[cell] = Append(far[M[cell].callee], M[cell].faddr)
  <2>1. M[cell].callee = to /\ M[cell].faddr = addr /\ to \in InUse(m) /\ far[to] = path[to]
    BY <1>1, Zenon DEF Grows
  <2>2. cell[1] = own /\ cell[2] = m[to].callers_filled /\ M[to].callers = own
        /\ M[to].callers_filled = m[to].callers_filled + 1
    BY DEF Grows
  <2>3. m[to].callers_filled < m[to].callers_filled + 1
    BY <1>4
  <2> QED
    BY <1>1, <2>1, <2>2, <2>3, Zenon
<1> QED
  BY <1>1, <1>3, <1>5, <1>6, Zenon DEF Linked, far

(* Its rows. *)
LEMMA GrownRows ==
  ASSUME NEW m \in [Cells -> Frames], NEW M, NEW cell, NEW to, NEW own, NEW addr, Grows(m, M, cell, to, own, addr),
         NEW path, Tree(m, path)
  PROVE  Rows(M)
<1>1. /\ InUse(M) = InUse(m) \cup {cell} /\ cell # Root /\ cell # to /\ to \in InUse(m)
      /\ \A c \in InUse(m) : c \in Cells /\ c # cell
  <2>1. /\ InUse(M) = InUse(m) \cup {cell} /\ cell # Root /\ cell # to
        /\ \A c \in InUse(m) : c \in Cells /\ c # cell
    BY GrownUse
  <2> QED
    BY <2>1, Zenon DEF Grows
<1>2. \A o \in InUse(m) : /\ m[o].callers = 0 <=> m[o].callers_filled = 0
                          /\ InOrder(m, o)
                          /\ \A k \in 0 .. m[o].callers_filled - 1 :
                               <<m[o].callers, k>> \in InUse(m) \ {Root} /\ m[<<m[o].callers, k>>].callee = o
  BY Zenon DEF Tree, Rows
<1>3. ASSUME NEW o \in InUse(m), NEW k \in 0 .. m[o].callers_filled - 1, M[o].callers = m[o].callers
      PROVE  /\ <<M[o].callers, k>> \in InUse(m) \ {Root} /\ M[<<M[o].callers, k>>].callee = o
             /\ Faddr(M, o, k) = Faddr(m, o, k)
  <2>1. <<m[o].callers, k>> \in InUse(m) \ {Root} /\ m[<<m[o].callers, k>>].callee = o
    BY <1>2, Zenon
  <2>2. <<m[o].callers, k>> \in Cells \ {cell}
    BY <1>1, <2>1, Zenon
  <2>3. /\ M[<<m[o].callers, k>>].faddr = m[<<m[o].callers, k>>].faddr
        /\ M[<<m[o].callers, k>>].callee = m[<<m[o].callers, k>>].callee
    BY <2>1, <2>2, Zenon DEF Grows
  <2>4. <<M[o].callers, k>> = <<m[o].callers, k>>
    BY <1>3
  <2>5. Faddr(M, o, k) = Faddr(m, o, k)
    BY <2>3, <2>4, Zenon DEF Faddr
  <2> QED
    BY <2>1, <2>3, <2>4, <2>5, Zenon
<1>4. ASSUME NEW o \in InUse(m) \ {to}
      PROVE  /\ M[o].callers = 0 <=> M[o].callers_filled = 0
             /\ InOrder(M, o)
             /\ \A k \in 0 .. M[o].callers_filled - 1 :
                  <<M[o].callers, k>> \in InUse(M) \ {Root} /\ M[<<M[o].callers, k>>].callee = o
  <2>1. M[o].callers = m[o].callers /\ M[o].callers_filled = m[o].callers_filled
    BY <1>1, Zenon DEF Grows
  <2>2. InOrder(M, o)
    <3>1. \A k \in 0 .. m[o].callers_filled - 1 : Faddr(M, o, k) = Faddr(m, o, k)
      BY <1>3, <2>1, Zenon
    <3>2. InOrder(m, o)
      BY <1>2, Zenon
    <3>3. \A j, k \in 0 .. m[o].callers_filled - 1 : j < k => Faddr(M, o, j) < Faddr(M, o, k)
      BY <3>1, <3>2 DEF InOrder
    <3> QED
      BY <2>1, <3>3, Zenon DEF InOrder
  <2> QED
    BY <1>1, <1>2, <1>3, <2>1, <2>2, Zenon
<1>5. /\ M[to].callers = 0 <=> M[to].callers_filled = 0
      /\ InOrder(M, to)
      /\ \A k \in 0 .. M[to].callers_filled - 1 :
           <<M[to].callers, k>> \in InUse(M) \ {Root} /\ M[<<M[to].callers, k>>].callee = to
  <2> DEFINE n == m[to].callers_filled
  <2>1. n \in Nat /\ n + 1 # 0 /\ own # 0
    BY <1>1, FrameIs DEF Grows
  <2>2. M[to].callers = own /\ M[to].callers_filled = n + 1 /\ cell = <<own, n>> /\ M[cell].callee = to
        /\ Faddr(M, to, n) = addr
    BY Zenon DEF Grows, Faddr
  <2>3. \A k \in 0 .. (n + 1) - 1 : k = n \/ (k < n /\ k \in 0 .. n - 1)
    BY <2>1
  <2>4. ASSUME NEW k \in 0 .. n - 1
        PROVE  M[to].callers = m[to].callers
    <3>1. n # 0
      BY <2>1
    <3> QED
      BY <1>1, <1>2, <2>2, <3>1, Zenon DEF Grows
  <2>5. ASSUME NEW k \in 0 .. n - 1
        PROVE  /\ <<own, k>> \in InUse(m) \ {Root} /\ M[<<own, k>>].callee = to
               /\ Faddr(M, to, k) = Faddr(m, to, k) /\ Faddr(m, to, k) < addr
    <3>1. M[to].callers = m[to].callers /\ M[to].callers = own
      BY <2>2, <2>4, Zenon
    <3>2. /\ <<M[to].callers, k>> \in InUse(m) \ {Root} /\ M[<<M[to].callers, k>>].callee = to
          /\ Faddr(M, to, k) = Faddr(m, to, k)
      BY <1>1, <1>3, <3>1, Zenon
    <3>3. Faddr(m, to, k) < addr
      BY Zenon DEF Grows
    <3> QED
      BY <3>1, <3>2, <3>3, Zenon
  <2>6. ASSUME NEW k \in 0 .. (n + 1) - 1
        PROVE  <<own, k>> \in InUse(M) \ {Root} /\ M[<<own, k>>].callee = to
    BY <1>1, <2>2, <2>3, <2>5, Zenon
  <2>7. ASSUME NEW j \in 0 .. (n + 1) - 1, NEW k \in 0 .. (n + 1) - 1, j < k
        PROVE  Faddr(M, to, j) < Faddr(M, to, k)
    <3>1. j \in 0 .. n - 1
      BY <2>1, <2>7
    <3>2. CASE k = n
      BY <2>2, <2>5, <3>1, <3>2, Zenon
    <3>3. CASE k # n
      <4>1. k \in 0 .. n - 1
        BY <2>3, <3>3, Zenon
      <4>2. Faddr(m, to, j) < Faddr(m, to, k)
        BY <1>1, <1>2, <2>7, <3>1, <4>1, Zenon DEF InOrder
      <4> QED
        BY <2>5, <3>1, <4>1, <4>2, Zenon
    <3> QED
      BY <3>2, <3>3
  <2> HIDE DEF n
  <2>8. InOrder(M, to)
    BY <2>2, <2>7, Zenon DEF InOrder
  <2> QED
    BY <2>1, <2>2, <2>6, <2>8, Zenon
<1>6. /\ M[cell].callers = 0 <=> M[cell].callers_filled = 0
      /\ InOrder(M, cell)
      /\ \A k \in 0 .. M[cell].callers_filled - 1 :
           <<M[cell].callers, k>> \in InUse(M) \ {Root} /\ M[<<M[cell].callers, k>>].callee = cell
  <2>1. M[cell].callers = 0 /\ M[cell].callers_filled = 0
    BY Zenon DEF Grows
  <2> QED
    BY <2>1 DEF InOrder
<1>7. ASSUME NEW c \in Cells \ InUse(M)
      PROVE  M[c].user = 0 /\ M[c].callers = 0 /\ M[c].callers_filled = 0
  <2>1. c \in Cells \ InUse(m) /\ c # cell /\ c # to
    BY <1>1, Zenon
  <2>2. m[c].user = 0 /\ m[c].callers = 0 /\ m[c].callers_filled = 0
    BY <2>1, Zenon DEF Tree, Rows
  <2> QED
    BY <2>1, <2>2, Zenon DEF Grows
<1> QED
  BY <1>1, <1>4, <1>5, <1>6, <1>7, Zenon DEF Rows

(* Nobody had its path. *)
LEMMA PathIsNew ==
  ASSUME NEW m \in [Cells -> Frames], NEW M, NEW cell, NEW to, NEW own, NEW addr, Grows(m, M, cell, to, own, addr),
         NEW path, Tree(m, path), NEW d \in InUse(m),
         Len(path[d]) = Len(Append(path[to], addr)), Begins(path[d], Append(path[to], addr))
  PROVE  FALSE
<1> DEFINE s == Append(path[to], addr)
<1>1. /\ to \in InUse(m) /\ addr \in Nat /\ \A c \in InUse(m) : c \in Cells /\ path[c] \in Seq(Nat)
      /\ \A k \in 0 .. m[to].callers_filled - 1 : Faddr(m, to, k) < addr
  <2>1. \A c \in InUse(m) : c \in Cells /\ path[c] \in Seq(Nat)
    BY GrownUse
  <2> QED
    BY <2>1 DEF Grows
<1>2. Len(s) = Len(path[to]) + 1 /\ Len(path[to]) \in Nat /\ s[Len(path[to]) + 1] = addr /\ s \in Seq(Nat)
  BY <1>1, OneFurther
<1>3. Begins(path[to], s)
  BY <1>1, <1>2, FurtherBegins
<1>4. Len(path[d]) = Len(s) /\ Begins(path[d], s)
  OBVIOUS
<1> HIDE DEF s
<1>5. d # Root
  <2>1. path[Root] = <<>>
    BY DEF Tree, Linked
  <2>2. Len(path[Root]) = 0
    BY <2>1
  <2> QED
    BY <1>2, <1>4, <2>2
<1>6. PICK o \in InUse(m) : \E k \in 0 .. m[o].callers_filled - 1 :
         path[d] = Append(path[o], m[d].faddr) /\ m[d].faddr = Faddr(m, o, k) /\ m[d].faddr \in Nat
  BY <1>5, CellOf
<1>7. PICK k \in 0 .. m[o].callers_filled - 1 :
         path[d] = Append(path[o], m[d].faddr) /\ m[d].faddr = Faddr(m, o, k) /\ m[d].faddr \in Nat
  BY <1>6
<1>8. /\ Len(path[o]) \in Nat /\ Len(path[d]) = Len(path[o]) + 1 /\ path[o] \in Seq(Nat)
      /\ Begins(path[o], s) /\ s[Len(path[o]) + 1] = m[d].faddr
  <2>1. path[o] \in Seq(Nat)
    BY <1>1
  <2>2. Len(path[d]) = Len(path[o]) + 1 /\ Len(path[o]) \in Nat
    BY <1>7, <2>1, OneFurther
  <2>3. Len(s) \in Nat
    BY <1>2
  <2>4. Begins(Append(path[o], m[d].faddr), s)
    BY <1>4, <1>7, Zenon
  <2>5. Begins(path[o], s) /\ s[Len(path[o]) + 1] = m[d].faddr
    BY <1>7, <2>1, <2>3, <2>4, FurtherBegins, ZenonT(60)
  <2> QED
    BY <2>1, <2>2, <2>5
<1>9. Len(path[o]) = Len(path[to])
  BY <1>2, <1>4, <1>8
<1>10. Begins(path[o], path[to])
  <2>1. Len(path[o]) <= Len(path[to]) /\ Len(s) \in Nat
    BY <1>2, <1>9
  <2> QED
    BY <1>2, <1>3, <1>8, <2>1, BeginsBoth, Zenon
<1>11. o = to
  BY <1>1, <1>9, <1>10, Zenon DEF Tree, Distinct
<1>12. Faddr(m, to, k) < addr /\ Faddr(m, to, k) = addr
  BY <1>1, <1>2, <1>7, <1>8, <1>11, Zenon
<1> QED
  BY <1>1, <1>12

(* So the grown tree is one. *)
LEMMA GrownTree ==
  ASSUME NEW m \in [Cells -> Frames], NEW M, NEW cell, NEW to, NEW own, NEW addr, Grows(m, M, cell, to, own, addr),
         NEW path, Tree(m, path), NEW bt \in Traces, Begins(Append(path[to], addr), bt)
  PROVE  Tree(M, Further(path, cell, to, addr))
<1> DEFINE far == Further(path, cell, to, addr)
           s == Append(path[to], addr)
<1>1. /\ InUse(M) = InUse(m) \cup {cell}
      /\ \A c \in InUse(m) : path[c] \in Seq(Nat) /\ far[c] = path[c]
      /\ far[cell] = s
  BY GrownUse
<1>2. Linked(M, far) /\ Rows(M)
  BY GrownLinked, GrownRows
<1>3. \A d \in InUse(m) : ~(Len(path[d]) = Len(s) /\ Begins(path[d], s))
  BY PathIsNew
<1>4. to \in InUse(m) /\ path[to] \in Seq(Nat) /\ addr \in Nat
  BY <1>1 DEF Grows
<1>5. /\ s \in Seq(Nat) /\ Len(s) = Len(path[to]) + 1 /\ Len(path[to]) \in Nat /\ Begins(path[to], s)
      /\ Begins(s, bt)
  <2>1. s \in Seq(Nat) /\ Len(s) = Len(path[to]) + 1 /\ Len(path[to]) \in Nat
    BY <1>4, OneFurther
  <2>2. Len(s) \in Nat
    BY <2>1
  <2> QED
    BY <1>4, <2>1, <2>2, FurtherBegins
<1> HIDE DEF far, s
<1>6. \A c \in InUse(m) : Len(path[c]) \in Nat
  BY <1>1
<1>7. Distinct(M, far)
  <2> SUFFICES ASSUME NEW c \in InUse(M), NEW d \in InUse(M), Len(far[c]) = Len(far[d]), Begins(far[c], far[d])
               PROVE  c = d
    BY Zenon DEF Distinct
  <2>1. CASE c = cell /\ d = cell
    BY <2>1
  <2>2. CASE c \in InUse(m) /\ d \in InUse(m)
    BY <1>1, <2>2, Zenon DEF Tree, Distinct
  <2>3. CASE c \in InUse(m) /\ d = cell
    BY <1>1, <1>3, <2>3, Zenon
  <2>4. CASE c = cell /\ d \in InUse(m)
    <3>1. Len(s) = Len(path[d]) /\ Begins(s, path[d])
      BY <1>1, <2>4, Zenon
    <3>2. Len(s) \in Nat /\ Len(path[d]) \in Nat
      BY <1>6, <2>4, <3>1
    <3>3. Begins(path[d], s)
      BY <3>1, <3>2, BeginsBoth, Zenon
    <3> QED
      BY <1>3, <2>4, <3>1, <3>3, Zenon
  <2> QED
    BY <1>1, <2>1, <2>2, <2>3, <2>4, Zenon
<1>8. Reached(M, far)
  <2>1. ASSUME NEW c \in InUse(m)
        PROVE  /\ \A n \in 0 .. Len(far[c]) : \E d \in InUse(M) : Len(far[d]) = n /\ Begins(far[d], far[c])
               /\ \E tr \in Traces : Begins(far[c], tr)
    <3>1. /\ \A n \in 0 .. Len(path[c]) : \E d \in InUse(m) : Len(path[d]) = n /\ Begins(path[d], path[c])
          /\ \E tr \in Traces : Begins(path[c], tr)
      BY Zenon DEF Tree, Reached
    <3>2. ASSUME NEW n \in 0 .. Len(path[c])
          PROVE  \E d \in InUse(M) : Len(far[d]) = n /\ Begins(far[d], path[c])
      <4>1. PICK d \in InUse(m) : Len(path[d]) = n /\ Begins(path[d], path[c])
        BY <3>1, Zenon
      <4>2. d \in InUse(M) /\ far[d] = path[d]
        BY <1>1, Zenon
      <4> QED
        BY <4>1, <4>2, Zenon
    <3> QED
      BY <1>1, <3>1, <3>2, Zenon
  <2>2. /\ \A n \in 0 .. Len(far[cell]) : \E d \in InUse(M) : Len(far[d]) = n /\ Begins(far[d], far[cell])
        /\ \E tr \in Traces : Begins(far[cell], tr)
    <3>1. ASSUME NEW n \in 0 .. Len(path[to])
          PROVE  \E d \in InUse(M) : Len(far[d]) = n /\ Begins(far[d], s)
      <4>1. PICK d \in InUse(m) : Len(path[d]) = n /\ Begins(path[d], path[to])
        BY <1>4, Zenon DEF Tree, Reached
      <4>2. d \in InUse(M) /\ far[d] = path[d]
        BY <1>1, Zenon
      <4>3. Len(path[d]) \in Nat /\ Len(path[to]) \in Nat /\ Len(s) \in Nat
        BY <1>5, <1>6
      <4>4. Begins(path[d], s)
        BY <1>5, <4>1, <4>3, BeginsBoth, Zenon
      <4> QED
        BY <4>1, <4>2, <4>4, Zenon
    <3>2. \A n \in 0 .. Len(s) : n \in 0 .. Len(path[to]) \/ n = Len(s)
      BY <1>5
    <3>3. cell \in InUse(M) /\ Begins(s, s)
      <4>1. Len(s) \in Nat
        BY <1>5
      <4> QED
        BY <1>1, <4>1, BeginsBoth, Zenon
    <3>4. ASSUME NEW n \in 0 .. Len(s)
          PROVE  \E d \in InUse(M) : Len(far[d]) = n /\ Begins(far[d], s)
      BY <1>1, <3>1, <3>2, <3>3, Zenon
    <3> QED
      BY <1>1, <1>5, <3>4, Zenon
  <2> QED
    BY <1>1, <2>1, <2>2, Zenon DEF Reached
<1> QED
  BY <1>2, <1>7, <1>8, Zenon DEF Tree, far

-----------------------------------------------------------------------------
(* How many blocks go through a path. *)
LEMMA ThroughIsNumber ==
  ASSUME NEW pairs, Len(pairs) \in Nat, NEW p
  PROVE  IsFiniteSet(Through(pairs, p)) /\ Cardinality(Through(pairs, p)) \in Nat
<1>1. IsFiniteSet(1 .. Len(pairs))
  BY FS_Interval
<1>2. Through(pairs, p) \subseteq 1 .. Len(pairs)
  BY DEF Through
<1> QED
  BY <1>1, <1>2, FS_Subset, FS_CardinalityType

(* One more address counts in the one frame it leads to. *)
LEMMA CountsOne ==
  ASSUME NEW p, Len(p) \in Nat, NEW pairs, Len(pairs) \in Nat, NEW bt, NEW k \in Nat
  PROVE  /\ CountAt(p, pairs, bt, k) \in Nat
         /\ CountAt(p, pairs, bt, k + 1)
              = IF Len(p) = k + 1 /\ Begins(p, bt) THEN CountAt(p, pairs, bt, k) + 1 ELSE CountAt(p, pairs, bt, k)
<1> DEFINE t == Cardinality(Through(pairs, p))
<1>1. t \in Nat
  BY ThroughIsNumber
<1>2. Len(p) <= k + 1 <=> Len(p) <= k \/ Len(p) = k + 1
  OBVIOUS
<1>3. Len(p) = k + 1 => ~(Len(p) <= k)
  OBVIOUS
<1> HIDE DEF t
<1>4. t + 0 = t /\ t + 0 \in Nat /\ t + 1 = t + 0 + 1 /\ t + 1 \in Nat
  BY <1>1
<1>5. CASE Begins(p, bt) /\ Len(p) <= k
  <2>1. CountAt(p, pairs, bt, k) = t + 1
    BY <1>5, Zenon DEF CountAt, t
  <2>2. CountAt(p, pairs, bt, k + 1) = t + 1
    BY <1>2, <1>5, Zenon DEF CountAt, t
  <2> QED
    BY <1>3, <1>4, <1>5, <2>1, <2>2, Zenon
<1>6. CASE ~(Begins(p, bt) /\ Len(p) <= k)
  <2>1. CountAt(p, pairs, bt, k) = t + 0
    BY <1>6, Zenon DEF CountAt, t
  <2>2. CASE Len(p) = k + 1 /\ Begins(p, bt)
    <3>1. CountAt(p, pairs, bt, k + 1) = t + 1
      BY <1>2, <2>2, Zenon DEF CountAt, t
    <3> QED
      BY <1>4, <2>1, <2>2, <3>1, Zenon
  <2>3. CASE ~(Len(p) = k + 1 /\ Begins(p, bt))
    <3>1. CountAt(p, pairs, bt, k + 1) = t + 0
      BY <1>2, <1>6, <2>3, Zenon DEF CountAt, t
    <3> QED
      BY <1>4, <2>1, <2>3, <3>1, Zenon
  <2> QED
    BY <2>2, <2>3
<1> QED
  BY <1>5, <1>6

(* Where insert() finds the address. *)
MatchAt(m, path, pairs, bt, k, to, at, cell, M) ==
  /\ m \in [Cells -> Frames]
  /\ Tree(m, path)
  /\ Len(pairs) \in Nat
  /\ bt \in Traces
  /\ k \in Nat
  /\ k < Len(bt)
  /\ Counted(m, path, pairs, bt, k)
  /\ to \in InUse(m)
  /\ Len(path[to]) = k
  /\ Begins(path[to], bt)
  /\ at \in 0 .. m[to].callers_filled - 1
  /\ Faddr(m, to, at) = bt[k + 1]
  /\ cell = <<m[to].callers, at>>
  /\ M = [m EXCEPT ![cell].user = @ + 1]

(* insert() finds the address: the frame is counted once more. *)
LEMMA MatchCounts ==
  ASSUME NEW m, NEW path, NEW pairs, NEW bt, NEW k, NEW to, NEW at, NEW cell, NEW M,
         MatchAt(m, path, pairs, bt, k, to, at, cell, M)
  PROVE  /\ Tree(M, path) /\ InUse(M) = InUse(m) /\ Counted(M, path, pairs, bt, k + 1)
         /\ cell \in InUse(m) /\ Len(path[cell]) = k + 1 /\ Begins(path[cell], bt)
<1> SUFFICES ASSUME m \in [Cells -> Frames],
                    Tree(m, path),
                    Len(pairs) \in Nat,
                    bt \in Traces,
                    k \in Nat,
                    k < Len(bt),
                    Counted(m, path, pairs, bt, k),
                    to \in InUse(m),
                    Len(path[to]) = k,
                    Begins(path[to], bt),
                    at \in 0 .. m[to].callers_filled - 1,
                    Faddr(m, to, at) = bt[k + 1],
                    cell = <<m[to].callers, at>>,
                    M = [m EXCEPT ![cell].user = @ + 1]
             PROVE  /\ Tree(M, path) /\ InUse(M) = InUse(m) /\ Counted(M, path, pairs, bt, k + 1)
               /\ cell \in InUse(m) /\ Len(path[cell]) = k + 1 /\ Begins(path[cell], bt)
  BY Zenon DEF MatchAt
<1>1. cell \in InUse(m) \ {Root} /\ m[cell].callee = to /\ cell \in Cells
  BY Zenon DEF Tree, Rows, InUse
<1>2. path \in [Cells -> Seq(Nat)] /\ path[cell] = Append(path[to], m[cell].faddr)
  BY <1>1, Zenon DEF Tree, Linked
<1>3. m[cell].faddr = bt[k + 1] /\ m[cell].faddr \in Nat /\ m[cell].user \in Nat
  <2>1. m[cell].faddr = bt[k + 1]
    BY Zenon DEF Faddr
  <2> QED
    BY <1>1, <2>1, FrameIs
<1>4. path[to] \in Seq(Nat) /\ Len(bt) \in Nat
  BY <1>2, MdbConstants DEF InUse
<1>5. Len(path[cell]) = k + 1 /\ Begins(path[cell], bt) /\ path[cell] \in Seq(Nat)
  <2>1. Len(path[cell]) = Len(path[to]) + 1 /\ path[cell] \in Seq(Nat)
    BY <1>2, <1>3, <1>4, OneFurther
  <2>2. Begins(path[cell], bt)
    <3>1. /\ Begins(Append(path[to], m[cell].faddr), bt)
             <=> Begins(path[to], bt) /\ Len(path[to]) < Len(bt) /\ bt[Len(path[to]) + 1] = m[cell].faddr
      BY <1>3, <1>4, FurtherBegins
    <3> QED
      BY <1>2, <1>3, <3>1, Zenon
  <2> QED
    BY <2>1, <2>2
<1>6. ASSUME NEW c \in Cells
      PROVE  /\ M[c].faddr = m[c].faddr /\ M[c].callee = m[c].callee
             /\ M[c].callers = m[c].callers /\ M[c].callers_filled = m[c].callers_filled
             /\ c # cell => M[c].user = m[c].user
             /\ c = cell => M[c].user = m[c].user + 1
  <2>1. m[c] \in Frames
    OBVIOUS
  <2>2. M[c] = IF c = cell THEN [m[c] EXCEPT !.user = @ + 1] ELSE m[c]
    OBVIOUS
  <2> QED
    BY <2>1, <2>2 DEF Frames
<1>7. SameLinks(m, M)
  BY <1>1, <1>6, Zenon DEF SameLinks
<1>8. Tree(M, path) /\ InUse(M) = InUse(m)
  BY <1>7, LinksKeepTree
<1>9. Counted(M, path, pairs, bt, k + 1)
  <2>1. ASSUME NEW c \in InUse(m) \ {Root}
        PROVE  M[c].user = CountAt(path[c], pairs, bt, k + 1)
    <3>1. c \in Cells /\ Len(path[c]) \in Nat
      <4>1. c \in Cells /\ path[c] \in Seq(Nat)
        BY <1>2 DEF InUse
      <4> QED
        BY <4>1
    <3>2. m[c].user = CountAt(path[c], pairs, bt, k)
      BY Zenon DEF Counted
    <3>3. CountAt(path[c], pairs, bt, k + 1)
            = IF Len(path[c]) = k + 1 /\ Begins(path[c], bt) THEN CountAt(path[c], pairs, bt, k) + 1
              ELSE CountAt(path[c], pairs, bt, k)
      BY <3>1, CountsOne, ZenonT(60)
    <3>4. CASE c = cell
      BY <1>5, <1>6, <3>1, <3>2, <3>3, <3>4, Zenon
    <3>5. CASE c # cell
      <4>1. ~(Len(path[c]) = k + 1 /\ Begins(path[c], bt))
        <5> SUFFICES ASSUME Len(path[c]) = k + 1, Begins(path[c], bt)
                     PROVE  FALSE
          BY Zenon
        <5>1. Len(path[cell]) \in Nat /\ Len(path[c]) <= Len(path[cell])
          BY <1>5, <3>1
        <5>2. Begins(path[c], path[cell])
          BY <1>4, <1>5, <3>1, <5>1, BeginsBoth, Zenon
        <5> QED
          BY <1>1, <1>5, <3>5, <5>2, Zenon DEF Tree, Distinct
      <4> QED
        BY <1>6, <3>1, <3>2, <3>3, <3>5, <4>1, Zenon
    <3> QED
      BY <3>4, <3>5
  <2> QED
    BY <1>8, <2>1, Zenon DEF Counted
<1> QED
  BY <1>1, <1>5, <1>8, <1>9, Zenon

(* A frame that has been added on the way. *)
GrownAt(m, path, pairs, bt, k, to, addr, M, cell, own, far) ==
  /\ m \in [Cells -> Frames]
  /\ Tree(m, path)
  /\ Len(pairs) \in Nat
  /\ Held(m, path, pairs)
  /\ bt \in Traces
  /\ k \in Nat
  /\ k < Len(bt)
  /\ Counted(m, path, pairs, bt, k)
  /\ Len(path[to]) = k
  /\ Begins(path[to], bt)
  /\ addr = bt[k + 1]
  /\ Grows(m, M, cell, to, own, addr)
  /\ M[cell].user = m[cell].user + 1
  /\ far = Further(path, cell, to, addr)

(* insert() adds a frame: it counts one, and nothing else does. *)
LEMMA GrownCounts ==
  ASSUME NEW m, NEW path, NEW pairs, NEW bt, NEW k, NEW to, NEW addr, NEW M, NEW cell, NEW own, NEW far,
         GrownAt(m, path, pairs, bt, k, to, addr, M, cell, own, far)
  PROVE  /\ Tree(M, far) /\ Counted(M, far, pairs, bt, k + 1) /\ Held(M, far, pairs)
         /\ InUse(m) \subseteq InUse(M) /\ cell \in InUse(M) /\ Len(far[cell]) = k + 1 /\ Begins(far[cell], bt)
<1> SUFFICES ASSUME m \in [Cells -> Frames],
                    Tree(m, path),
                    Len(pairs) \in Nat,
                    Held(m, path, pairs),
                    bt \in Traces,
                    k \in Nat,
                    k < Len(bt),
                    Counted(m, path, pairs, bt, k),
                    Len(path[to]) = k,
                    Begins(path[to], bt),
                    addr = bt[k + 1],
                    Grows(m, M, cell, to, own, addr),
                    M[cell].user = m[cell].user + 1,
                    far = Further(path, cell, to, addr)
             PROVE  /\ Tree(M, far) /\ Counted(M, far, pairs, bt, k + 1) /\ Held(M, far, pairs)
               /\ InUse(m) \subseteq InUse(M) /\ cell \in InUse(M) /\ Len(far[cell]) = k + 1 /\ Begins(far[cell], bt)
  BY Zenon DEF GrownAt
<1> DEFINE s == Append(path[to], addr)
<1>1. /\ InUse(M) = InUse(m) \cup {cell} /\ cell # Root
      /\ \A c \in InUse(m) : c \in Cells /\ c # cell /\ path[c] \in Seq(Nat) /\ far[c] = path[c]
      /\ far[cell] = s
  BY GrownUse
<1>2. to \in InUse(m) /\ addr \in Nat /\ Len(bt) \in Nat /\ cell \in Cells \ InUse(m)
  BY MdbConstants DEF Grows
<1>3. /\ s \in Seq(Nat) /\ Len(s) = k + 1 /\ Begins(s, bt)
  <2>1. s \in Seq(Nat) /\ Len(s) = Len(path[to]) + 1
    BY <1>1, <1>2, OneFurther
  <2>2. Begins(s, bt) <=> Begins(path[to], bt) /\ Len(path[to]) < Len(bt) /\ bt[Len(path[to]) + 1] = addr
    BY <1>1, <1>2, FurtherBegins
  <2> QED
    BY <2>1, <2>2, Zenon
<1>4. Tree(M, far)
  BY <1>3, GrownTree
<1>5. \A c \in InUse(m) : ~(Len(path[c]) = Len(s) /\ Begins(path[c], s))
  BY PathIsNew
<1>6. \A c \in InUse(m) : c \in Cells /\ Len(path[c]) \in Nat
  BY <1>1
<1>7. Len(s) \in Nat
  BY <1>3
<1> HIDE DEF s
<1>8. Through(pairs, s) = {}
  <2> SUFFICES ASSUME NEW j \in 1 .. Len(pairs), Begins(s, pairs[j].by)
               PROVE  FALSE
    BY Zenon DEF Through
  <2>1. pairs[j].frame \in InUse(m) /\ path[pairs[j].frame] = pairs[j].by
    BY Zenon DEF Held
  <2> DEFINE q == pairs[j].by
  <2>2. Len(q) \in Nat /\ Len(s) <= Len(q)
    BY <1>6, <2>1, Zenon DEF Begins
  <2>3. Len(s) \in 0 .. Len(q)
    BY <1>7, <2>2
  <2>4. PICK e \in InUse(m) : Len(path[e]) = Len(s) /\ Begins(path[e], q)
    BY <2>1, <2>3, Zenon DEF Tree, Reached
  <2>5. Len(path[e]) <= Len(s)
    BY <1>7, <2>4
  <2>6. Begins(path[e], s)
    BY <1>6, <1>7, <2>2, <2>4, <2>5, BeginsBoth, Zenon
  <2> QED
    BY <1>5, <2>4, <2>6, Zenon
<1>9. Counted(M, far, pairs, bt, k + 1)
  <2>1. ASSUME NEW c \in InUse(m) \ {Root}
        PROVE  M[c].user = CountAt(far[c], pairs, bt, k + 1)
    <3>1. M[c].user = m[c].user /\ far[c] = path[c]
      BY <1>1, Zenon DEF Grows
    <3>2. CountAt(path[c], pairs, bt, k + 1)
            = IF Len(path[c]) = k + 1 /\ Begins(path[c], bt) THEN CountAt(path[c], pairs, bt, k) + 1
              ELSE CountAt(path[c], pairs, bt, k)
      <4>1. Len(path[c]) \in Nat
        BY <1>6
      <4> QED
        BY <4>1, CountsOne, ZenonT(60)
    <3>3. ~(Len(path[c]) = k + 1 /\ Begins(path[c], bt))
      <4> SUFFICES ASSUME Len(path[c]) = k + 1, Begins(path[c], bt)
                   PROVE  FALSE
        BY Zenon
      <4>1. Len(path[c]) <= Len(s)
        BY <1>3
      <4>2. Begins(path[c], s)
        BY <1>2, <1>3, <1>6, <1>7, <4>1, BeginsBoth, Zenon
      <4> QED
        BY <1>3, <1>5, <4>2, Zenon
    <3> QED
      BY <3>1, <3>2, <3>3, Zenon DEF Counted
  <2>2. M[cell].user = CountAt(s, pairs, bt, k + 1)
    <3>1. m[cell].user = 0
      BY <1>2, Zenon DEF Tree, Rows
    <3>2. Cardinality(Through(pairs, s)) = 0
      BY <1>8, FS_EmptySet
    <3>3. Len(s) <= k + 1
      BY <1>3, <1>7
    <3>4. CountAt(s, pairs, bt, k + 1) = 0 + 1
      BY <1>3, <3>2, <3>3, Zenon DEF CountAt
    <3> QED
      BY <3>1, <3>4, Zenon
  <2> QED
    BY <1>1, <2>1, <2>2, Zenon DEF Counted
<1>10. Held(M, far, pairs)
  BY <1>1, Zenon DEF Held
<1> QED
  BY <1>1, <1>3, <1>4, <1>9, <1>10, Zenon

(* Where insert() does not, behind the callers that are there. *)
GrowthAt(d, addr, pos, own, path, cell, M) ==
  /\ WalkOK(d)
  /\ addr \in Addrs
  /\ pos = Position(d.mem, d.cell, addr)
  /\ own = Own(d)
  /\ own <= MaxArrays
  /\ ~pos.match
  /\ d.mem[d.cell].callers_filled < MaxCallers
  /\ ~(pos.at < d.mem[d.cell].callers_filled)
  /\ (own > d.arrays => d.unused = 0)
  /\ Tree(d.mem, path)
  /\ d.cell \in InUse(d.mem)
  /\ cell = <<own, pos.at>>
  /\ M = [Added(d, own, pos.at, addr) EXCEPT ![cell].user = @ + 1]

(* What insert() does without a match, while nothing has been moved. *)
LEMMA InsertGrows ==
  ASSUME NEW d, NEW addr, NEW pos, NEW own, NEW path, NEW cell, NEW M,
         GrowthAt(d, addr, pos, own, path, cell, M)
  PROVE  Grows(d.mem, M, cell, d.cell, own, addr) /\ M[cell].user = d.mem[cell].user + 1
<1>g. SUFFICES ASSUME WalkOK(d),
                      addr \in Addrs,
                      pos = Position(d.mem, d.cell, addr),
                      own = Own(d),
                      own <= MaxArrays,
                      ~pos.match,
                      d.mem[d.cell].callers_filled < MaxCallers,
                      ~(pos.at < d.mem[d.cell].callers_filled),
                      (own > d.arrays => d.unused = 0),
                      Tree(d.mem, path),
                      d.cell \in InUse(d.mem),
                      cell = <<own, pos.at>>,
                      M = [Added(d, own, pos.at, addr) EXCEPT ![cell].user = @ + 1]
               PROVE  Grows(d.mem, M, cell, d.cell, own, addr) /\ M[cell].user = d.mem[cell].user + 1
  BY Zenon DEF GrowthAt
<1>a. PICK m, to, n, arr : m = d.mem /\ to = d.cell /\ n = m[to].callers_filled /\ arr = d.arrays
  OBVIOUS
<1>h. n < MaxCallers /\ ~(pos.at < n) /\ (own > arr => d.unused = 0)
  BY <1>g, <1>a, Zenon
<1>1. /\ m \in [Cells -> Frames] /\ arr \in 0 .. MaxArrays /\ to \in Cells
      /\ \A c \in Cells : m[c].callers # 0 => c[1] < m[c].callers /\ m[c].callers <= arr
      /\ MaxArrays \in Nat /\ MaxCallers \in Nat
  BY <1>g, <1>a, MdbConstants, Zenon DEF WalkOK, MdbOK
<1>2. /\ own \in 1 .. MaxArrays /\ to[1] < own /\ own <= arr + 1
      /\ cell \in Cells /\ cell # to /\ cell # Root
      /\ pos.at \in 0 .. n
      /\ Placed(m, to, addr, pos, <<0, n>>)
  <2>1. /\ own \in 1 .. MaxArrays /\ d.cell[1] < own /\ own <= d.arrays + 1
        /\ <<own, pos.at>> \in Cells /\ <<own, pos.at>> # d.cell /\ <<own, pos.at>> # Root
        /\ ~pos.match => pos.at \in 0 .. d.mem[d.cell].callers_filled
        /\ Placed(d.mem, d.cell, addr, pos, <<0, d.mem[d.cell].callers_filled>>)
    BY <1>g, InsertPlace
  <2> QED
    BY <1>g, <1>a, <2>1, Zenon
<1>3. n \in 0 .. MaxCallers /\ m[to].callers \in 0 .. MaxArrays /\ to[1] \in Nat
  <2>1. m[to].callers_filled \in 0 .. MaxCallers /\ m[to].callers \in 0 .. MaxArrays /\ to[1] \in 0 .. MaxArrays
    BY <1>1, FrameIs
  <2>2. to[1] \in Nat
    BY <1>1, <2>1
  <2> QED
    BY <1>a, <2>1, <2>2, Zenon
<1>4. pos.at = n /\ cell = <<own, n>>
  <2>1. pos.at = n
    BY <1>2, <1>3, <1>h
  <2> QED
    BY <1>g, <2>1, Zenon
<1>5. own = IF m[to].callers = 0 THEN arr + 1 ELSE m[to].callers
  BY <1>g, <1>a, Zenon DEF Own
<1>6. m[to].callers \in {0, own}
  BY <1>5, Zenon
<1>7. to \in InUse(m) /\ Tree(m, path)
  BY <1>g, <1>a, Zenon
<1>8. ASSUME NEW o \in InUse(m) \ {to}
      PROVE  m[o].callers # own
  <2>1. o \in Cells
    BY DEF InUse
  <2>2. CASE m[to].callers = 0
    <3>1. own = arr + 1
      BY <1>5, <2>2, Zenon
    <3>2. m[o].callers # 0 => m[o].callers <= arr
      BY <1>1, <2>1, Zenon
    <3>3. m[o].callers \in 0 .. MaxArrays
      BY <1>1, <2>1, FrameIs
    <3> QED
      BY <1>1, <3>1, <3>2, <3>3
  <2>3. CASE m[to].callers # 0
    <3>1. own = m[to].callers
      BY <1>5, <2>3, Zenon
    <3>2. m[o].callers = m[to].callers => o = to
      BY <1>1, <1>7, <2>3, OneOwner, Zenon
    <3> QED
      BY <3>1, <3>2, Zenon
  <2> QED
    BY <2>2, <2>3
<1>9. cell \notin InUse(m)
  <2> SUFFICES ASSUME cell \in InUse(m)
               PROVE  FALSE
    OBVIOUS
  <2>a. PICK c \in InUse(m) \ {Root} : c = cell
    BY <1>2, Zenon
  <2>0. PICK o \in InUse(m) : \E k \in 0 .. m[o].callers_filled - 1 : cell = <<m[o].callers, k>>
    BY <1>1, <1>7, <2>a, CellInRow, Zenon
  <2>1. PICK k \in 0 .. m[o].callers_filled - 1 : cell = <<m[o].callers, k>>
    BY <2>0
  <2>2. m[o].callers = own /\ k = n
    BY <1>4, <2>1
  <2>3. o = to
    BY <1>8, <2>2
  <2>4. n \in 0 .. n - 1
    BY <1>a, <2>1, <2>2, <2>3, Zenon
  <2> QED
    BY <1>3, <2>4
<1>10. \A k \in 0 .. m[to].callers_filled - 1 : Faddr(m, to, k) < addr
  <2>1. InOrder(m, to)
    BY <1>7, Zenon DEF Tree, Rows
  <2>2. Between(m, to, addr, 0, n)
    <3>1. \A k : ~(k \in 0 .. 0 - 1)
      OBVIOUS
    <3>2. \A k \in n .. n - 1 : FALSE
      BY <1>3
    <3> QED
      BY <1>a, <3>1, <3>2, Zenon DEF Between
  <2>3. <<0, n>>[1] = 0 /\ <<0, n>>[2] = n
    OBVIOUS
  <2>4. Between(m, to, addr, pos.at, pos.at)
    BY <1>2, <1>g, <2>1, <2>2, <2>3, Zenon DEF Placed
  <2> QED
    BY <1>4, <1>a, <2>4, Zenon DEF Between
<1>11. PICK S : S = Slid(d, own, pos.at)
  OBVIOUS
<1>12. /\ S \in [Cells -> Frames]
       /\ \A c \in Cells : c[1] # own => S[c] = m[c]
       /\ \A k \in 0 .. MaxCallers - 1 : own <= arr =>
            S[<<own, k>>] = IF pos.at < k /\ k <= n THEN m[<<own, k - 1>>] ELSE m[<<own, k>>]
       /\ own > arr => \A k \in 0 .. MaxCallers - 1 : S[<<own, k>>] = Fresh(d.unused)
  <2>1. pos.at \in Nat
    BY <1>3, <1>4
  <2>2. /\ S \in [Cells -> Frames]
        /\ \A c \in Cells : c[1] # own => S[c] = d.mem[c]
        /\ \A k \in 0 .. MaxCallers - 1 : own <= d.arrays =>
             S[<<own, k>>] = IF pos.at < k /\ k <= d.mem[d.cell].callers_filled THEN d.mem[<<own, k - 1>>]
                             ELSE d.mem[<<own, k>>]
        /\ own > d.arrays => \A k \in 0 .. MaxCallers - 1 : S[<<own, k>>] = Fresh(d.unused)
    <3>1. WalkOK(d) /\ own \in 1 .. MaxArrays
      BY <1>g, <1>2, Zenon
    <3> QED
      BY <1>11, <2>1, <3>1, SlidIs
  <2> QED
    BY <1>a, <2>2, Zenon
<1>13. ASSUME NEW c \in Cells
       PROVE  /\ S[c].faddr = m[c].faddr /\ S[c].user = m[c].user
              /\ S[c].callers = m[c].callers /\ S[c].callers_filled = m[c].callers_filled
              /\ c \in InUse(m) => S[c].callee = m[c].callee
  <2>1. CASE c[1] # own
    BY <1>12, <2>1, Zenon
  <2>2. CASE c[1] = own
    <3>1. c[2] \in 0 .. MaxCallers - 1 /\ c = <<own, c[2]>>
      BY <1>1, <2>2, FrameIs
    <3>2. PICK k \in 0 .. MaxCallers - 1 : c = <<own, k>>
      BY <3>1, Zenon
    <3>3. CASE own <= arr
      <4>1. ~(pos.at < k /\ k <= n)
        BY <1>3, <1>4, <1>1, <3>2
      <4>2. S[c] = m[c]
        BY <1>12, <3>2, <3>3, <4>1, Zenon
      <4> QED
        BY <4>2, Zenon
    <3>4. CASE own > arr
      <4>1. c \notin InUse(m)
        <5> SUFFICES ASSUME c \in InUse(m)
                       PROVE  FALSE
          OBVIOUS
        <5>1. c # Root
          BY <1>2, <3>2 DEF Root
        <5>2. PICK o \in InUse(m) : \E j \in 0 .. m[o].callers_filled - 1 : c = <<m[o].callers, j>>
          BY <1>1, <1>7, <5>1, CellInRow
        <5>3. m[o].callers = own /\ o \in Cells
          BY <3>2, <5>2 DEF InUse
        <5>4. own # 0 => own <= arr
          BY <1>1, <5>3, Zenon
        <5> QED
          BY <1>1, <1>2, <3>4, <5>4
      <4>2. m[c].faddr = 0 /\ m[c].user = 0 /\ m[c].callers = 0 /\ m[c].callers_filled = 0
        BY <1>7, <4>1, Zenon DEF InUse, Tree, Rows
      <4>3. S[c] = Fresh(0)
        BY <1>12, <1>h, <3>2, <3>4, Zenon
      <4>4. S[c].faddr = 0 /\ S[c].user = 0 /\ S[c].callers = 0 /\ S[c].callers_filled = 0
        BY <4>3 DEF Fresh
      <4> QED
        BY <4>1, <4>2, <4>4, Zenon
    <3> QED
      <4>1. own <= arr \/ own > arr
        BY <1>1, <1>2
      <4> QED
        BY <3>3, <3>4, <4>1
  <2> QED
    BY <2>1, <2>2
<1>14. IsAdded(M, S, cell, to, addr, own)
  <2>1. S[to].callers_filled < MaxCallers
    BY <1>1, <1>13, <1>a, <1>h, Zenon
  <2>2. AddsTo(M, S, cell, to, addr, own)
    BY <1>g, <1>11, <1>a, Zenon DEF AddsTo, Added
  <2> QED
    BY <1>1, <1>2, <1>12, <1>g, <2>1, <2>2, AddedIs, Zenon
<1>15. m[cell].callers = 0 /\ m[cell].callers_filled = 0
  BY <1>2, <1>7, <1>9, Zenon DEF Tree, Rows
<1>b. /\ \A c \in Cells \ {cell, to} : M[c] = S[c]
      /\ M[cell].faddr = addr /\ M[cell].callee = to /\ M[cell].user = S[cell].user + 1
      /\ M[cell].callers = S[cell].callers /\ M[cell].callers_filled = S[cell].callers_filled
      /\ M[to].callers = own /\ M[to].callers_filled = S[to].callers_filled + 1
      /\ M[to].faddr = S[to].faddr /\ M[to].callee = S[to].callee /\ M[to].user = S[to].user
  BY <1>14, Zenon DEF IsAdded
<1>c. ASSUME NEW c \in Cells \ {cell}
      PROVE  /\ M[c].faddr = m[c].faddr /\ M[c].user = m[c].user
             /\ c # to => M[c].callers = m[c].callers /\ M[c].callers_filled = m[c].callers_filled
             /\ c \in InUse(m) => M[c].callee = m[c].callee
  <2>1. CASE c = to
    BY <1>13, <1>b, <2>1, Zenon
  <2>2. CASE c # to
    <3>1. M[c] = S[c]
      BY <1>b, <2>2
    <3> QED
      BY <1>13, <3>1, Zenon
  <2> QED
    BY <2>1, <2>2
<1>16. \A c \in Cells \ {cell} : M[c].faddr = m[c].faddr /\ M[c].user = m[c].user
  BY <1>c, Zenon
<1>17. \A c \in Cells \ {cell, to} : M[c].callers = m[c].callers /\ M[c].callers_filled = m[c].callers_filled
  BY <1>c
<1>18. \A c \in InUse(m) : M[c].callee = m[c].callee
  <2>1. \A c \in InUse(m) : c \in Cells /\ c # cell
    BY <1>9, Zenon DEF InUse
  <2> QED
    BY <1>c, <2>1
<1>19. /\ M[cell].faddr = addr /\ M[cell].callee = to /\ M[cell].callers = 0 /\ M[cell].callers_filled = 0
       /\ M[to].callers = own /\ M[to].callers_filled = m[to].callers_filled + 1
       /\ M[cell].user = m[cell].user + 1
  <2>1. /\ S[cell].user = m[cell].user /\ S[cell].callers = m[cell].callers
        /\ S[cell].callers_filled = m[cell].callers_filled
    BY <1>2, <1>13, Zenon
  <2>2. S[to].callers_filled = m[to].callers_filled
    BY <1>1, <1>13, Zenon
  <2> QED
    BY <1>15, <1>b, <2>1, <2>2, Zenon
<1>20. own # 0 /\ addr \in Nat \ {0}
  <2>1. own \in 1 .. MaxArrays /\ addr \in Addrs
    BY <1>g, <1>2, Zenon
  <2> QED
    BY <2>1, MdbConstants
<1>21. cell = <<own, m[to].callers_filled>>
  BY <1>4, <1>a, Zenon
<1>22. Grows(m, M, cell, to, own, addr)
  BY <1>2, <1>6, <1>7, <1>8, <1>9, <1>10, <1>16, <1>17, <1>18, <1>19, <1>20, <1>21, Zenon DEF Grows
<1> QED
  BY <1>a, <1>19, <1>22, Zenon

(* One call of insert(), as long as no frame has to be moved. *)
LEMMA InsertAccounts ==
  ASSUME NEW d, WalkOK(d), NEW pairs, Len(pairs) \in Nat, NEW bt \in Traces, NEW k \in Nat, k < Len(bt),
         NEW path, Accounts(d, path, pairs, bt, k),
         NEW r, r = Insert(d, bt[k + 1]), r.fits, ~r.stale
  PROVE  ~d.stale /\ \E far : Accounts(r, far, pairs, bt, k + 1)
<1>a. PICK addr, pos, own : addr = bt[k + 1] /\ pos = Position(d.mem, d.cell, addr) /\ own = Own(d)
  OBVIOUS
<1>b. InsertsAs(r, d, addr, pos, own)
  BY <1>a, InsertIs, Zenon
<1>1. /\ r.cell = <<own, pos.at>>
      /\ r.fits = (d.fits /\ own <= MaxArrays /\ (pos.match \/ d.mem[d.cell].callers_filled < MaxCallers))
      /\ pos.match => r.mem = [d.mem EXCEPT ![<<own, pos.at>>].user = @ + 1]
      /\ ~pos.match => r.mem = [Added(d, own, pos.at, addr) EXCEPT ![<<own, pos.at>>].user = @ + 1]
      /\ r.stale = ((d.stale \/ (~pos.match /\ pos.at < d.mem[d.cell].callers_filled))
                    \/ (own > d.arrays /\ d.unused # 0))
  BY <1>b, Zenon DEF InsertsAs
<1>2. own <= MaxArrays /\ (pos.match \/ d.mem[d.cell].callers_filled < MaxCallers)
  BY <1>1, Zenon
<1>3. ~d.stale /\ ~(~pos.match /\ pos.at < d.mem[d.cell].callers_filled) /\ (own > d.arrays => d.unused = 0)
  BY <1>1, Zenon
<1>4. addr \in Addrs
  <2>1. k + 1 \in 1 .. Len(bt) /\ \A i \in 1 .. Len(bt) : bt[i] \in Addrs
    BY MdbConstants
  <2> QED
    BY <1>a, <2>1, Zenon
<1>5. /\ Tree(d.mem, path) /\ Held(d.mem, path, pairs) /\ Counted(d.mem, path, pairs, bt, k)
      /\ d.cell \in InUse(d.mem) /\ Len(path[d.cell]) = k /\ Begins(path[d.cell], bt)
  BY Zenon DEF Accounts, OnWay
<1>6. d.mem \in [Cells -> Frames]
  BY DEF WalkOK, MdbOK
<1>7. CASE pos.match
  <2>1. pos.at \in 0 .. d.mem[d.cell].callers_filled - 1 /\ Faddr(d.mem, d.cell, pos.at) = addr
    <3>1. Found(d.mem, d.cell, addr, pos)
      BY <1>2, <1>4, <1>a, InsertPlace, Zenon
    <3> QED
      BY <1>7, <3>1, Zenon DEF Found
  <2>2. own = d.mem[d.cell].callers
    <3>1. d.cell \in Cells /\ d.mem[d.cell].callers_filled # 0
      BY <2>1, <1>5 DEF InUse
    <3>2. d.mem[d.cell].callers # 0
      BY <1>5, <3>1, Zenon DEF Tree, Rows
    <3> QED
      BY <1>a, <3>2, Zenon DEF Own
  <2>3. PICK m, to, at, cell, M : m = d.mem /\ to = d.cell /\ at = pos.at /\ cell = r.cell /\ M = r.mem
    OBVIOUS
  <2>4. cell = <<m[to].callers, at>> /\ M = [m EXCEPT ![cell].user = @ + 1]
    BY <1>1, <1>7, <2>2, <2>3, Zenon
  <2>5. at \in 0 .. m[to].callers_filled - 1 /\ Faddr(m, to, at) = bt[k + 1]
    BY <2>1, <2>3, <1>a, Zenon
  <2>6. /\ Tree(m, path) /\ Held(m, path, pairs) /\ Counted(m, path, pairs, bt, k) /\ m \in [Cells -> Frames]
        /\ to \in InUse(m) /\ Len(path[to]) = k /\ Begins(path[to], bt)
    BY <1>5, <1>6, <2>3, Zenon
  <2>7. /\ Tree(M, path) /\ InUse(M) = InUse(m) /\ Counted(M, path, pairs, bt, k + 1)
        /\ cell \in InUse(m) /\ Len(path[cell]) = k + 1 /\ Begins(path[cell], bt)
    <3>1. MatchAt(m, path, pairs, bt, k, to, at, cell, M)
      BY <2>4, <2>5, <2>6, Zenon DEF MatchAt
    <3> QED
      BY <3>1, MatchCounts
  <2>8. Held(M, path, pairs)
    BY <2>6, <2>7, Zenon DEF Held
  <2>9. Accounts(r, path, pairs, bt, k + 1)
    BY <2>3, <2>7, <2>8, Zenon DEF Accounts, OnWay
  <2> QED
    BY <1>3, <2>9, Zenon
<1>8. CASE ~pos.match
  <2>1. ~(pos.at < d.mem[d.cell].callers_filled) /\ d.mem[d.cell].callers_filled < MaxCallers
    BY <1>2, <1>3, <1>8, Zenon
  <2>2. PICK cell, M : cell = r.cell /\ M = r.mem
    OBVIOUS
  <2>3. cell = <<own, pos.at>> /\ M = [Added(d, own, pos.at, addr) EXCEPT ![cell].user = @ + 1]
    BY <1>1, <1>8, <2>2, Zenon
  <2>4. Grows(d.mem, M, cell, d.cell, own, addr) /\ M[cell].user = d.mem[cell].user + 1
    <3>1. GrowthAt(d, addr, pos, own, path, cell, M)
      BY <1>2, <1>3, <1>4, <1>5, <1>8, <1>a, <2>1, <2>3, Zenon DEF GrowthAt
    <3> QED
      BY <3>1, InsertGrows
  <2>5. PICK m, to, far : m = d.mem /\ to = d.cell /\ far = Further(path, cell, to, addr)
    OBVIOUS
  <2>6. /\ Tree(m, path) /\ Held(m, path, pairs) /\ Counted(m, path, pairs, bt, k) /\ m \in [Cells -> Frames]
        /\ Len(path[to]) = k /\ Begins(path[to], bt)
        /\ Grows(m, M, cell, to, own, addr) /\ M[cell].user = m[cell].user + 1
    BY <1>5, <1>6, <2>4, <2>5, Zenon
  <2>7. /\ Tree(M, far) /\ Counted(M, far, pairs, bt, k + 1) /\ Held(M, far, pairs)
        /\ cell \in InUse(M) /\ Len(far[cell]) = k + 1 /\ Begins(far[cell], bt)
    <3>1. GrownAt(m, path, pairs, bt, k, to, addr, M, cell, own, far)
      BY <1>a, <2>5, <2>6, Zenon DEF GrownAt
    <3> QED
      BY <3>1, GrownCounts
  <2>8. Accounts(r, far, pairs, bt, k + 1)
    BY <2>2, <2>7, Zenon DEF Accounts, OnWay
  <2> QED
    BY <1>3, <2>8, Zenon
<1> QED
  BY <1>7, <1>8

(* The whole backtrace: afterwards every frame it goes through has been    *)
(* counted once more, and the last cell is at its end. *)
LEMMA WalkAccounts ==
  ASSUME MdbOK(mem, arrays), NEW u \in Nat, NEW bt \in Traces, Walk(u, bt).fits, ~Walk(u, bt).stale,
         Len(pairdb) \in Nat, ~stale => \E path : Accounts(Start(u), path, pairdb, bt, 0)
  PROVE  ~stale /\ \E far : Accounts(Walk(u, bt), far, pairdb, bt, Len(bt))
<1> DEFINE W == Steps(u, bt)
           Fine(k) == W[k].fits /\ ~W[k].stale => ~stale /\ \E far : Accounts(W[k], far, pairdb, bt, k)
           T == {k \in 1 .. Len(bt) + 1 : (W[k - 1].fits => WalkOK(W[k - 1])) /\ Fine(k - 1)}
<1>0. Len(bt) \in Nat /\ \A k \in 1 .. Len(bt) : bt[k] \in Addrs
  BY MdbConstants, Zenon
<1>1. Walk(u, bt) = W[Len(bt)] /\ W[0] = Start(u) /\ \A k \in 1 .. Len(bt) : W[k] = Insert(W[k - 1], bt[k])
  BY <1>0, WalkIs
<1>2. WalkOK(W[0]) /\ Fine(0)
  <2>1. /\ Start(u).mem = mem /\ Start(u).cell = Root /\ Start(u).arrays = arrays /\ Start(u).unused = u
        /\ Start(u).stale = stale
    BY DEF Start
  <2>2. WalkOK(Start(u))
    BY <2>1, MdbConstants, Zenon DEF WalkOK
  <2> QED
    BY <1>1, <2>1, <2>2, Zenon
<1> HIDE DEF W
<1>3. 1 \in T
  <2>1. 1 \in 1 .. Len(bt) + 1 /\ 1 - 1 = 0
    BY <1>0
  <2> HIDE DEF Fine
  <2> QED
    BY <1>2, <2>1, Zenon
<1>4. ASSUME NEW k \in T, k < Len(bt) + 1
      PROVE  k + 1 \in T
  <2>0. k \in 1 .. Len(bt) /\ k + 1 \in 1 .. Len(bt) + 1 /\ (k + 1) - 1 = k
    BY <1>0, <1>4
  <2>1. PICK j \in Nat : j = k - 1 /\ k = j + 1 /\ j < Len(bt)
    BY <1>0, <2>0
  <2>2. PICK d, r : d = W[j] /\ r = W[k]
    OBVIOUS
  <2>3. r = Insert(d, bt[j + 1]) /\ bt[j + 1] \in Addrs
    BY <1>0, <1>1, <2>0, <2>1, <2>2, Zenon
  <2>4. (d.fits => WalkOK(d)) /\ Fine(j)
    BY <2>1, <2>2, Zenon
  <2>5. ASSUME r.fits
        PROVE  d.fits /\ WalkOK(d) /\ WalkOK(r)
    <3>1. d.fits
      BY <2>3, <2>5, InsertFits, Zenon
    <3> QED
      BY <2>3, <2>4, <2>5, <3>1, InsertKeeps, Zenon
  <2>6. ASSUME r.fits, ~r.stale
        PROVE  ~stale /\ \E far : Accounts(r, far, pairdb, bt, j + 1)
    <3>1. WalkOK(d) /\ d.fits
      BY <2>5, <2>6
    <3>2. ASSUME NEW on, Accounts(d, on, pairdb, bt, j)
          PROVE  ~d.stale /\ \E far : Accounts(r, far, pairdb, bt, j + 1)
      BY <2>1, <2>3, <2>6, <3>1, <3>2, InsertAccounts
    <3>3. CASE d.stale
      <4>1. r.stale = ((d.stale \/ (~Position(d.mem, d.cell, bt[j + 1]).match
                                    /\ Position(d.mem, d.cell, bt[j + 1]).at < d.mem[d.cell].callers_filled))
                       \/ (Own(d) > d.arrays /\ d.unused # 0))
        <5>1. InsertsAs(r, d, bt[j + 1], Position(d.mem, d.cell, bt[j + 1]), Own(d))
          BY <2>3, InsertIs, Zenon
        <5> QED
          BY <5>1, Zenon DEF InsertsAs
      <4> QED
        BY <2>6, <3>3, <4>1, Zenon
    <3>4. CASE ~d.stale
      <4>1. ~stale /\ \E on : Accounts(d, on, pairdb, bt, j)
        BY <2>2, <2>4, <3>1, <3>4, Zenon
      <4> QED
        BY <3>2, <4>1, Zenon
    <3> QED
      BY <3>3, <3>4
  <2>7. (r.fits => WalkOK(r)) /\ Fine(k)
    BY <2>1, <2>2, <2>5, <2>6, Zenon
  <2> HIDE DEF Fine
  <2> QED
    BY <2>0, <2>2, <2>7, Zenon
<1>5. Fine(Len(bt))
  <2>1. T \in SUBSET Nat /\ Len(bt) + 1 \in Nat /\ Len(bt) + 1 \in 1 .. Len(bt) + 1
    BY <1>0
  <2> HIDE DEF T
  <2>2. 1 .. Len(bt) + 1 \subseteq T
    BY <1>3, <1>4, <2>1, CountingUp, Zenon
  <2>3. Len(bt) + 1 \in T /\ (Len(bt) + 1) - 1 = Len(bt)
    BY <1>0, <2>1, <2>2
  <2> USE DEF T
  <2> HIDE DEF Fine
  <2> QED
    BY <2>3, Zenon
<1> QED
  BY <1>1, <1>5, Zenon

-----------------------------------------------------------------------------
(* Between the calls of mdb_add() and mdb_del(): every count is the number *)
(* of recorded blocks whose backtrace goes through the frame.              *)
AccountIs(m, pairs, path) ==
  /\ Tree(m, path) /\ Held(m, path, pairs)
  /\ \A c \in InUse(m) \ {Root} : m[c].user = Cardinality(Through(pairs, path[c]))

(* As long as no frame has been moved there is such an account, and every  *)
(* block that was freed had all its frames counted.                        *)
TreeInv == ~stale => ~failed /\ \E path : AccountIs(mem, pairdb, path)

(* Below the root every path has at least one address. *)
LEMMA PathsAre ==
  ASSUME NEW m \in [Cells -> Frames], NEW path, Tree(m, path)
  PROVE  /\ \A c \in InUse(m) : c \in Cells /\ path[c] \in Seq(Nat) /\ Len(path[c]) \in Nat
         /\ \A c \in InUse(m) \ {Root} : Len(path[c]) > 0
         /\ Root \in InUse(m) /\ path[Root] = <<>> /\ Len(path[Root]) = 0
<1>1. path \in [Cells -> Seq(Nat)] /\ path[Root] = <<>> /\ Root \in InUse(m)
  BY MdbConstants DEF Tree, Linked, InUse
<1>2. ASSUME NEW c \in InUse(m)
      PROVE  c \in Cells /\ path[c] \in Seq(Nat) /\ Len(path[c]) \in Nat
  <2>1. c \in Cells /\ path[c] \in Seq(Nat)
    BY <1>1 DEF InUse
  <2> QED
    BY <2>1
<1>3. ASSUME NEW c \in InUse(m) \ {Root}
      PROVE  Len(path[c]) > 0
  <2>1. PICK o \in InUse(m) : \E k \in 0 .. m[o].callers_filled - 1 :
          path[c] = Append(path[o], m[c].faddr) /\ path[o] \in Seq(Nat) /\ m[c].faddr \in Nat \ {0}
    BY CellOf
  <2>2. Len(path[c]) = Len(path[o]) + 1 /\ Len(path[o]) \in Nat
    BY <2>1, OneFurther
  <2> QED
    BY <2>2
<1>4. Len(path[Root]) = 0
  BY <1>1
<1> QED
  BY <1>1, <1>2, <1>3, <1>4, Zenon

(* What a walk starts from. *)
LEMMA StartAccounts ==
  ASSUME mem \in [Cells -> Frames], Len(pairdb) \in Nat, NEW u, NEW bt \in Traces,
         NEW path, AccountIs(mem, pairdb, path)
  PROVE  Accounts(Start(u), path, pairdb, bt, 0)
<1>1. Tree(mem, path) /\ Held(mem, path, pairdb)
  BY Zenon DEF AccountIs
<1>2. /\ \A c \in InUse(mem) \ {Root} : Len(path[c]) > 0
      /\ Root \in InUse(mem) /\ Len(path[Root]) = 0
      /\ \A c \in InUse(mem) : Len(path[c]) \in Nat
  BY <1>1, PathsAre
<1>3. Start(u).mem = mem /\ Start(u).cell = Root
  BY DEF Start
<1>4. Begins(path[Root], bt)
  <2>1. Len(bt) \in Nat
    BY MdbConstants
  <2> QED
    BY <1>2, <2>1 DEF Begins
<1>5. Counted(mem, path, pairdb, bt, 0)
  <2> SUFFICES ASSUME NEW c \in InUse(mem) \ {Root}
               PROVE  mem[c].user = CountAt(path[c], pairdb, bt, 0)
    BY Zenon DEF Counted
  <2>1. ~(Len(path[c]) <= 0)
    BY <1>2
  <2>2. CountAt(path[c], pairdb, bt, 0) = Cardinality(Through(pairdb, path[c])) + 0
    BY <2>1, Zenon DEF CountAt
  <2>3. Cardinality(Through(pairdb, path[c])) \in Nat
    BY ThroughIsNumber
  <2>4. CountAt(path[c], pairdb, bt, 0) = Cardinality(Through(pairdb, path[c]))
    BY <2>2, <2>3
  <2> QED
    BY <2>4, Zenon DEF AccountIs
<1> QED
  BY <1>1, <1>2, <1>3, <1>4, <1>5, Zenon DEF Accounts, OnWay

(* One more block goes through the beginnings of its backtrace. *)
LEMMA ThroughAppended ==
  ASSUME NEW pairs, IsList(pairs), NEW e, NEW p
  PROVE  Cardinality(Through(Append(pairs, e), p))
           = Cardinality(Through(pairs, p)) + IF Begins(p, e.by) THEN 1 ELSE 0
<1> DEFINE more == Append(pairs, e)
           n == Len(pairs)
<1>1. n \in Nat /\ Len(more) = n + 1 /\ (\A k \in 1 .. n : more[k] = pairs[k]) /\ more[n + 1] = e
  BY AppendedIsList
<1>2. IsFiniteSet(Through(pairs, p)) /\ Cardinality(Through(pairs, p)) \in Nat
  BY <1>1, ThroughIsNumber
<1>3. n + 1 \notin Through(pairs, p)
  BY <1>1 DEF Through
<1> HIDE DEF more, n
<1>4. 1 .. n + 1 = (1 .. n) \cup {n + 1}
  BY <1>1
<1>5. Through(more, p) = {k \in 1 .. n + 1 : Begins(p, more[k].by)}
  BY <1>1, Zenon DEF Through
<1>6. Through(pairs, p) = {k \in 1 .. n : Begins(p, more[k].by)}
  <2>1. \A k \in 1 .. n : Begins(p, more[k].by) <=> Begins(p, pairs[k].by)
    BY <1>1, Zenon
  <2> QED
    BY <2>1, Zenon DEF Through, n
<1>7. CASE Begins(p, e.by)
  <2>1. Through(more, p) = Through(pairs, p) \cup {n + 1}
    BY <1>1, <1>4, <1>5, <1>6, <1>7, Zenon
  <2>2. Cardinality(Through(more, p)) = Cardinality(Through(pairs, p)) + 1
    BY <1>2, <1>3, <2>1, FS_AddElement, Zenon
  <2> QED
    BY <1>7, <2>2, Zenon DEF more
<1>8. CASE ~Begins(p, e.by)
  <2>1. Through(more, p) = Through(pairs, p)
    BY <1>1, <1>4, <1>5, <1>6, <1>8, Zenon
  <2>2. Cardinality(Through(more, p)) = Cardinality(Through(pairs, p)) + 0
    BY <1>2, <2>1
  <2> QED
    BY <1>8, <2>2, Zenon DEF more
<1> QED
  BY <1>7, <1>8

(* A beginning that is not shorter is the whole. *)
LEMMA BeginsWhole ==
  ASSUME NEW p \in Seq(Nat), NEW q \in Seq(Nat), Len(p) = Len(q), Begins(p, q)
  PROVE  p = q
BY SMTT(30) DEF Begins

(* A recorded block has its account. *)
LEMMA AddAccounts ==
  ASSUME MdbOK(mem, arrays), IsList(pairdb), TreeInv, NEW ptr, NEW bt \in Traces, mdb_add(ptr, bt), ~stale'
  PROVE  ~stale /\ failed' = failed /\ \E path : AccountIs(mem', pairdb', path)
<1>1. PICK u \in Unused :
        /\ Walk(u, bt).fits /\ mem' = Walk(u, bt).mem /\ stale' = Walk(u, bt).stale
        /\ pairdb' = Append(pairdb, [ptr |-> ptr, frame |-> Walk(u, bt).cell, by |-> bt])
  BY Zenon DEF mdb_add
<1>2. /\ u \in Nat /\ Len(pairdb) \in Nat /\ mem \in [Cells -> Frames] /\ Len(bt) \in Nat /\ bt \in Seq(Nat)
      /\ \A k \in 1 .. Len(bt) : bt[k] \in Addrs
  BY MdbAssumption, MdbConstants DEF IsList, MdbOK
<1>3. ~stale => \E path : Accounts(Start(u), path, pairdb, bt, 0)
  BY <1>2, StartAccounts, Zenon DEF TreeInv
<1>4. ~stale /\ \E far : Accounts(Walk(u, bt), far, pairdb, bt, Len(bt))
  BY <1>1, <1>2, <1>3, WalkAccounts
<1>5. PICK path : Accounts(Walk(u, bt), path, pairdb, bt, Len(bt))
  BY <1>4, Zenon
<1>6. PICK m, cell, pairs : m = mem' /\ cell = Walk(u, bt).cell /\ pairs = pairdb'
  OBVIOUS
<1>7. /\ Tree(m, path) /\ Held(m, path, pairdb) /\ Counted(m, path, pairdb, bt, Len(bt))
      /\ cell \in InUse(m) /\ Len(path[cell]) = Len(bt) /\ Begins(path[cell], bt)
  BY <1>1, <1>5, <1>6, Zenon DEF Accounts, OnWay
<1>8. m \in [Cells -> Frames]
  <2>1. WalkOK(Walk(u, bt))
    BY <1>1, <1>2, WalkKeeps, Zenon
  <2> QED
    BY <1>1, <1>6, <2>1, Zenon DEF WalkOK, MdbOK
<1>9. \A c \in InUse(m) : path[c] \in Seq(Nat) /\ Len(path[c]) \in Nat
  BY <1>7, <1>8, PathsAre
<1>10. path[cell] = bt
  BY <1>2, <1>7, <1>9, BeginsWhole
<1>11. PICK e : e.frame = cell /\ e.by = bt /\ pairs = Append(pairdb, e)
  <2> DEFINE e == [ptr |-> ptr, frame |-> Walk(u, bt).cell, by |-> bt]
  <2>1. e.frame = cell /\ e.by = bt
    BY <1>6
  <2> QED
    BY <1>1, <1>6, <2>1, Zenon
<1>12. Held(m, path, pairs)
  <2>1. /\ Len(pairs) = Len(pairdb) + 1 /\ (\A k \in 1 .. Len(pairdb) : pairs[k] = pairdb[k])
        /\ pairs[Len(pairdb) + 1] = e
    BY <1>11, AppendedIsList
  <2>2. \A k \in 1 .. Len(pairdb) + 1 : k \in 1 .. Len(pairdb) \/ k = Len(pairdb) + 1
    BY <1>2
  <2> QED
    BY <1>7, <1>10, <1>11, <2>1, <2>2, Zenon DEF Held
<1>13. ASSUME NEW c \in InUse(m) \ {Root}
       PROVE  m[c].user = Cardinality(Through(pairs, path[c]))
  <2>1. m[c].user = CountAt(path[c], pairdb, bt, Len(bt))
    BY <1>7, Zenon DEF Counted
  <2>2. Begins(path[c], bt) => Len(path[c]) <= Len(bt)
    BY Zenon DEF Begins
  <2>3. CountAt(path[c], pairdb, bt, Len(bt))
          = Cardinality(Through(pairdb, path[c])) + IF Begins(path[c], bt) THEN 1 ELSE 0
    BY <2>2, Zenon DEF CountAt
  <2>4. Cardinality(Through(pairs, path[c]))
          = Cardinality(Through(pairdb, path[c])) + IF Begins(path[c], e.by) THEN 1 ELSE 0
    BY <1>11, ThroughAppended, Zenon
  <2> QED
    BY <1>11, <2>1, <2>3, <2>4, Zenon
<1>14. AccountIs(m, pairs, path)
  BY <1>7, <1>12, <1>13, Zenon DEF AccountIs
<1>15. failed' = failed
  BY Zenon DEF mdb_add
<1> QED
  BY <1>4, <1>6, <1>14, <1>15, Zenon

-----------------------------------------------------------------------------
(* No backtrace is longer than the array that backtrace() fills. *)
LEMMA DepthBounds == Depth \in Nat /\ \A bt \in Traces : Len(bt) \in 1 .. Depth
<1> DEFINE I == {Len(bt) : bt \in Traces}
<1>1. I \in SUBSET Nat /\ I # {} /\ IsFiniteSet(I)
  BY DepthAssumption, MdbConstants
<1>2. \A bt \in Traces : Len(bt) \in I /\ Len(bt) >= 1
  BY MdbAssumption
<1>3. Depth = Max(I)
  BY DEF Depth
<1> HIDE DEF I
<1>4. Depth \in I /\ \A k \in I : k <= Depth
  BY <1>1, <1>3, MaxIsGreatest
<1> QED
  BY <1>1, <1>2, <1>4

(* The cells from a frame upwards, one by one. *)
UpsTo(f, cell) ==
  f = [k \in 1 .. Depth |-> IF k = 1 THEN cell ELSE IF f[k - 1] = Root THEN Root ELSE mem[f[k - 1]].callee]
Ups(cell) == CHOOSE f : UpsTo(f, cell)

(* Stack is the set of them. *)
LEMMA StackIs ==
  ASSUME mem \in [Cells -> Frames], NEW cell \in Cells
  PROVE  /\ Stack(cell) = {Ups(cell)[k] : k \in 1 .. Depth} \ {Root}
         /\ \A k \in 1 .. Depth : Ups(cell)[k] = IF k = 1 THEN cell ELSE IF Ups(cell)[k - 1] = Root THEN Root
                                                 ELSE mem[Ups(cell)[k - 1]].callee
<1>1. Stack(cell) = {Ups(cell)[k] : k \in 1 .. Depth} \ {Root}
  BY Zenon DEF Stack, Ups, UpsTo
<1> DEFINE F == [x \in Nat \X Cells |-> IF x[2] = Root THEN Root ELSE mem[x[2]].callee]
<1>2. \E f : UpsTo(f, cell)
  <2>1. \A c \in Cells : mem[c].callee \in Cells
    BY FrameIs
  <2>2. F \in [Nat \X Cells -> Cells]
    BY <2>1, MdbConstants
  <2>3. \A k \in Nat, c \in Cells : F[<<k, c>>] = IF c = Root THEN Root ELSE mem[c].callee
    OBVIOUS
  <2>4. Depth \in Nat
    BY DepthBounds
  <2> HIDE DEF F
  <2>a. PICK G \in [Nat \X Cells -> Cells] :
          \A k \in Nat, c \in Cells : G[<<k, c>>] = IF c = Root THEN Root ELSE mem[c].callee
    BY <2>2, <2>3, Zenon
  <2>b. \E f \in [1 .. Depth -> Cells] : StepsTo(f, G, cell, 1, Depth)
    BY <2>4, StepsExist
  <2>5. PICK f \in [1 .. Depth -> Cells] :
          \A k \in 1 .. Depth : f[k] = IF k = 1 THEN cell ELSE G[<<k, f[k - 1]>>]
    BY <2>b, Zenon DEF StepsTo
  <2>6. \A k \in 1 .. Depth : k # 1 => k - 1 \in 1 .. Depth /\ k \in Nat
    BY <2>4
  <2>7. \A k \in 1 .. Depth : k # 1 => f[k - 1] \in Cells
    BY <2>5, <2>6
  <2>8. \A k \in 1 .. Depth :
          f[k] = IF k = 1 THEN cell ELSE IF f[k - 1] = Root THEN Root ELSE mem[f[k - 1]].callee
    BY <2>a, <2>5, <2>6, <2>7, Zenon
  <2>9. f = [k \in 1 .. Depth |-> IF k = 1 THEN cell ELSE IF f[k - 1] = Root THEN Root ELSE mem[f[k - 1]].callee]
    BY <2>5, <2>8
  <2> QED
    BY <2>9, Zenon DEF UpsTo
<1>3. UpsTo(Ups(cell), cell)
  BY <1>2, Zenon DEF Ups
<1> QED
  BY <1>1, <1>3, Zenon DEF UpsTo

(* From the frame at the end of a backtrace these are the frames that the  *)
(* backtrace goes through, all of them and no others. *)
LEMMA StackOf ==
  ASSUME mem \in [Cells -> Frames], NEW path, Tree(mem, path), NEW cell \in InUse(mem),
         NEW bt \in Traces, path[cell] = bt
  PROVE  Stack(cell) = {c \in InUse(mem) \ {Root} : Begins(path[c], bt)}
<1> DEFINE up == Ups(cell)
           n == Len(bt)
           At(k) == /\ up[k] \in InUse(mem) /\ Begins(path[up[k]], bt)
                    /\ IF k <= n THEN Len(path[up[k]]) = n + 1 - k ELSE up[k] = Root
           T == {k \in 1 .. Depth : At(k)}
<1>1. /\ Depth \in Nat /\ n \in 1 .. Depth
      /\ \A c \in InUse(mem) : c \in Cells /\ path[c] \in Seq(Nat) /\ Len(path[c]) \in Nat
      /\ \A c \in InUse(mem) \ {Root} : Len(path[c]) > 0
      /\ Root \in InUse(mem) /\ path[Root] = <<>> /\ Len(path[Root]) = 0
  BY DepthBounds, PathsAre
<1>2. /\ Stack(cell) = {up[k] : k \in 1 .. Depth} \ {Root}
      /\ \A k \in 1 .. Depth : up[k] = IF k = 1 THEN cell ELSE IF up[k - 1] = Root THEN Root
                                       ELSE mem[up[k - 1]].callee
  BY <1>1, StackIs
<1> HIDE DEF up, n
<1>3. Len(bt) = n /\ Len(bt) \in Nat
  BY <1>1 DEF n
<1>4. Begins(path[Root], bt)
  BY <1>1, <1>3 DEF Begins
<1>a. ASSUME NEW c \in InUse(mem) \ {Root}
      PROVE  \E o \in InUse(mem) :
               mem[c].callee = o /\ path[c] = Append(path[o], mem[c].faddr) /\ mem[c].faddr \in Nat
  <2>1. \E o \in InUse(mem) : \E j \in 0 .. mem[o].callers_filled - 1 :
          mem[c].callee = o /\ path[c] = Append(path[o], mem[c].faddr) /\ mem[c].faddr \in Nat \ {0}
    BY CellOf
  <2> QED
    BY <2>1
<1>5. 1 \in T
  <2>1. 1 \in 1 .. Depth /\ 1 <= n /\ n + 1 - 1 = n
    BY <1>1
  <2>2. up[1] = cell
    BY <1>2, <2>1
  <2>3. Begins(path[cell], bt)
    BY <1>3 DEF Begins
  <2>4. At(1)
    BY <1>3, <2>1, <2>2, <2>3, Zenon
  <2> HIDE DEF At
  <2> QED
    BY <2>1, <2>4
<1>6. ASSUME NEW k \in T, k < Depth
      PROVE  k + 1 \in T
  <2>1. k \in 1 .. Depth /\ At(k) /\ k \in Nat
    OBVIOUS
  <2>2. k + 1 \in 1 .. Depth /\ k + 1 # 1 /\ (k + 1) - 1 = k
    BY <1>1, <1>6
  <2>3. up[k + 1] = IF up[k] = Root THEN Root ELSE mem[up[k]].callee
    BY <1>2, <2>2, Zenon
  <2>4. CASE up[k] = Root
    <3>1. ~(k <= n)
      <4>1. k <= n => n + 1 - k # 0
        BY <1>1, <2>1
      <4> QED
        BY <1>1, <2>1, <2>4, <4>1, Zenon
    <3>2. ~(k + 1 <= n)
      BY <1>1, <2>1, <3>1
    <3> QED
      BY <1>1, <1>4, <2>2, <2>3, <2>4, <3>2, Zenon
  <2>5. CASE up[k] # Root
    <3>1. k <= n
      BY <2>1, <2>5, Zenon
    <3>2. PICK c \in InUse(mem) \ {Root} : c = up[k]
      BY <2>1, <2>5, Zenon
    <3>4. PICK o \in InUse(mem) :
            mem[c].callee = o /\ path[c] = Append(path[o], mem[c].faddr) /\ mem[c].faddr \in Nat
      BY <1>a, Zenon
    <3>5. path[o] \in Seq(Nat) /\ Len(path[o]) \in Nat
      BY <1>1
    <3>6. Len(path[c]) = Len(path[o]) + 1
      BY <3>4, <3>5, OneFurther
    <3>7. Begins(path[o], path[c])
      <4>1. Begins(path[o], Append(path[o], mem[c].faddr))
        BY <1>3, <3>4, <3>5, FurtherBegins
      <4> QED
        BY <3>4, <4>1, Zenon
    <3>8. Begins(path[o], bt)
      <4>1. Len(path[c]) \in Nat /\ Begins(path[c], bt)
        BY <1>1, <2>1, <3>2, Zenon
      <4> QED
        BY <1>3, <3>5, <3>7, <4>1, BeginsBoth, Zenon
    <3>9. up[k + 1] = o
      BY <2>3, <2>5, <3>2, <3>4, Zenon
    <3>10. Len(path[o]) = n + 1 - (k + 1)
      <4>1. Len(path[c]) = n + 1 - k
        BY <2>1, <3>1, <3>2, Zenon
      <4>2. \A a, b, l \in Nat : l + 1 = a + 1 - b => l = a + 1 - (b + 1)
        OBVIOUS
      <4>3. n \in Nat /\ k \in Nat
        BY <1>1
      <4> QED
        BY <3>5, <3>6, <4>1, <4>2, <4>3, Zenon
    <3>11. ASSUME ~(k + 1 <= n)
           PROVE  o = Root
      <4>1. Len(path[o]) = 0
        BY <1>1, <2>1, <3>1, <3>10, <3>11
      <4> QED
        BY <1>1, <4>1
    <3>12. At(k + 1)
      BY <3>8, <3>9, <3>10, <3>11, Zenon
    <3> HIDE DEF At
    <3> QED
      BY <2>2, <3>12
  <2> QED
    BY <2>4, <2>5
<1>7. ASSUME NEW k \in 1 .. Depth
      PROVE  At(k)
  <2>1. T \in SUBSET Nat
    OBVIOUS
  <2> HIDE DEF T
  <2>2. 1 .. Depth \subseteq T
    BY <1>1, <1>5, <1>6, <2>1, CountingUp, Zenon
  <2>3. k \in T
    BY <2>2
  <2> QED
    BY <2>3 DEF T
<1>8. ASSUME NEW c \in InUse(mem) \ {Root}, Begins(path[c], bt)
      PROVE  c \in Stack(cell)
  <2>1. Len(path[c]) \in 1 .. n
    BY <1>1, <1>3, <1>8 DEF Begins
  <2>2. PICK k \in 1 .. Depth : k <= n /\ n + 1 - k = Len(path[c])
    <3>1. n + 1 - Len(path[c]) \in 1 .. Depth
      BY <1>1, <2>1
    <3>2. n + 1 - Len(path[c]) <= n /\ n + 1 - (n + 1 - Len(path[c])) = Len(path[c])
      BY <1>1, <2>1
    <3> QED
      BY <3>1, <3>2
  <2>3. up[k] \in InUse(mem) /\ Begins(path[up[k]], bt) /\ Len(path[up[k]]) = Len(path[c])
    BY <1>7, <2>2, Zenon
  <2>4. Len(path[c]) <= Len(path[up[k]]) /\ Len(path[c]) \in Nat /\ Len(path[up[k]]) \in Nat
    BY <1>1, <2>3
  <2>5. Begins(path[c], path[up[k]])
    BY <1>3, <1>8, <2>3, <2>4, BeginsBoth, Zenon
  <2>6. c = up[k]
    BY <2>3, <2>5, Zenon DEF Tree, Distinct
  <2> QED
    BY <1>2, <2>6
<1>9. ASSUME NEW c \in Stack(cell)
      PROVE  c \in InUse(mem) \ {Root} /\ Begins(path[c], bt)
  <2>1. PICK k \in 1 .. Depth : c = up[k] /\ c # Root
    BY <1>2
  <2> QED
    BY <1>7, <2>1, Zenon
<1> HIDE DEF T, At
<1> QED
  BY <1>8, <1>9

(* The blocks through a path, without the one that is taken off. *)
LEMMA ThroughRemoved ==
  ASSUME NEW pairs, IsList(pairs), NEW k \in 1 .. Len(pairs), NEW p
  PROVE  Cardinality(Through(pairs, p))
           = Cardinality(Through(RemoveAt(pairs, k), p)) + IF Begins(p, pairs[k].by) THEN 1 ELSE 0
<1>1. PICK less, n : less = RemoveAt(pairs, k) /\ n = Len(pairs)
  OBVIOUS
<1>2. /\ n \in Nat /\ k \in 1 .. n /\ Len(less) = n - 1
      /\ \A j \in 1 .. n - 1 : less[j] = IF j < k THEN pairs[j] ELSE pairs[j + 1]
  BY <1>1, RemovedIsList
<1> DEFINE I == Through(pairs, p) \ {k}
           J == Through(less, p)
           f == [i \in I |-> IF i < k THEN i ELSE i - 1]
<1>3. \A i \in 1 .. n : i \in Through(pairs, p) <=> Begins(p, pairs[i].by)
  BY <1>1, Zenon DEF Through
<1>4. \A j \in 1 .. n - 1 : j \in J <=> Begins(p, less[j].by)
  BY <1>2, Zenon DEF Through
<1>5. \A i \in I : i \in 1 .. n /\ i # k
  BY <1>1, Zenon DEF Through
<1>6. \A j \in J : j \in 1 .. n - 1
  BY <1>2, Zenon DEF Through
<1>7. \A i \in I : f[i] = IF i < k THEN i ELSE i - 1
  OBVIOUS
<1>8. ASSUME NEW i \in I
      PROVE  f[i] \in J
  <2>1. i \in 1 .. n /\ i # k /\ Begins(p, pairs[i].by)
    BY <1>3, <1>5, Zenon
  <2>2. CASE i < k
    <3>1. i \in 1 .. n - 1
      BY <1>2, <2>1, <2>2
    <3>2. less[i] = pairs[i]
      BY <1>2, <2>2, <3>1, Zenon
    <3>3. i \in J
      BY <1>4, <2>1, <3>1, <3>2, Zenon
    <3> QED
      BY <1>7, <2>2, <3>3, Zenon
  <2>3. CASE ~(i < k)
    <3>1. i - 1 \in 1 .. n - 1 /\ ~(i - 1 < k) /\ (i - 1) + 1 = i
      BY <1>2, <2>1, <2>3
    <3>2. less[i - 1] = pairs[i]
      BY <1>2, <3>1, Zenon
    <3>3. i - 1 \in J
      BY <1>4, <2>1, <3>1, <3>2, Zenon
    <3> QED
      BY <1>7, <2>3, <3>3, Zenon
  <2> QED
    BY <2>2, <2>3
<1>9. ASSUME NEW i \in I, NEW j \in I, f[i] = f[j]
      PROVE  i = j
  <2>1. /\ i \in 1 .. n /\ i # k /\ j \in 1 .. n /\ j # k
        /\ (IF i < k THEN i ELSE i - 1) = (IF j < k THEN j ELSE j - 1)
    BY <1>5, <1>7, <1>9, Zenon
  <2>2. \A a, b \in 1 .. n : a # k /\ b # k /\ (IF a < k THEN a ELSE a - 1) = (IF b < k THEN b ELSE b - 1) => a = b
    BY <1>2
  <2> QED
    BY <2>1, <2>2, Zenon
<1>10. ASSUME NEW j \in J
       PROVE  \E i \in I : f[i] = j
  <2>1. j \in 1 .. n - 1 /\ Begins(p, less[j].by)
    BY <1>4, <1>6, Zenon
  <2>2. CASE j < k
    <3>1. j \in 1 .. n /\ j # k
      BY <1>2, <2>1, <2>2
    <3>2. less[j] = pairs[j]
      BY <1>2, <2>1, <2>2, Zenon
    <3>3. j \in I
      BY <1>3, <2>1, <3>1, <3>2
    <3> QED
      BY <1>7, <2>2, <3>3, Zenon
  <2>3. CASE ~(j < k)
    <3>1. j + 1 \in 1 .. n /\ j + 1 # k /\ ~(j + 1 < k) /\ (j + 1) - 1 = j
      BY <1>2, <2>1, <2>3
    <3>2. less[j] = pairs[j + 1]
      BY <1>2, <2>1, <2>3, Zenon
    <3>3. j + 1 \in I
      BY <1>3, <2>1, <3>1, <3>2
    <3> QED
      BY <1>7, <3>1, <3>3, Zenon
  <2> QED
    BY <2>2, <2>3
<1>11. ExistsBijection(I, J)
  <2>1. f \in [I -> J]
    BY <1>8
  <2> HIDE DEF f, I, J
  <2>2. f \in Bijection(I, J)
    BY <1>9, <1>10, <2>1 DEF Bijection, Injection, Surjection, IsInjective
  <2> QED
    BY <2>2 DEF ExistsBijection
<1>12. IsFiniteSet(Through(pairs, p)) /\ Cardinality(Through(pairs, p)) \in Nat
  BY <1>1, <1>2, ThroughIsNumber
<1>13. IsFiniteSet(I) /\ Cardinality(I) = IF k \in Through(pairs, p) THEN Cardinality(Through(pairs, p)) - 1
                                          ELSE Cardinality(Through(pairs, p))
  <2>1. CASE k \in Through(pairs, p)
    BY <1>12, <2>1, FS_RemoveElement
  <2>2. CASE k \notin Through(pairs, p)
    <3>1. I = Through(pairs, p)
      BY <2>2
    <3> QED
      BY <1>12, <2>2, <3>1, Zenon
  <2> QED
    BY <2>1, <2>2
<1> HIDE DEF I, f, J
<1>14. Cardinality(J) = Cardinality(I)
  BY <1>11, <1>13, FS_Bijection, Zenon
<1>15. k \in Through(pairs, p) <=> Begins(p, pairs[k].by)
  BY <1>2, <1>3, Zenon
<1>16. Cardinality(Through(pairs, p)) = Cardinality(J) + IF Begins(p, pairs[k].by) THEN 1 ELSE 0
  BY <1>12, <1>13, <1>14, <1>15
<1> QED
  BY <1>1, <1>16, Zenon DEF J

(* A block that is freed: its account is taken off every frame, and none   *)
(* of them has been at zero. *)
LEMMA DelAccounts ==
  ASSUME MdbOK(mem, arrays), IsList(pairdb), TreeInv, NEW ptr, mdb_del(ptr), ~stale'
  PROVE  ~stale /\ failed' = failed /\ \E path : AccountIs(mem', pairdb', path)
<1>1. ~stale /\ mem \in [Cells -> Frames]
  <2>1. stale' = stale
    BY Zenon DEF mdb_del
  <2> QED
    BY <2>1 DEF MdbOK
<1>2. PICK path : AccountIs(mem, pairdb, path)
  BY <1>1, Zenon DEF TreeInv
<1>3. /\ Tree(mem, path) /\ Held(mem, path, pairdb)
      /\ \A c \in InUse(mem) \ {Root} : mem[c].user = Cardinality(Through(pairdb, path[c]))
  BY <1>2, Zenon DEF AccountIs
<1> DEFINE I == {k \in 1..Len(pairdb) : pairdb[k].ptr = ptr}
           sel == SelectInSeq(pairdb, LAMBDA pair : pair.ptr = ptr)
<1>4. sel = IF I # {} THEN Min(I) ELSE 0
  BY DEF SelectInSeq
<1>5. Len(pairdb) \in Nat
  BY DEF IsList
<1>6. I # {} => Min(I) \in I
  BY <1>5, MinIsLeast, SMTT(30)
<1>7. sel = 0 \/ sel \in 1 .. Len(pairdb)
  BY <1>4, <1>6, Zenon
<1>8. \/ sel = 0 /\ UNCHANGED <<mem, pairdb, failed>>
      \/ /\ sel # 0
         /\ pairdb' = RemoveAt(pairdb, sel)
         /\ \/ /\ mem' = [c \in Cells |-> IF c \in Stack(pairdb[sel].frame) THEN [mem[c] EXCEPT !.user = @ - 1]
                                          ELSE mem[c]]
               /\ UNCHANGED failed
            \/ \E c \in Stack(pairdb[sel].frame) : mem[c].user = 0
  BY Zenon DEF mdb_del
<1> HIDE DEF sel, I
<1>9. CASE sel = 0
  <2>1. mem' = mem /\ pairdb' = pairdb /\ failed' = failed
    BY <1>8, <1>9
  <2> QED
    BY <1>1, <1>2, <2>1, Zenon
<1>10. CASE sel # 0
  <2>1. PICK k \in 1 .. Len(pairdb) : k = sel
    BY <1>7, <1>10
  <2>2. PICK cell, bt, stack : cell = pairdb[k].frame /\ bt = pairdb[k].by /\ stack = Stack(cell)
    OBVIOUS
  <2>3. cell \in InUse(mem) /\ path[cell] = bt /\ bt \in Traces
    BY <1>3, <2>2, Zenon DEF Held
  <2>4. stack = {c \in InUse(mem) \ {Root} : Begins(path[c], bt)}
    <3>1. Stack(cell) = {c \in InUse(mem) \ {Root} : Begins(path[c], bt)}
      BY <1>1, <1>3, <2>3, StackOf
    <3> QED
      BY <2>2, <3>1
  <2>5. ASSUME NEW c \in stack
        PROVE  mem[c].user # 0
    <3>1. k \in Through(pairdb, path[c])
      BY <2>2, <2>4, Zenon DEF Through
    <3>2. IsFiniteSet(Through(pairdb, path[c]))
      BY <1>5, ThroughIsNumber, Zenon
    <3>3. Cardinality(Through(pairdb, path[c])) # 0
      BY <3>1, <3>2, FS_EmptySet
    <3> QED
      BY <1>3, <2>4, <3>3, Zenon
  <2>6. /\ pairdb' = RemoveAt(pairdb, k) /\ failed' = failed
        /\ mem' = [c \in Cells |-> IF c \in stack THEN [mem[c] EXCEPT !.user = @ - 1] ELSE mem[c]]
    BY <1>8, <1>10, <2>1, <2>2, <2>5, Zenon
  <2>7. PICK M, pairs : M = mem' /\ pairs = pairdb'
    OBVIOUS
  <2>8. ASSUME NEW c \in Cells
        PROVE  /\ M[c].faddr = mem[c].faddr /\ M[c].callee = mem[c].callee
               /\ M[c].callers = mem[c].callers /\ M[c].callers_filled = mem[c].callers_filled
               /\ M[c].user = IF c \in stack THEN mem[c].user - 1 ELSE mem[c].user
    <3>1. mem[c] \in Frames
      BY <1>1
    <3>2. M[c] = IF c \in stack THEN [mem[c] EXCEPT !.user = @ - 1] ELSE mem[c]
      BY <2>6, <2>7
    <3> QED
      BY <3>1, <3>2 DEF Frames
  <2>9. SameLinks(mem, M)
    BY <2>4, <2>8, Zenon DEF SameLinks
  <2>10. Tree(M, path) /\ InUse(M) = InUse(mem)
    BY <1>3, <2>9, LinksKeepTree
  <2>11. IsList(pairs) /\ Len(pairs) = Len(pairdb) - 1
         /\ \A j \in 1 .. Len(pairdb) - 1 : pairs[j] = IF j < k THEN pairdb[j] ELSE pairdb[j + 1]
    BY <2>6, <2>7, RemovedIsList
  <2>12. Held(M, path, pairs)
    <3>1. ASSUME NEW j \in 1 .. Len(pairs)
          PROVE  \E i \in 1 .. Len(pairdb) : pairs[j] = pairdb[i]
      <4>1. j \in 1 .. Len(pairdb) - 1 /\ j \in 1 .. Len(pairdb) /\ j + 1 \in 1 .. Len(pairdb)
        BY <1>5, <2>11
      <4> QED
        BY <2>11, <4>1, Zenon
    <3> QED
      BY <1>3, <2>10, <3>1, Zenon DEF Held
  <2>13. ASSUME NEW c \in InUse(M) \ {Root}
         PROVE  M[c].user = Cardinality(Through(pairs, path[c]))
    <3>1. c \in Cells /\ c \in InUse(mem) \ {Root}
      BY <2>10, Zenon DEF InUse
    <3>2. Cardinality(Through(pairdb, path[c]))
            = Cardinality(Through(pairs, path[c])) + IF Begins(path[c], bt) THEN 1 ELSE 0
      <4>1. Cardinality(Through(pairdb, path[c]))
              = Cardinality(Through(RemoveAt(pairdb, k), path[c])) + IF Begins(path[c], pairdb[k].by) THEN 1 ELSE 0
        BY ThroughRemoved, Zenon
      <4> QED
        BY <2>2, <2>6, <2>7, <4>1, Zenon
    <3>3. Cardinality(Through(pairs, path[c])) \in Nat
      <4>1. Len(pairs) \in Nat
        BY <2>11 DEF IsList
      <4> QED
        BY <4>1, ThroughIsNumber, Zenon
    <3>4. mem[c].user = Cardinality(Through(pairdb, path[c]))
      BY <1>3, <3>1, Zenon
    <3>5. M[c].user = IF Begins(path[c], bt) THEN mem[c].user - 1 ELSE mem[c].user
      BY <2>4, <2>8, <3>1, Zenon
    <3> QED
      BY <3>2, <3>3, <3>4, <3>5
  <2>14. AccountIs(M, pairs, path)
    BY <2>10, <2>12, <2>13, Zenon DEF AccountIs
  <2> QED
    BY <1>1, <2>6, <2>7, <2>14, Zenon
<1> QED
  BY <1>9, <1>10

(* The empty database has its account. *)
LEMMA TreeStart == Init => TreeInv
<1> SUFFICES ASSUME Init
             PROVE  TreeInv
  OBVIOUS
<1>1. mem = [c \in Cells |-> Fresh(0)] /\ pairdb = <<>> /\ ~failed
  BY DEF Init, MdbInit
<1>2. Root \in Cells /\ MaxCallers \in Nat
  BY MdbConstants
<1>3. ASSUME NEW c \in Cells
      PROVE  mem[c].faddr = 0 /\ mem[c].user = 0 /\ mem[c].callers = 0 /\ mem[c].callers_filled = 0
  BY <1>1 DEF Fresh
<1>4. InUse(mem) = {Root}
  BY <1>2, <1>3 DEF InUse
<1> DEFINE path == [c \in Cells |-> <<>>]
<1>5. path \in [Cells -> Seq(Nat)] /\ path[Root] = <<>> /\ Len(path[Root]) = 0
  BY <1>2
<1> HIDE DEF path
<1>6. Linked(mem, path)
  BY <1>2, <1>3, <1>4, <1>5 DEF Linked
<1>7. Rows(mem)
  <2>1. ASSUME NEW o \in InUse(mem)
        PROVE  /\ mem[o].callers = 0 <=> mem[o].callers_filled = 0
               /\ InOrder(mem, o)
               /\ \A k \in 0 .. mem[o].callers_filled - 1 :
                    <<mem[o].callers, k>> \in InUse(mem) \ {Root} /\ mem[<<mem[o].callers, k>>].callee = o
    <3>1. mem[o].callers = 0 /\ mem[o].callers_filled = 0
      BY <1>2, <1>3, <1>4
    <3>2. 0 .. mem[o].callers_filled - 1 = {}
      BY <3>1
    <3> QED
      BY <3>1, <3>2, Zenon DEF InOrder
  <2>2. \A c \in Cells \ InUse(mem) : mem[c].user = 0 /\ mem[c].callers = 0 /\ mem[c].callers_filled = 0
    BY <1>3
  <2> QED
    BY <2>1, <2>2, Zenon DEF Rows
<1>8. Distinct(mem, path)
  BY <1>4, Zenon DEF Distinct
<1>9. Reached(mem, path)
  <2>1. PICK bt \in Traces : TRUE
    BY DepthAssumption
  <2>2. Len(bt) \in Nat
    BY MdbConstants
  <2>3. Begins(path[Root], bt) /\ Begins(path[Root], path[Root])
    BY <1>5, <2>2 DEF Begins
  <2>4. \A n \in 0 .. Len(path[Root]) : n = Len(path[Root])
    BY <1>5
  <2> QED
    BY <1>4, <2>1, <2>3, <2>4 DEF Reached
<1>10. Held(mem, path, pairdb)
  <2>1. 1 .. Len(pairdb) = {}
    BY <1>1
  <2> QED
    BY <2>1, Zenon DEF Held
<1>11. \A c \in InUse(mem) \ {Root} : mem[c].user = Cardinality(Through(pairdb, path[c]))
  BY <1>4
<1>12. AccountIs(mem, pairdb, path)
  BY <1>6, <1>7, <1>8, <1>9, <1>10, <1>11, Zenon DEF AccountIs, Tree
<1> QED
  BY <1>1, <1>12, Zenon DEF TreeInv

(* No step loses track of it. *)
LEMMA TreeKept ==
  ASSUME MdbOK(mem, arrays), IsList(pairdb), TreeInv, [Next]_vars
  PROVE  TreeInv'
<1>1. ASSUME ~stale, failed' = failed, \E path : AccountIs(mem', pairdb', path)
      PROVE  TreeInv'
  <2>1. ~failed'
    BY <1>1 DEF TreeInv
  <2> QED
    BY <1>1, <2>1, Zenon
       DEF TreeInv, AccountIs, Tree, Linked, Rows, Distinct, Reached, Held, Through, InUse, InOrder, Faddr
<1>2. ASSUME stale'
      PROVE  TreeInv'
  BY <1>2 DEF TreeInv
<1>3. CASE UNCHANGED mdb
  <2>1. stale' = stale /\ failed' = failed /\ mem' = mem /\ pairdb' = pairdb
    BY <1>3 DEF mdb
  <2>2. CASE stale
    BY <1>2, <2>1, <2>2, Zenon
  <2>3. CASE ~stale
    <3>1. PICK path : AccountIs(mem, pairdb, path)
      BY <2>3, Zenon DEF TreeInv
    <3>2. AccountIs(mem', pairdb', path)
      BY <2>1, <3>1, Zenon
    <3> QED
      BY <1>1, <2>1, <2>3, <3>2, Zenon
  <2> QED
    BY <2>2, <2>3
<1>4. ASSUME NEW t \in Threads, Record(t)
      PROVE  TreeInv'
  <2>1. UNCHANGED mdb \/ \E ptr, bt : bt \in Traces /\ mdb_add(ptr, bt)
    BY <1>4, Zenon DEF Record
  <2> QED
    BY <1>3, <1>1, <1>2, <2>1, AddAccounts, Zenon
<1>5. ASSUME NEW t \in Threads, Del(t)
      PROVE  TreeInv'
  <2>1. mdb_del(arg[t])
    BY <1>5, Zenon DEF Del
  <2> QED
    BY <1>1, <1>2, <2>1, DelAccounts, Zenon
<1>6. \/ UNCHANGED mdb
      \/ \E t \in Threads : Record(t) \/ Del(t)
  BY Zenon DEF Next, Thread, Malloc, MallocLock, Reset, Plain, Free, FreeLock, Unlock, Release, Exit,
               Ended, vars
<1> QED
  BY <1>3, <1>4, <1>5, <1>6, Zenon

(* So there always is one. *)
LEMMA TreeAlways == Spec => []TreeInv
<1>1. RecordInv => IsList(pairdb)
  BY DEF RecordInv
<1> QED
  BY <1>1, TreeStart, TreeKept, RecordAlways, FramesAlways, PTL DEF Spec

(* What a block's backtrace was counted in is found again when the block   *)
(* is freed. *)
AssertionUntilMoved == ~stale => AssertionHolds

(* The assertion of mdb_del(), mdb.c:156, holds as long as no frame has    *)
(* been moved: whatever blocks are recorded and freed in which order, the  *)
(* count it looks at is at least that of the block itself. *)
THEOREM AssertionHoldsUntilMoved == Spec => []AssertionUntilMoved
<1>1. TreeInv => AssertionUntilMoved
  BY DEF TreeInv, AssertionUntilMoved, AssertionHolds
<1> QED
  BY <1>1, TreeAlways, PTL

-----------------------------------------------------------------------------
(* do_dump(): the ways down from the root, through frames with a count.    *)
CallersOf(c) == {<<mem[c].callers, k>> : k \in 0..(mem[c].callers_filled - 1)}
NextWalks(X, n) == UNION {{Append(w, c) : c \in {k \in CallersOf(w[n]) : mem[k].user > 0}} : w \in X}
WalksDown(f) == f = [n \in 0..Depth |-> IF n = 0 THEN {<<Root>>} ELSE NextWalks(f[n - 1], n)]
Down == CHOOSE f : WalksDown(f)
Leaves == {w \in UNION {Down[n] : n \in 1..Depth} : mem[Last(w)].callers_filled = 0}

(* One step down, to a caller that has a count. *)
OneDown(Y, X, n) ==
  /\ \A v \in Y : \E w \in X : \E k \in 0 .. (mem[w[n]].callers_filled - 1) :
       mem[<<mem[w[n]].callers, k>>].user > 0 /\ v = Append(w, <<mem[w[n]].callers, k>>)
  /\ \A w \in X : \A k \in 0 .. (mem[w[n]].callers_filled - 1) :
       mem[<<mem[w[n]].callers, k>>].user > 0 => Append(w, <<mem[w[n]].callers, k>>) \in Y

(* That is what do_dump() goes on with. *)
LEMMA NextWalksAre ==
  ASSUME NEW X, NEW n
  PROVE  OneDown(NextWalks(X, n), X, n)
<1>1. ASSUME NEW v \in NextWalks(X, n)
      PROVE  \E w \in X : \E k \in 0 .. (mem[w[n]].callers_filled - 1) :
               mem[<<mem[w[n]].callers, k>>].user > 0 /\ v = Append(w, <<mem[w[n]].callers, k>>)
  <2>1. PICK w \in X : v \in {Append(w, c) : c \in {k \in CallersOf(w[n]) : mem[k].user > 0}}
    BY Zenon DEF NextWalks
  <2>2. PICK c \in CallersOf(w[n]) : mem[c].user > 0 /\ v = Append(w, c)
    BY <2>1, Zenon
  <2>3. PICK k \in 0 .. (mem[w[n]].callers_filled - 1) : c = <<mem[w[n]].callers, k>>
    BY <2>2, Zenon DEF CallersOf
  <2> QED
    BY <2>2, <2>3, Zenon
<1>2. ASSUME NEW w \in X, NEW k \in 0 .. (mem[w[n]].callers_filled - 1), mem[<<mem[w[n]].callers, k>>].user > 0
      PROVE  Append(w, <<mem[w[n]].callers, k>>) \in NextWalks(X, n)
  <2>1. PICK c : c = <<mem[w[n]].callers, k>>
    OBVIOUS
  <2>2. c \in {q \in CallersOf(w[n]) : mem[q].user > 0}
    BY <1>2, <2>1, Zenon DEF CallersOf
  <2>3. Append(w, c) \in {Append(w, q) : q \in {k2 \in CallersOf(w[n]) : mem[k2].user > 0}}
    BY <2>2, Zenon
  <2>4. Append(w, c) \in NextWalks(X, n)
    BY <2>3 DEF NextWalks
  <2> QED
    BY <2>1, <2>4, Zenon
<1> QED
  BY <1>1, <1>2, Zenon DEF OneDown

(* What do_dump prints, with the ways down one by one. *)
LEMMA DownIs ==
  ASSUME mem \in [Cells -> Frames], NEW path, Tree(mem, path)
  PROVE  /\ do_dump = {<<[k \in 1..(Len(w) - 1) |-> mem[w[k + 1]].faddr], mem[Last(w)].user>> : w \in Leaves}
         /\ Down[0] = {<<Root>>}
         /\ \A n \in 1 .. Depth : OneDown(Down[n], Down[n - 1], n)
<1>1. do_dump = {<<[k \in 1..(Len(w) - 1) |-> mem[w[k + 1]].faddr], mem[Last(w)].user>> : w \in Leaves}
  BY Zenon DEF do_dump, Leaves, Down, WalksDown, NextWalks, CallersOf
<1> DEFINE S == SUBSET Seq(Cells)
           Of(X, n) == {w \in X : Len(w) = n /\ w[n] \in Cells}
           Step1(X, n) == {v \in Seq(Cells) : v \in NextWalks(Of(X, n), n)}
           F == [x \in Nat \X S |-> Step1(x[2], x[1])]
<1>2. \E f : WalksDown(f)
  <2>1. F \in [Nat \X S -> S]
    <3>1. \A X, n : Step1(X, n) \in S
      BY Zenon
    <3> HIDE DEF Step1, S
    <3> QED
      BY <3>1
  <2>2. \A n \in Nat, X \in S : F[<<n, X>>] = Step1(X, n)
    <3> HIDE DEF Step1, S
    <3> QED
      OBVIOUS
  <2>3. Depth \in Nat
    BY DepthBounds
  <2>4. {<<Root>>} \in S
    BY MdbConstants
  <2> HIDE DEF F, S
  <2>a. PICK G \in [Nat \X S -> S] : \A n \in Nat, X \in S : G[<<n, X>>] = Step1(X, n)
    BY <2>1, <2>2, Zenon
  <2>b. \E f \in [0 .. Depth -> S] : StepsTo(f, G, {<<Root>>}, 0, Depth)
    BY <2>3, <2>4, StepsExist
  <2>5. PICK f \in [0 .. Depth -> S] :
          \A k \in 0 .. Depth : f[k] = IF k = 0 THEN {<<Root>>} ELSE G[<<k, f[k - 1]>>]
    BY <2>b, Zenon DEF StepsTo
  <2>6. \A k \in 0 .. Depth : k # 0 => k - 1 \in 0 .. Depth /\ k \in Nat /\ (k - 1) + 1 = k
    BY <2>3
  <2>7. ASSUME NEW k \in 0 .. Depth, k # 0
        PROVE  f[k] = Step1(f[k - 1], k)
    <3>1. f[k - 1] \in S
      BY <2>5, <2>6, <2>7
    <3>2. f[k] = G[<<k, f[k - 1]>>]
      BY <2>5, <2>7, Zenon
    <3> HIDE DEF Step1
    <3> QED
      BY <2>6, <2>7, <2>a, <3>1, <3>2, Zenon
  <2>8. ASSUME NEW k \in 0 .. Depth, NEW w \in f[k]
        PROVE  Len(w) = k + 1 /\ w[k + 1] \in Cells
    <3>1. CASE k = 0
      <4>1. w = <<Root>>
        BY <2>5, <3>1, Zenon
      <4> QED
        BY <3>1, <4>1, MdbConstants
    <3>2. CASE k # 0
      <4>1. w \in Seq(Cells) /\ w \in NextWalks(Of(f[k - 1], k), k)
        BY <2>7, <3>2
      <4>a. OneDown(NextWalks(Of(f[k - 1], k), k), Of(f[k - 1], k), k)
        BY NextWalksAre
      <4> HIDE DEF Of
      <4>2. PICK v \in Of(f[k - 1], k) : \E c : w = Append(v, c)
        BY <4>1, <4>a, Zenon DEF OneDown
      <4>3. v \in Seq(Cells) /\ Len(v) = k /\ k \in Nat
        BY <2>5, <2>6, <3>2, <4>2 DEF S, Of
      <4>4. Len(w) = k + 1
        BY <4>2, <4>3
      <4>5. k + 1 \in 1 .. Len(w)
        BY <4>3, <4>4
      <4> QED
        BY <4>1, <4>4, <4>5
    <3> QED
      BY <3>1, <3>2
  <2>9. ASSUME NEW k \in 0 .. Depth, k # 0
        PROVE  f[k] = NextWalks(f[k - 1], k)
    <3>1. k - 1 \in 0 .. Depth /\ k \in Nat /\ (k - 1) + 1 = k
      BY <2>6, <2>9
    <3>2. ASSUME NEW w \in f[k - 1]
          PROVE  Len(w) = k /\ w[k] \in Cells /\ w \in Seq(Cells)
      <4>1. Len(w) = (k - 1) + 1 /\ w[(k - 1) + 1] \in Cells
        BY <2>8, <3>1, Zenon
      <4>2. f[k - 1] \in SUBSET Seq(Cells)
        BY <2>5, <3>1 DEF S
      <4> QED
        BY <3>1, <4>1, <4>2
    <3>3. Of(f[k - 1], k) = f[k - 1]
      BY <3>2, Zenon
    <3>4. ASSUME NEW v \in NextWalks(f[k - 1], k)
          PROVE  v \in Seq(Cells)
      <4>1. PICK w \in f[k - 1] : \E j \in 0 .. (mem[w[k]].callers_filled - 1) :
              v = Append(w, <<mem[w[k]].callers, j>>)
        <5>1. OneDown(NextWalks(f[k - 1], k), f[k - 1], k)
          BY NextWalksAre
        <5> QED
          BY <3>4, <5>1, Zenon DEF OneDown
      <4>2. PICK j \in 0 .. (mem[w[k]].callers_filled - 1) : v = Append(w, <<mem[w[k]].callers, j>>)
        BY <4>1, Zenon
      <4>3. /\ w[k] \in Cells /\ w \in Seq(Cells) /\ mem[w[k]].callers \in 0 .. MaxArrays
            /\ mem[w[k]].callers_filled \in 0 .. MaxCallers /\ MaxCallers \in Nat
        BY <3>2, FrameIs, MdbConstants
      <4>4. j \in 0 .. MaxCallers - 1
        BY <4>3
      <4>5. <<mem[w[k]].callers, j>> \in Cells
        BY <4>3, <4>4, Zenon DEF Cells
      <4> QED
        BY <4>2, <4>3, <4>5
    <3>5. f[k] = {v \in Seq(Cells) : v \in NextWalks(f[k - 1], k)}
      BY <2>7, <2>9, <3>3
    <3> QED
      BY <3>4, <3>5
  <2>10. f = [n \in 0..Depth |-> IF n = 0 THEN {<<Root>>} ELSE NextWalks(f[n - 1], n)]
    BY <2>5, <2>9
  <2> QED
    BY <2>10, Zenon DEF WalksDown
<1>3. WalksDown(Down)
  BY <1>2, Zenon DEF Down
<1>4. \A n \in 0 .. Depth : Down[n] = IF n = 0 THEN {<<Root>>} ELSE NextWalks(Down[n - 1], n)
  BY <1>3, Zenon DEF WalksDown
<1>5. 0 \in 0 .. Depth /\ \A n \in 1 .. Depth : n \in 0 .. Depth /\ n # 0
  BY DepthBounds
<1>6. ASSUME NEW n \in 1 .. Depth
      PROVE  OneDown(Down[n], Down[n - 1], n)
  <2>1. Down[n] = NextWalks(Down[n - 1], n)
    BY <1>4, <1>5, Zenon
  <2>2. OneDown(NextWalks(Down[n - 1], n), Down[n - 1], n)
    BY NextWalksAre
  <2> QED
    BY <2>1, <2>2, Zenon
<1> QED
  BY <1>1, <1>4, <1>5, <1>6, Zenon

(* A way down of n steps: the path of its last frame is where it has been. *)
Walked(w, n, path) ==
  /\ w \in Seq(Cells) /\ Len(w) = n + 1 /\ w[n + 1] \in InUse(mem) /\ Len(path[w[n + 1]]) = n
  /\ \A k \in 1 .. n : path[w[n + 1]][k] = mem[w[k + 1]].faddr
  /\ n > 0 => mem[w[n + 1]].user > 0

(* One step further. *)
LEMMA WalkedFurther ==
  ASSUME mem \in [Cells -> Frames], NEW path, Tree(mem, path), NEW n \in Nat, n > 0,
         NEW v, Walked(v, n - 1, path), NEW j \in 0 .. (mem[v[n]].callers_filled - 1),
         NEW c, c = <<mem[v[n]].callers, j>>, mem[c].user > 0, NEW w, w = Append(v, c)
  PROVE  Walked(w, n, path)
<1>1. PICK o : o = v[n]
  OBVIOUS
<1>2. /\ v \in Seq(Cells) /\ Len(v) = n /\ o \in InUse(mem) /\ Len(path[o]) = n - 1
      /\ \A k \in 1 .. n - 1 : path[o][k] = mem[v[k + 1]].faddr
  <2>1. (n - 1) + 1 = n
    OBVIOUS
  <2> QED
    BY <1>1, <2>1, Zenon DEF Walked
<1>3. c \in InUse(mem) \ {Root} /\ mem[c].callee = o
  BY <1>1, <1>2, Zenon DEF Tree, Rows
<1>4. c \in Cells /\ path[o] \in Seq(Nat) /\ path[c] \in Seq(Nat) /\ mem[c].faddr \in Nat
  <2>1. c \in Cells /\ path[o] \in Seq(Nat) /\ path[c] \in Seq(Nat)
    BY <1>2, <1>3, PathsAre
  <2> QED
    BY <2>1, FrameIs
<1>5. path[c] = Append(path[o], mem[c].faddr)
  BY <1>3, Zenon DEF Tree, Linked
<1>6. /\ w \in Seq(Cells) /\ Len(w) = n + 1 /\ w[n + 1] = c
      /\ \A k \in 1 .. n : w[k] = v[k]
  BY <1>2, <1>4, SMTT(30)
<1>7. /\ Len(path[c]) = n /\ path[c][n] = mem[c].faddr
      /\ \A k \in 1 .. n - 1 : path[c][k] = path[o][k]
  <2>1. PICK p, a : p = path[o] /\ a = mem[c].faddr
    OBVIOUS
  <2>2. p \in Seq(Nat) /\ a \in Nat /\ path[c] = Append(p, a) /\ Len(p) = n - 1
    BY <1>2, <1>4, <1>5, <2>1, Zenon
  <2>3. /\ Len(Append(p, a)) = Len(p) + 1 /\ Append(p, a)[Len(p) + 1] = a
        /\ \A k \in 1 .. Len(p) : Append(p, a)[k] = p[k]
    BY <2>2, OneFurther
  <2>4. (n - 1) + 1 = n
    OBVIOUS
  <2> QED
    BY <2>1, <2>2, <2>3, <2>4, Zenon
<1>8. ASSUME NEW k \in 1 .. n
      PROVE  path[c][k] = mem[w[k + 1]].faddr
  <2>1. CASE k = n
    BY <1>6, <1>7, <2>1, Zenon
  <2>2. CASE k # n
    <3>1. k \in 1 .. n - 1 /\ k + 1 \in 1 .. n
      BY <2>2
    <3> QED
      BY <1>2, <1>6, <1>7, <3>1, ZenonT(60)
  <2> QED
    BY <2>1, <2>2
<1> QED
  BY <1>3, <1>6, <1>7, <1>8, ZenonT(60) DEF Walked

(* Every way down is one of those. *)
LEMMA DownWalked ==
  ASSUME mem \in [Cells -> Frames], NEW path, Tree(mem, path), NEW n \in 0 .. Depth, NEW w \in Down[n]
  PROVE  Walked(w, n, path)
<1>0. Depth \in Nat
  BY DepthBounds
<1>1. Down[0] = {<<Root>>} /\ \A k \in 1 .. Depth : OneDown(Down[k], Down[k - 1], k)
  BY DownIs
<1> DEFINE T == {k \in 1 .. Depth + 1 : \A v \in Down[k - 1] : Walked(v, k - 1, path)}
<1>2. 1 \in T
  <2>1. Walked(<<Root>>, 0, path)
    <3>1. Root \in InUse(mem) /\ Len(path[Root]) = 0 /\ Root \in Cells
      BY PathsAre, MdbConstants
    <3>2. <<Root>> \in Seq(Cells) /\ Len(<<Root>>) = 0 + 1 /\ <<Root>>[0 + 1] = Root /\ ~(0 > 0) /\ 1 .. 0 = {}
      BY <3>1
    <3> QED
      BY <3>1, <3>2, Zenon DEF Walked
  <2>2. 1 \in 1 .. Depth + 1 /\ 1 - 1 = 0
    BY <1>0
  <2> QED
    BY <1>1, <2>1, <2>2, Zenon
<1>3. ASSUME NEW k \in T, k < Depth + 1
      PROVE  k + 1 \in T
  <2>1. k \in 1 .. Depth /\ k + 1 \in 1 .. Depth + 1 /\ (k + 1) - 1 = k /\ k \in Nat /\ k > 0
    BY <1>0, <1>3
  <2>2. ASSUME NEW v \in Down[k]
        PROVE  Walked(v, k, path)
    <3>1. PICK u \in Down[k - 1] : \E j \in 0 .. (mem[u[k]].callers_filled - 1) :
            mem[<<mem[u[k]].callers, j>>].user > 0 /\ v = Append(u, <<mem[u[k]].callers, j>>)
      BY <1>1, <2>1, Zenon DEF OneDown
    <3>2. PICK j \in 0 .. (mem[u[k]].callers_filled - 1) :
            mem[<<mem[u[k]].callers, j>>].user > 0 /\ v = Append(u, <<mem[u[k]].callers, j>>)
      BY <3>1, Zenon
    <3>3. Walked(u, k - 1, path)
      BY Zenon
    <3>4. PICK c : c = <<mem[u[k]].callers, j>>
      OBVIOUS
    <3>5. mem[c].user > 0 /\ v = Append(u, c)
      BY <3>2, <3>4, Zenon
    <3> HIDE DEF T
    <3> QED
      BY <2>1, <3>3, <3>4, <3>5, WalkedFurther
  <2> QED
    BY <2>1, <2>2, Zenon
<1>4. n + 1 \in T
  <2>1. T \in SUBSET Nat /\ n + 1 \in 1 .. Depth + 1 /\ Depth + 1 \in Nat
    BY <1>0
  <2> HIDE DEF T
  <2>2. 1 .. Depth + 1 \subseteq T
    BY <1>2, <1>3, <2>1, CountingUp, Zenon
  <2> QED
    BY <2>1, <2>2
<1>5. (n + 1) - 1 = n
  OBVIOUS
<1> QED
  BY <1>4, <1>5, Zenon

(* And there is one to every frame that has a block. *)
LEMMA DownReaches ==
  ASSUME mem \in [Cells -> Frames], Len(pairdb) \in Nat, NEW path, AccountIs(mem, pairdb, path),
         NEW c \in InUse(mem) \ {Root}, Through(pairdb, path[c]) # {}, Len(path[c]) \in 1 .. Depth
  PROVE  \E w \in Down[Len(path[c])] : w[Len(path[c]) + 1] = c
<1>0. Depth \in Nat
  BY DepthBounds
<1>1. /\ Tree(mem, path) /\ Held(mem, path, pairdb)
      /\ \A d \in InUse(mem) \ {Root} : mem[d].user = Cardinality(Through(pairdb, path[d]))
  BY Zenon DEF AccountIs
<1>2. Down[0] = {<<Root>>} /\ \A k \in 1 .. Depth : OneDown(Down[k], Down[k - 1], k)
  BY <1>1, DownIs
<1>3. /\ \A d \in InUse(mem) : d \in Cells /\ path[d] \in Seq(Nat) /\ Len(path[d]) \in Nat
      /\ \A d \in InUse(mem) \ {Root} : Len(path[d]) > 0
      /\ Root \in InUse(mem) /\ Len(path[Root]) = 0
  BY <1>1, PathsAre
<1>a. ASSUME NEW d \in InUse(mem) \ {Root}
      PROVE  \E o \in InUse(mem) : \E j \in 0 .. mem[o].callers_filled - 1 :
               d = <<mem[o].callers, j>> /\ path[d] = Append(path[o], mem[d].faddr) /\ mem[d].faddr \in Nat
  <2>1. \E o \in InUse(mem) : \E j \in 0 .. mem[o].callers_filled - 1 :
           /\ mem[d].callee = o /\ d = <<mem[o].callers, j>> /\ mem[o].callers # 0
           /\ path[d] = Append(path[o], mem[d].faddr) /\ mem[d].faddr = Faddr(mem, o, j)
           /\ path[o] \in Seq(Nat) /\ mem[d].faddr \in Nat \ {0}
    BY <1>1, CellOf
  <2>2. \A x : x \in Nat \ {0} => x \in Nat
    OBVIOUS
  <2> QED
    BY <2>1, <2>2, Zenon
<1>b. ASSUME NEW d \in InUse(mem) \ {Root}, Through(pairdb, path[d]) # {}
      PROVE  mem[d].user > 0
  <2>1. IsFiniteSet(Through(pairdb, path[d])) /\ Cardinality(Through(pairdb, path[d])) \in Nat
    BY ThroughIsNumber, Zenon
  <2>2. Cardinality(Through(pairdb, path[d])) # 0
    BY <1>b, <2>1, FS_EmptySet
  <2>3. mem[d].user = Cardinality(Through(pairdb, path[d]))
    BY <1>1, Zenon
  <2> QED
    BY <2>1, <2>2, <2>3
<1> DEFINE Gets(n) == \A d \in InUse(mem) : Len(path[d]) = n /\ Through(pairdb, path[d]) # {}
                         => \E w \in Down[n] : w[n + 1] = d
           T == {k \in 1 .. Depth + 1 : Gets(k - 1)}
<1>4. 1 \in T
  <2>1. Gets(0)
    <3> SUFFICES ASSUME NEW d \in InUse(mem), Len(path[d]) = 0
                 PROVE  \E w \in Down[0] : w[0 + 1] = d
      BY Zenon
    <3>1. d = Root
      BY <1>3
    <3>2. <<Root>>[0 + 1] = Root
      OBVIOUS
    <3> QED
      BY <1>2, <3>1, <3>2, Zenon
  <2>2. 1 \in 1 .. Depth + 1 /\ 1 - 1 = 0
    BY <1>0
  <2> HIDE DEF Gets
  <2> QED
    BY <2>1, <2>2, Zenon
<1>5. ASSUME NEW k \in T, k < Depth + 1
      PROVE  k + 1 \in T
  <2>1. k \in 1 .. Depth /\ k + 1 \in 1 .. Depth + 1 /\ (k + 1) - 1 = k /\ k \in Nat /\ k > 0
    BY <1>0, <1>5
  <2>2. ASSUME NEW d \in InUse(mem), Len(path[d]) = k, Through(pairdb, path[d]) # {}
        PROVE  \E w \in Down[k] : w[k + 1] = d
    <3>0. d \in InUse(mem) \ {Root}
      BY <1>3, <2>1, <2>2
    <3>1. PICK o \in InUse(mem) : \E j \in 0 .. mem[o].callers_filled - 1 :
            d = <<mem[o].callers, j>> /\ path[d] = Append(path[o], mem[d].faddr) /\ mem[d].faddr \in Nat
      BY <1>a, <3>0, Zenon
    <3>2. PICK j \in 0 .. mem[o].callers_filled - 1 :
            d = <<mem[o].callers, j>> /\ path[d] = Append(path[o], mem[d].faddr) /\ mem[d].faddr \in Nat
      BY <3>1, Zenon
    <3>3. path[o] \in Seq(Nat) /\ Len(path[o]) \in Nat /\ Len(path[d]) \in Nat /\ d \in Cells
      BY <1>3
    <3>4. Len(path[d]) = Len(path[o]) + 1
      BY <3>2, <3>3, OneFurther
    <3>5. Begins(path[o], path[d])
      <4>1. Begins(path[o], Append(path[o], mem[d].faddr))
        BY <3>2, <3>3, FurtherBegins
      <4> QED
        BY <3>2, <4>1, Zenon
    <3>6. PICK i \in 1 .. Len(pairdb) : Begins(path[d], pairdb[i].by)
      BY <2>2, Zenon DEF Through
    <3>7. Begins(path[o], pairdb[i].by)
      <4>1. Len(pairdb[i].by) \in Nat
        <5>1. pairdb[i].by \in Traces
          BY <1>1, Zenon DEF Held
        <5> QED
          BY <5>1, MdbConstants
      <4> QED
        BY <3>3, <3>5, <3>6, <4>1, BeginsBoth, Zenon
    <3>8. Through(pairdb, path[o]) # {}
      BY <3>7, Zenon DEF Through
    <3>9. Len(path[o]) = k - 1
      BY <2>1, <2>2, <3>3, <3>4
    <3>10. PICK w \in Down[k - 1] : w[(k - 1) + 1] = o
      <4>1. Gets(k - 1)
        BY Zenon
      <4> QED
        BY <3>8, <3>9, <4>1, Zenon
    <3>11. w[k] = o
      <4>1. (k - 1) + 1 = k
        BY <2>1
      <4> QED
        BY <3>10, <4>1, Zenon
    <3>12. mem[d].user > 0
      BY <1>b, <2>2, <3>0, Zenon
    <3>13. Append(w, d) \in Down[k]
      <4>1. \A j2 \in 0 .. (mem[w[k]].callers_filled - 1) :
              mem[<<mem[w[k]].callers, j2>>].user > 0 => Append(w, <<mem[w[k]].callers, j2>>) \in Down[k]
        BY <1>2, <2>1, Zenon DEF OneDown
      <4> QED
        BY <3>2, <3>11, <3>12, <4>1, Zenon
    <3>14. Append(w, d)[k + 1] = d
      <4>1. w \in Seq(Cells) /\ Len(w) = (k - 1) + 1
        <5>1. k - 1 \in 0 .. Depth
          BY <1>0, <2>1
        <5>2. PICK n \in 0 .. Depth : n = k - 1 /\ w \in Down[n]
          BY <5>1, Zenon
        <5>3. Walked(w, n, path)
          BY <1>1, <5>2, DownWalked
        <5> QED
          BY <5>2, <5>3, Zenon DEF Walked
      <4> QED
        BY <2>1, <3>3, <4>1
    <3> QED
      BY <3>13, <3>14, Zenon
  <2>3. Gets(k)
    BY <2>2, Zenon
  <2> HIDE DEF Gets
  <2> QED
    BY <2>1, <2>3, Zenon
<1>6. Gets(Len(path[c]))
  <2>1. T \in SUBSET Nat /\ Len(path[c]) + 1 \in 1 .. Depth + 1 /\ Depth + 1 \in Nat
        /\ (Len(path[c]) + 1) - 1 = Len(path[c])
    BY <1>0
  <2> HIDE DEF T
  <2>2. 1 .. Depth + 1 \subseteq T
    BY <1>4, <1>5, <2>1, CountingUp, Zenon
  <2>3. Len(path[c]) + 1 \in T
    BY <2>1, <2>2
  <2> USE DEF T
  <2> HIDE DEF Gets
  <2> QED
    BY <2>1, <2>3, Zenon
<1> QED
  BY <1>6, Zenon

-----------------------------------------------------------------------------
(* No backtrace is the beginning of another: it ends at the outermost      *)
(* frame of its thread or where backtrace()'s array, of num_frame, ends.   *)
PrefixFree == \A s, t \in Traces : Begins(s, t) => s = t

(* The blocks of one backtrace are those that go through all of it. *)
BlocksOf(bt) == {k \in DOMAIN pairdb : pairdb[k].by = bt}
LEMMA BlocksGoThrough ==
  ASSUME PrefixFree, IsList(pairdb), NEW path, Held(mem, path, pairdb), NEW bt \in Traces
  PROVE  BlocksOf(bt) = Through(pairdb, bt)
<1>1. DOMAIN pairdb = 1 .. Len(pairdb)
  BY DEF IsList
<1>2. ASSUME NEW k \in 1 .. Len(pairdb)
      PROVE  pairdb[k].by = bt <=> Begins(bt, pairdb[k].by)
  <2>1. pairdb[k].by \in Traces
    BY Zenon DEF Held
  <2>2. Len(bt) \in Nat
    BY MdbConstants
  <2>3. Begins(bt, bt)
    BY <2>2, BeginsBoth, Zenon
  <2> QED
    BY <2>1, <2>3, Zenon DEF PrefixFree
<1> QED
  BY <1>1, <1>2, Zenon DEF BlocksOf, Through

(* A frame without callers is the last one of every block that goes        *)
(* through it. *)
LEMMA EndsThere ==
  ASSUME mem \in [Cells -> Frames], NEW path, Tree(mem, path), NEW c \in InUse(mem),
         mem[c].callers_filled = 0, NEW d \in InUse(mem), Begins(path[c], path[d])
  PROVE  path[c] = path[d]
<1>1. /\ \A e \in InUse(mem) : e \in Cells /\ path[e] \in Seq(Nat) /\ Len(path[e]) \in Nat
      /\ Len(path[Root]) = 0
  BY PathsAre
<1>2. ASSUME Len(path[c]) < Len(path[d])
      PROVE  FALSE
  <2>1. PICK n : n = Len(path[c]) + 1
    OBVIOUS
  <2>2. n \in 0 .. Len(path[d]) /\ n > 0
    BY <1>1, <1>2, <2>1
  <2>3. PICK e \in InUse(mem) : Len(path[e]) = n /\ Begins(path[e], path[d])
    BY <2>2, Zenon DEF Tree, Reached
  <2>4. e \in InUse(mem) \ {Root}
    BY <1>1, <2>2, <2>3
  <2>5. PICK o \in InUse(mem) : \E k \in 0 .. mem[o].callers_filled - 1 :
          path[e] = Append(path[o], mem[e].faddr) /\ mem[e].faddr \in Nat \ {0}
    BY <2>4, CellOf
  <2>6. PICK k \in 0 .. mem[o].callers_filled - 1 :
          path[e] = Append(path[o], mem[e].faddr) /\ mem[e].faddr \in Nat \ {0}
    BY <2>5, Zenon
  <2>7. path[o] \in Seq(Nat) /\ Len(path[o]) \in Nat /\ mem[e].faddr \in Nat
    BY <1>1, <2>6
  <2>8. Len(path[e]) = Len(path[o]) + 1
    BY <2>6, <2>7, OneFurther
  <2>9. Len(path[o]) = Len(path[c])
    BY <1>1, <2>1, <2>3, <2>7, <2>8, SMTT(30)
  <2>10. Begins(path[o], path[e])
    <3>1. Begins(path[o], Append(path[o], mem[e].faddr))
      BY <2>7, FurtherBegins
    <3> QED
      BY <2>6, <3>1, Zenon
  <2>11. Begins(path[o], path[d])
    BY <1>1, <2>3, <2>10, BeginsBoth, Zenon
  <2>12. Begins(path[o], path[c])
    <3>1. Len(path[o]) <= Len(path[c])
      BY <1>1, <2>9
    <3> QED
      BY <1>1, <2>11, <3>1, BeginsBoth, Zenon
  <2>13. o = c
    BY <2>9, <2>12, Zenon DEF Tree, Distinct
  <2> QED
    BY <2>6, <2>13
<1>3. Len(path[c]) = Len(path[d])
  <2>1. Len(path[c]) <= Len(path[d])
    BY Zenon DEF Begins
  <2> QED
    BY <1>1, <1>2, <2>1
<1> QED
  BY <1>1, <1>3, BeginsWhole

(* And the last frame of a block has no callers. *)
LEMMA EndsFree ==
  ASSUME PrefixFree, mem \in [Cells -> Frames], NEW path, Tree(mem, path), NEW c \in InUse(mem),
         path[c] \in Traces
  PROVE  mem[c].callers_filled = 0
<1>1. /\ \A e \in InUse(mem) : e \in Cells /\ path[e] \in Seq(Nat) /\ Len(path[e]) \in Nat
  BY PathsAre
<1>2. mem[c].callers_filled \in 0 .. MaxCallers /\ MaxCallers \in Nat
  BY <1>1, FrameIs, MdbConstants
<1>3. ASSUME mem[c].callers_filled # 0
      PROVE  FALSE
  <2>1. 0 \in 0 .. mem[c].callers_filled - 1
    BY <1>2, <1>3
  <2>2. PICK e : e = <<mem[c].callers, 0>>
    OBVIOUS
  <2>3. e \in InUse(mem) \ {Root} /\ mem[e].callee = c
    BY <2>1, <2>2, Zenon DEF Tree, Rows
  <2>4. path[e] = Append(path[c], mem[e].faddr)
    BY <2>3, Zenon DEF Tree, Linked
  <2>5. path[c] \in Seq(Nat) /\ Len(path[c]) \in Nat /\ mem[e].faddr \in Nat /\ Len(path[e]) \in Nat
    <3>1. e \in Cells /\ Len(path[e]) \in Nat
      BY <1>1, <2>3
    <3> QED
      BY <1>1, <3>1, FrameIs
  <2>6. PICK tr \in Traces : Begins(path[e], tr)
    BY <2>3, Zenon DEF Tree, Reached
  <2>7. Len(tr) \in Nat
    BY MdbConstants
  <2>8. Begins(Append(path[c], mem[e].faddr), tr)
    BY <2>4, <2>6, Zenon
  <2>9. Begins(path[c], tr) /\ Len(path[c]) < Len(tr)
    BY <2>5, <2>7, <2>8, FurtherBegins
  <2>10. path[c] = tr
    BY <2>9, Zenon DEF PrefixFree
  <2> QED
    BY <2>5, <2>9, <2>10
<1> QED
  BY <1>3

(* What do_dump() prints for a way down. *)
Printed(w) == <<[k \in 1..(Len(w) - 1) |-> mem[w[k + 1]].faddr], mem[Last(w)].user>>

(* It is a backtrace that has blocks, with their number. *)
LEMMA LeafIsTrace ==
  ASSUME mem \in [Cells -> Frames], Len(pairdb) \in Nat, NEW path, AccountIs(mem, pairdb, path),
         NEW w \in Leaves
  PROVE  \E bt \in Traces : Through(pairdb, bt) # {} /\ Printed(w) = <<bt, Cardinality(Through(pairdb, bt))>>
<1>1. /\ Tree(mem, path) /\ Held(mem, path, pairdb)
      /\ \A d \in InUse(mem) \ {Root} : mem[d].user = Cardinality(Through(pairdb, path[d]))
  BY Zenon DEF AccountIs
<1>2. PICK n \in 1 .. Depth : w \in Down[n]
  BY Zenon DEF Leaves
<1>3. Depth \in Nat
  BY DepthBounds
<1>4. n \in 0 .. Depth /\ n \in Nat /\ n > 0
  BY <1>3
<1>5. Walked(w, n, path)
  BY <1>1, <1>2, <1>4, DownWalked
<1>6. PICK c : c = w[n + 1]
  OBVIOUS
<1>7. /\ w \in Seq(Cells) /\ Len(w) = n + 1 /\ c \in InUse(mem) /\ Len(path[c]) = n /\ mem[c].user > 0
      /\ \A k \in 1 .. n : path[c][k] = mem[w[k + 1]].faddr
  BY <1>4, <1>5, <1>6, Zenon DEF Walked
<1>8. Last(w) = c /\ mem[c].callers_filled = 0
  <2>1. Last(w) = c
    BY <1>6, <1>7 DEF Last
  <2> QED
    BY <2>1, Zenon DEF Leaves
<1>9. /\ \A e \in InUse(mem) : e \in Cells /\ path[e] \in Seq(Nat) /\ Len(path[e]) \in Nat
      /\ Len(path[Root]) = 0
  BY <1>1, PathsAre
<1>10. c \in InUse(mem) \ {Root}
  BY <1>4, <1>7, <1>9
<1>11. mem[c].user = Cardinality(Through(pairdb, path[c]))
  BY <1>1, <1>10, Zenon
<1>12. Through(pairdb, path[c]) # {}
  <2>1. Cardinality(Through(pairdb, path[c])) # 0
    BY <1>7, <1>11
  <2>2. IsFiniteSet(Through(pairdb, path[c]))
    BY ThroughIsNumber, Zenon
  <2> QED
    BY <2>1, <2>2, FS_EmptySet
<1>13. PICK j \in 1 .. Len(pairdb) : Begins(path[c], pairdb[j].by)
  BY <1>12, Zenon DEF Through
<1>14. PICK d : d = pairdb[j].frame
  OBVIOUS
<1>15. d \in InUse(mem) /\ path[d] = pairdb[j].by /\ path[d] \in Traces
  BY <1>1, <1>14, Zenon DEF Held
<1>16. path[c] = path[d]
  <2>1. Begins(path[c], path[d])
    BY <1>13, <1>15, Zenon
  <2> QED
    BY <1>1, <1>7, <1>8, <1>15, <2>1, EndsThere
<1>17. path[c] = [k \in 1..(Len(w) - 1) |-> mem[w[k + 1]].faddr]
  <2>1. Len(w) - 1 = n
    BY <1>4, <1>7
  <2>2. path[c] \in Seq(Nat)
    BY <1>7, <1>9
  <2>3. DOMAIN path[c] = 1 .. n /\ path[c] \in [1 .. n -> Nat]
    <3>1. Len(path[c]) = n
      BY <1>7, Zenon
    <3> QED
      BY <2>2, <3>1
  <2>4. path[c] = [k \in 1 .. n |-> path[c][k]]
    BY <2>3
  <2> QED
    BY <1>7, <2>1, <2>4, Zenon
<1>18. Printed(w) = <<path[c], Cardinality(Through(pairdb, path[c]))>>
  BY <1>8, <1>11, <1>17, Zenon DEF Printed
<1> QED
  BY <1>12, <1>15, <1>16, <1>18, Zenon

(* And every one of those is printed. *)
LEMMA TraceIsLeaf ==
  ASSUME PrefixFree, mem \in [Cells -> Frames], Len(pairdb) \in Nat, NEW path, AccountIs(mem, pairdb, path),
         NEW bt \in Traces, Through(pairdb, bt) # {}
  PROVE  \E w \in Leaves : Printed(w) = <<bt, Cardinality(Through(pairdb, bt))>>
<1>1. /\ Tree(mem, path) /\ Held(mem, path, pairdb)
      /\ \A d \in InUse(mem) \ {Root} : mem[d].user = Cardinality(Through(pairdb, path[d]))
  BY Zenon DEF AccountIs
<1>2. PICK j \in 1 .. Len(pairdb) : Begins(bt, pairdb[j].by)
  BY Zenon DEF Through
<1>3. PICK c : c = pairdb[j].frame
  OBVIOUS
<1>4. c \in InUse(mem) /\ path[c] = bt
  <2>1. c \in InUse(mem) /\ path[c] = pairdb[j].by /\ pairdb[j].by \in Traces
    BY <1>1, <1>3, Zenon DEF Held
  <2> QED
    BY <1>2, <2>1, Zenon DEF PrefixFree
<1>5. Depth \in Nat /\ Len(bt) \in 1 .. Depth
  BY DepthBounds
<1>6. /\ \A e \in InUse(mem) : e \in Cells /\ path[e] \in Seq(Nat) /\ Len(path[e]) \in Nat
      /\ Len(path[Root]) = 0
  BY <1>1, PathsAre
<1>7. c \in InUse(mem) \ {Root}
  BY <1>4, <1>5, <1>6
<1>8. PICK n : n = Len(bt)
  OBVIOUS
<1>9. PICK w \in Down[n] : w[n + 1] = c
  BY <1>4, <1>5, <1>7, <1>8, DownReaches
<1>10. n \in 1 .. Depth /\ n \in 0 .. Depth /\ n \in Nat
  BY <1>5, <1>8
<1>11. Walked(w, n, path)
  BY <1>1, <1>10, DownWalked
<1>12. w \in Seq(Cells) /\ Len(w) = n + 1
  BY <1>11, Zenon DEF Walked
<1>13. Last(w) = c
  BY <1>9, <1>12 DEF Last
<1>14. mem[c].callers_filled = 0
  BY <1>1, <1>4, EndsFree
<1>15. w \in Leaves
  BY <1>9, <1>10, <1>13, <1>14, Zenon DEF Leaves
<1>16. bt = [k \in 1..(Len(w) - 1) |-> mem[w[k + 1]].faddr]
  <2>1. Len(w) - 1 = n
    BY <1>10, <1>12
  <2>2. bt \in [1 .. n -> Nat]
    <3>1. bt \in Seq(Nat)
      BY <1>4, <1>6
    <3> QED
      BY <1>8, <3>1
  <2>3. bt = [k \in 1 .. n |-> bt[k]]
    BY <2>2
  <2>4. \A k \in 1 .. n : bt[k] = mem[w[k + 1]].faddr
    BY <1>4, <1>9, <1>11, Zenon DEF Walked
  <2> QED
    BY <2>1, <2>3, <2>4, Zenon
<1>17. mem[Last(w)].user = Cardinality(Through(pairdb, bt))
  BY <1>1, <1>4, <1>7, <1>13, Zenon
<1> QED
  BY <1>15, <1>16, <1>17, Zenon DEF Printed

(* "not freed count" is printed for exactly the backtraces that have       *)
(* recorded blocks, each with their number, as long as no frame has been   *)
(* moved: do_dump() stops only where it cannot get to a block, and nothing *)
(* it gets to has been freed. *)
THEOREM DumpIsRight ==
  ASSUME PrefixFree
  PROVE  Spec => []DumpTells
<1>1. ASSUME mem \in [Cells -> Frames], IsList(pairdb), TreeInv
      PROVE  DumpTells
  <2> SUFFICES ASSUME ~stale
               PROVE  do_dump = {<<bt, Cardinality(BlocksOf(bt))>> : bt \in {tr \in Traces : BlocksOf(tr) # {}}}
    BY Zenon DEF DumpTells, BlocksOf
  <2>1. PICK path : AccountIs(mem, pairdb, path)
    BY <1>1, Zenon DEF TreeInv
  <2>2. Tree(mem, path) /\ Held(mem, path, pairdb)
    BY <2>1, Zenon DEF AccountIs
  <2>3. Len(pairdb) \in Nat
    BY <1>1, AppendedIsList
  <2>4. \A bt \in Traces : BlocksOf(bt) = Through(pairdb, bt)
    BY <1>1, <2>2, BlocksGoThrough
  <2>5. do_dump = {Printed(w) : w \in Leaves}
    BY <1>1, <2>2, DownIs DEF Printed
  <2>6. \A w \in Leaves : \E bt \in Traces : Through(pairdb, bt) # {}
                                             /\ Printed(w) = <<bt, Cardinality(Through(pairdb, bt))>>
    BY <1>1, <2>1, <2>3, LeafIsTrace
  <2>7. \A bt \in Traces : Through(pairdb, bt) # {}
          => \E w \in Leaves : Printed(w) = <<bt, Cardinality(Through(pairdb, bt))>>
    BY <1>1, <2>1, <2>3, TraceIsLeaf
  <2> QED
    BY <2>4, <2>5, <2>6, <2>7, Zenon
<1>2. MdbOK(mem, arrays) => mem \in [Cells -> Frames]
  BY DEF MdbOK
<1>3. RecordInv => IsList(pairdb)
  BY DEF RecordInv
<1>4. MdbOK(mem, arrays) /\ RecordInv /\ TreeInv => DumpTells
  BY <1>1, <1>2, <1>3, Zenon
<1> QED
  BY <1>4, TreeAlways, RecordAlways, FramesAlways, PTL
=============================================================================

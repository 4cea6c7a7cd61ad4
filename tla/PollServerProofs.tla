-------------------------- MODULE PollServerProofs --------------------------
(***************************************************************************)
(* PollServer for any number of clients and descriptors, any backlog and   *)
(* any number of restarts.                                                 *)
(***************************************************************************)
EXTENDS PollServer, SequenceLemmas

(* The list holds every fd once and is counted by poll_nfds; its clients   *)
(* are connected.  During a pass over the array, every entry that is not   *)
(* handled yet is still in the list.                                       *)
ListInv ==
  /\ poll_nfds = Len(poll_root)
  /\ \A j, k \in 1..Len(poll_root) : poll_root[j] = poll_root[k] => j = k
  /\ \A k \in 1..Len(poll_root) : poll_root[k] # Listener => conn[poll_root[k]] # None

PassInv ==
  /\ Len(fds) <= nfds
  /\ spc = "handle" =>
       /\ i \in 1..Len(fds)
       /\ \A j, k \in 1..Len(fds) : fds[j].fd = fds[k].fd => j = k
       /\ \A j \in 1..Len(fds) : j >= i => \E k \in 1..Len(poll_root) : poll_root[k] = fds[j].fd

IInv == TypeOK /\ ListInv /\ PassInv

(* The list entry that poll_handle() selects has the fd of the array       *)
(* entry: "Oops??" is not for the current entry.                           *)
LEMMA SelFinds ==
  ASSUME IInv, Handling
  PROVE  Sel \in 1..Len(poll_root) /\ poll_root[Sel] = fds[i].fd
<1> USE DEF IInv, TypeOK, ListInv, PassInv, Handling
<1>1. PICK k \in 1..Len(poll_root) : poll_root[k] = fds[i].fd
  OBVIOUS
<1>2. {j \in 1..Len(poll_root) : poll_root[j] = fds[i].fd} = {k}
  BY <1>1
<1>3. Min({k}) = k
  BY <1>1 DEF Min
<1>4. Sel = k
  BY <1>2, <1>3 DEF Sel, SelectInSeq
<1> QED
  BY <1>1, <1>4

(* Unlinking the entry of the current fd leaves the list and the rest of   *)
(* the pass in order.                                                      *)
LEMMA DelKeepsList ==
  ASSUME IInv, Handling, PollDel(Sel)
  PROVE  /\ poll_root' \in Seq(Fds) /\ poll_nfds' \in Nat
         /\ ListInv'
         /\ \A j \in 1..Len(poll_root) :
              poll_root[j] # fds[i].fd => \E k \in 1..Len(poll_root') : poll_root'[k] = poll_root[j]
<1> DEFINE n == Len(poll_root)
<1>1. Sel \in 1..n /\ poll_root[Sel] = fds[i].fd /\ poll_root \in Seq(Fds) /\ n \in Nat
  BY SelFinds DEF IInv, TypeOK
<1>2. /\ poll_root' \in Seq(Fds) /\ Len(poll_root') = n - 1
      /\ \A j \in 1..(n - 1) : poll_root'[j] = IF j < Sel THEN poll_root[j] ELSE poll_root[j + 1]
  BY <1>1, RemoveAtKeepsOthers DEF PollDel
<1>3. poll_nfds' = n - 1 /\ conn' = conn
  BY DEF PollDel, IInv, ListInv
<1>4. \A j \in 1..Len(poll_root') : \E m \in 1..Len(poll_root) : poll_root'[j] = poll_root[m]
  BY <1>1, <1>2
<1>5. ASSUME NEW j \in 1..Len(poll_root'), NEW k \in 1..Len(poll_root'), poll_root'[j] = poll_root'[k]
      PROVE  j = k
  <2> DEFINE old(x) == IF x < Sel THEN x ELSE x + 1
  <2>1. /\ old(j) \in 1..Len(poll_root) /\ poll_root'[j] = poll_root[old(j)]
        /\ old(k) \in 1..Len(poll_root) /\ poll_root'[k] = poll_root[old(k)]
    BY <1>1, <1>2
  <2>2. old(j) = old(k)
    BY <1>5, <2>1 DEF IInv, ListInv
  <2> QED
    BY <1>1, <1>2, <2>2
<1>6. ASSUME NEW j \in 1..Len(poll_root), poll_root[j] # fds[i].fd
      PROVE  \E k \in 1..Len(poll_root') : poll_root'[k] = poll_root[j]
  <2>1. CASE j < Sel
    <3>1. j \in 1..Len(poll_root') /\ poll_root'[j] = poll_root[j]
      BY <1>1, <1>2, <2>1
    <3> QED
      BY <3>1
  <2>2. CASE j > Sel
    <3>1. j - 1 \in 1..Len(poll_root') /\ poll_root'[j - 1] = poll_root[j]
      BY <1>1, <1>2, <2>2
    <3> QED
      BY <3>1
  <2> QED
    BY <1>1, <1>6, <2>1, <2>2
<1>7. \A k \in 1..Len(poll_root') : poll_root'[k] # Listener => conn'[poll_root'[k]] # None
  BY <1>3, <1>4 DEF IInv, ListInv
<1>8. poll_nfds' = Len(poll_root') /\ poll_nfds' \in Nat
  BY <1>1, <1>2, <1>3
<1>9. ListInv'
  BY <1>5, <1>7, <1>8 DEF ListInv
<1> QED
  BY <1>2, <1>6, <1>8, <1>9

(* The end of one turn, when the rest of the pass is still in the list. *)
LEMMA AdvanceKeepsPass ==
  ASSUME IInv, Handling, Advance, UNCHANGED array,
         \A j \in 1..Len(fds) : j > i => \E k \in 1..Len(poll_root') : poll_root'[k] = fds[j].fd
  PROVE  PassInv' /\ i' \in Nat /\ spc' \in {"poll", "handle"}
<1>1. i \in 1..Len(fds) /\ Len(fds) \in Nat /\ i' = i + 1
  BY DEF IInv, TypeOK, Handling, Advance
<1>2. fds' = fds /\ nfds' = nfds
  BY DEF array
<1>3. spc' = "handle" => i' \in 1..Len(fds')
  BY <1>1, <1>2 DEF Advance, IInv, TypeOK
<1>4. ASSUME NEW j \in 1..Len(fds), j >= i'
      PROVE  \E k \in 1..Len(poll_root') : poll_root'[k] = fds[j].fd
  BY <1>1, <1>4 DEF IInv, TypeOK
<1>5. \A j, k \in 1..Len(fds') : fds'[j].fd = fds'[k].fd => j = k
  BY <1>2 DEF IInv, PassInv, Handling
<1>6. Len(fds') <= nfds'
  BY <1>2 DEF IInv, PassInv
<1>7. PassInv'
  BY <1>2, <1>3, <1>4, <1>5, <1>6 DEF PassInv
<1> QED
  BY <1>1, <1>7 DEF Advance

(* The server starts with no list, no array and nothing counted. *)
LEMMA InitInv == Init => IInv
BY PollServerAssumption
   DEF Init, IInv, TypeOK, ListInv, PassInv, Fds, Listener

(* What the clients do does not reach the server's structures. *)
LEMMA ClientStep ==
  ASSUME IInv, NEW c \in Clients, Client(c) \/ KillClient(c)
  PROVE  IInv'
<1> USE DEF IInv, TypeOK, ListInv, PassInv, Call, Ended, Client, table, array
<1>1. CASE Connect(c)
  <2>1. backlog' \in Seq(Clients)
    <3>1. backlog' = backlog \/ backlog' = Append(backlog, c)
      BY <1>1 DEF Connect
    <3>2. backlog \in Seq(Clients)
      OBVIOUS
    <3> QED
      BY ONLY <3>1, <3>2, c \in Clients
  <2> QED
    BY <1>1, <2>1 DEF Connect
<1>2. CASE Write(c)
  BY <1>2 DEF Write
<1>3. CASE Read(c)
  BY <1>3 DEF Read
<1>4. CASE KillClient(c)
  BY <1>4 DEF KillClient
<1> QED
  BY <1>1, <1>2, <1>3, <1>4

(* poll_fds() copies a list without duplicates and makes room for it.     *)
LEMMA PollStep ==
  ASSUME IInv, Poll
  PROVE  IInv'
<1> USE DEF IInv, TypeOK, ListInv, PassInv, Poll, clients, table
<1>1. \A fd \in Fds : Ready(fd) \in Events
  BY DEF Ready, Events
<1>2. fds' \in Seq(Pollfds) /\ Len(fds') = Len(poll_root)
      /\ \A k \in 1..Len(poll_root) : fds'[k].fd = poll_root[k]
  BY <1>1 DEF Pollfds
<1>3. nfds' \in Nat /\ Len(fds') <= nfds'
  BY <1>2
<1>4. Len(fds') >= 1
  BY <1>2
<1> QED
  BY <1>2, <1>3, <1>4

(* Serving a client keeps the list; hanging up unlinks the current entry. *)
LEMMA HandleClientStep ==
  ASSUME IInv, HandleClient
  PROVE  IInv'
<1>0. /\ Handling /\ Advance /\ UNCHANGED array /\ UNCHANGED <<cpc, broken, backlog, kills>>
      /\ fds[i].fd # Listener
  BY DEF HandleClient, array
<1>1. i \in 1..Len(fds) /\ Len(fds) \in Nat /\ fds[i].fd \in Fds
  <2>1. fds \in Seq(Pollfds) /\ i \in 1..Len(fds)
    BY <1>0 DEF Handling, IInv, TypeOK
  <2>2. fds[i] \in Pollfds
    BY ONLY <2>1, ElementOfSeq
  <2> QED
    BY <2>1, <2>2 DEF Pollfds
<1>2. CASE PollDel(Sel) /\ UNCHANGED <<inbox, reply>>
  <2>1. poll_root' \in Seq(Fds) /\ poll_nfds' \in Nat /\ ListInv' /\ conn' = conn
    BY <1>0, <1>2, DelKeepsList DEF PollDel
  <2>2. ASSUME NEW j \in 1..Len(fds), j > i
        PROVE  \E k \in 1..Len(poll_root') : poll_root'[k] = fds[j].fd
    <3>1. fds[j].fd # fds[i].fd
      BY <1>0, <1>1, <2>2 DEF IInv, PassInv, Handling
    <3>2. PICK m \in 1..Len(poll_root) : poll_root[m] = fds[j].fd
      BY <1>0, <1>1, <2>2, SMTT(30) DEF IInv, PassInv, TypeOK, Handling
    <3> QED
      BY <1>0, <1>2, <3>1, <3>2, DelKeepsList
  <2>3. PassInv' /\ i' \in Nat /\ spc' \in {"poll", "handle"}
    BY <1>0, <2>2, AdvanceKeepsPass
  <2> QED
    BY <1>0, <1>2, <2>1, <2>3 DEF IInv, TypeOK, array
<1>3. CASE UNCHANGED table
  <2>1. inbox' \subseteq Clients /\ reply' \subseteq Clients
    <3>1. conn[fds[i].fd] \in Clients \cup {None} /\ Listener \notin DOMAIN conn
      BY <1>0, <1>1 DEF IInv, TypeOK
    <3> QED
      BY <3>1 DEF HandleClient, IInv, TypeOK
  <2>2. \A j \in 1..Len(fds) : j > i => \E k \in 1..Len(poll_root') : poll_root'[k] = fds[j].fd
    BY <1>0, <1>1, <1>3 DEF IInv, PassInv, TypeOK, Handling, table
  <2>3. PassInv' /\ i' \in Nat /\ spc' \in {"poll", "handle"}
    BY <1>0, <2>2, AdvanceKeepsPass
  <2> QED
    BY <1>0, <1>3, <2>1, <2>3 DEF IInv, TypeOK, ListInv, array, table
<1> QED
  BY <1>2, <1>3 DEF HandleClient

(* accept() gives a descriptor that no entry of the list has. *)
LEMMA HandleSocketStep ==
  ASSUME IInv, HandleSocket
  PROVE  IInv'
<1>0. Handling /\ Advance /\ UNCHANGED array /\ UNCHANGED <<clients, kills>>
  BY DEF HandleSocket, array
<1>1. i \in 1..Len(fds) /\ Len(fds) \in Nat
  BY <1>0 DEF Handling, IInv, TypeOK
<1>2. CASE UNCHANGED <<backlog, table>>
  <2>1. \A j \in 1..Len(fds) : j > i => \E k \in 1..Len(poll_root') : poll_root'[k] = fds[j].fd
    BY <1>0, <1>1, <1>2 DEF IInv, PassInv, TypeOK, Handling, table
  <2>2. PassInv' /\ i' \in Nat /\ spc' \in {"poll", "handle"}
    BY <1>0, <2>1, AdvanceKeepsPass
  <2> QED
    BY <1>0, <1>2, <2>2 DEF IInv, TypeOK, ListInv, array, table, clients
<1>3. ASSUME NEW infd \in DOMAIN conn, conn[infd] = None, backlog # <<>>, backlog' = Tail(backlog),
             conn' = [conn EXCEPT ![infd] = Head(backlog)], PollNew(infd)
      PROVE  IInv'
  <2>1. infd \in Fds \ {Listener} /\ Head(backlog) \in Clients /\ Tail(backlog) \in Seq(Clients)
    BY <1>3 DEF IInv, TypeOK
  <2>2. /\ poll_root' \in Seq(Fds) /\ Len(poll_root') = Len(poll_root) + 1
        /\ Len(poll_root) \in Nat
        /\ \A k \in 1..Len(poll_root) : poll_root'[k] = poll_root[k]
        /\ poll_root'[Len(poll_root) + 1] = infd
    BY <1>3, <2>1 DEF PollNew, IInv, TypeOK
  <2>3. \A k \in 1..Len(poll_root) : poll_root[k] # infd
    BY <1>3, <2>1 DEF IInv, ListInv
  <2>4. poll_nfds' = Len(poll_root')
    BY <1>3, <2>2 DEF PollNew, IInv, ListInv
  <2>5. \A j, k \in 1..Len(poll_root') : poll_root'[j] = poll_root'[k] => j = k
    BY <2>2, <2>3, SMTT(30) DEF IInv, ListInv, TypeOK
  <2>6. \A k \in 1..Len(poll_root') : poll_root'[k] # Listener => conn'[poll_root'[k]] # None
    <3>1. /\ \A fd \in DOMAIN conn : conn'[fd] = IF fd = infd THEN Head(backlog) ELSE conn[fd]
          /\ Head(backlog) # None
      BY <1>3, <2>1, PollServerAssumption DEF IInv, TypeOK
    <3>2. \A fd \in Fds : fd # Listener => fd \in DOMAIN conn
      BY DEF IInv, TypeOK
    <3>3. \A k \in 1..Len(poll_root) : poll_root[k] \in Fds
      BY DEF IInv, TypeOK
    <3> QED
      BY <2>1, <2>2, <2>3, <3>1, <3>2, <3>3, SMTT(30) DEF IInv, ListInv, TypeOK
  <2>7. \A j \in 1..Len(fds) : j > i => \E k \in 1..Len(poll_root') : poll_root'[k] = fds[j].fd
    <3>1. \A j \in 1..Len(fds) : j > i => \E k \in 1..Len(poll_root) : poll_root[k] = fds[j].fd
      BY <1>0, <1>1 DEF IInv, PassInv, TypeOK, Handling
    <3>2. \A k \in 1..Len(poll_root) : k \in 1..Len(poll_root') /\ poll_root'[k] = poll_root[k]
      BY <2>2 DEF IInv, TypeOK
    <3> QED
      BY <3>1, <3>2
  <2>8. PassInv' /\ i' \in Nat /\ spc' \in {"poll", "handle"}
    BY <1>0, <2>7, AdvanceKeepsPass
  <2>9. conn' \in [Fds \ {Listener} -> Clients \cup {None}] /\ poll_nfds' \in Nat
    BY <1>3, <2>1, <2>2, <2>4 DEF IInv, TypeOK
  <2> QED
    BY <1>0, <1>3, <2>1, <2>2, <2>4, <2>5, <2>6, <2>8, <2>9
       DEF IInv, TypeOK, ListInv, array, clients
<1> QED
  BY <1>2, <1>3 DEF HandleSocket

(* A killed server leaves nothing behind but broken connections. *)
LEMMA KillServerStep ==
  ASSUME IInv, KillServer
  PROVE  IInv'
<1>1. broken' \subseteq Clients
  BY DEF IInv, TypeOK, KillServer, Range
<1>2. TypeOK'
  BY <1>1, PollServerAssumption DEF IInv, TypeOK, KillServer
<1>3. ListInv' /\ PassInv'
  BY DEF IInv, ListInv, PassInv, KillServer
<1> QED
  BY <1>2, <1>3 DEF IInv

(* Every step of the system preserves the invariant. *)
LEMMA NextInv ==
  ASSUME IInv, [Next]_vars
  PROVE  IInv'
<1>1. CASE Start
  <2>1. Listener \in Fds
    BY PollServerAssumption DEF Listener, Fds
  <2> QED
    BY <1>1, <2>1 DEF Start, IInv, TypeOK, ListInv, PassInv, clients, array
<1>2. CASE Skip
  BY <1>2 DEF Skip, IInv, TypeOK, ListInv, PassInv, clients, array, table, Handling, Advance
<1>3. CASE UNCHANGED vars
  BY <1>3 DEF vars, IInv, TypeOK, ListInv, PassInv, clients, array, table
<1> QED
  BY <1>1, <1>2, <1>3, ClientStep, PollStep, HandleClientStep, HandleSocketStep, KillServerStep
     DEF Next, Server, AllEnded

(* List, counter, array and pass of poll_handle() always fit together.     *)
THEOREM InvariantHolds == Spec => []IInv
BY InitInv, NextInv, PTL DEF Spec

(* The variables of the server and of the kernel keep their types. *)
THEOREM TypeCorrect == Spec => []TypeOK
BY InvariantHolds, PTL DEF IInv

(* fatal ("Oops??") in poll_handle() is dead code: every event poll()      *)
(* reported is for an entry that is still in the list, although handlers   *)
(* unlink and link entries during the pass.                                *)
THEOREM OopsIsDead == Spec => []NoOops
<1>1. IInv => NoOops
  BY SelFinds DEF NoOops, Oops
<1> QED
  BY <1>1, InvariantHolds, PTL

(* poll_fds() never writes behind the array it allocated, whatever order   *)
(* clients come and go in between two of its calls.                        *)
THEOREM ArrayIsLargeEnough == Spec => []FdsFit
<1>1. IInv => FdsFit
  BY DEF IInv, PassInv, FdsFit
<1> QED
  BY <1>1, InvariantHolds, PTL

-----------------------------------------------------------------------------
(* A hangup that poll() reported and that is not handled yet is still one: *)
(* its client does not come back, and its descriptor is not given away.    *)
HangupInv ==
  spc = "handle" =>
    \A j \in 1..Len(fds) :
      j >= i /\ "POLLHUP" \in fds[j].revents
        => fds[j].fd \in DOMAIN conn /\ conn[fds[j].fd] \in Clients /\ Gone(conn[fds[j].fd])

(* What poll() reports of an entry of the list.                            *)
LEMMA ReportedIsGone ==
  ASSUME IInv, NEW k \in 1..Len(poll_root), "POLLHUP" \in Ready(poll_root[k])
  PROVE  /\ poll_root[k] \in DOMAIN conn /\ conn[poll_root[k]] \in Clients
         /\ Gone(conn[poll_root[k]])
<1>1. poll_root[k] \in Fds /\ poll_root[k] # Listener /\ Gone(conn[poll_root[k]])
  BY DEF IInv, TypeOK, Ready
<1>2. poll_root[k] \in DOMAIN conn /\ conn[poll_root[k]] \in Clients \cup {None}
  BY <1>1 DEF IInv, TypeOK
<1>3. conn[poll_root[k]] # None
  BY <1>1 DEF IInv, ListInv
<1> QED
  BY <1>1, <1>2, <1>3

(* No step makes a reported hangup untrue.                                 *)
LEMMA HangupStep ==
  ASSUME IInv, HangupInv, [Next]_vars
  PROVE  HangupInv'
<1> SUFFICES ASSUME spc' = "handle", NEW j \in 1..Len(fds'), j >= i', "POLLHUP" \in fds'[j].revents
             PROVE  /\ fds'[j].fd \in DOMAIN conn' /\ conn'[fds'[j].fd] \in Clients
                    /\ cpc'[conn'[fds'[j].fd]] \in Ended
  BY DEF HangupInv, Gone
<1>1. CASE Poll
  <2>1. /\ fds' = [k \in 1..Len(poll_root) |-> [fd |-> poll_root[k], revents |-> Ready(poll_root[k])]]
        /\ conn' = conn /\ cpc' = cpc /\ Len(poll_root) \in Nat
    BY <1>1 DEF Poll, clients, table, IInv, TypeOK
  <2>2. /\ j \in 1..Len(poll_root) /\ fds'[j].fd = poll_root[j]
        /\ fds'[j].revents = Ready(poll_root[j])
    BY <2>1
  <2> QED
    BY <2>1, <2>2, ReportedIsGone DEF Gone
<1>2. ASSUME fds' = fds, spc = "handle", i' = i \/ i' = i + 1
      PROVE  /\ j \in 1..Len(fds) /\ fds'[j] = fds[j]
             /\ fds[j].fd \in DOMAIN conn /\ conn[fds[j].fd] \in Clients /\ Gone(conn[fds[j].fd])
  BY <1>2 DEF HangupInv, IInv, TypeOK
<1>3. ASSUME NEW c \in Clients, Client(c) \/ KillClient(c)
      PROVE  UNCHANGED <<fds, spc, i, conn>> /\ \A d \in Clients : Gone(d) => Gone(d)'
  BY <1>3 DEF Client, Connect, Write, Read, KillClient, Call, Gone, Ended, table, array, IInv, TypeOK
<1>4. CASE \E c \in Clients : Client(c) \/ KillClient(c)
  BY <1>2, <1>3, <1>4 DEF Gone
<1>5. CASE UNCHANGED vars
  BY <1>2, <1>5 DEF vars, clients, table, array, Gone
<1>6. CASE Skip \/ HandleClient
  <2>1. fds' = fds /\ spc = "handle" /\ i' = i + 1 /\ conn' = conn /\ cpc' = cpc
    BY <1>6 DEF Skip, HandleClient, PollDel, Handling, Advance, clients, table, array
  <2> QED
    BY <1>2, <2>1 DEF Gone
<1>7. CASE HandleSocket
  <2>1. fds' = fds /\ spc = "handle" /\ i' = i + 1 /\ cpc' = cpc
    BY <1>7 DEF HandleSocket, Handling, Advance, clients, array
  <2>2. /\ fds[j].fd \in DOMAIN conn /\ conn[fds[j].fd] \in Clients /\ Gone(conn[fds[j].fd])
        /\ fds'[j] = fds[j]
    BY <1>2, <2>1
  <2>3. conn'[fds[j].fd] = conn[fds[j].fd] /\ DOMAIN conn' = DOMAIN conn
    <3>1. conn[fds[j].fd] # None
      BY <2>2, PollServerAssumption
    <3> QED
      BY <1>7, <2>2, <3>1 DEF HandleSocket, table
  <2> QED
    BY <2>1, <2>2, <2>3 DEF Gone
<1>8. CASE Start \/ KillServer
  BY <1>8 DEF Start, KillServer
<1> QED
  BY <1>1, <1>4, <1>5, <1>6, <1>7, <1>8 DEF Next, Server, AllEnded

(* Only entries whose client is gone leave the list while the server runs. *)
THEOREM OnlyGoneAreDroppedHolds == Spec => OnlyGoneAreDropped
<1> DEFINE Dropped == spc # "down" /\ spc' # "down" =>
                        \A fd \in Range(poll_root) \ Range(poll_root') : fd # Listener /\ Gone(conn[fd])
<1>1. Init => HangupInv
  BY DEF Init, HangupInv
<1>2. ASSUME IInv, HangupInv, [Next]_vars PROVE Dropped
  <2> SUFFICES ASSUME spc # "down", spc' # "down", NEW fd \in Range(poll_root) \ Range(poll_root')
               PROVE  fd # Listener /\ Gone(conn[fd])
    OBVIOUS
  <2>1. PICK k \in 1..Len(poll_root) : fd = poll_root[k]
    BY <1>2 DEF Range, IInv, TypeOK
  <2>2. HandleClient /\ "POLLHUP" \in Revents /\ PollDel(Sel)
    <3>1. ~UNCHANGED poll_root
      OBVIOUS
    <3>2. ~(\E infd \in Fds : PollNew(infd))
      <4> SUFFICES ASSUME NEW infd \in Fds, PollNew(infd) PROVE FALSE
        OBVIOUS
      <4>1. k \in DOMAIN poll_root' /\ poll_root'[k] = fd
        BY <1>2, <2>1 DEF PollNew, IInv, TypeOK
      <4> QED
        BY <4>1 DEF Range
    <3>3. ~HandleSocket
      BY <1>2, <3>1, <3>2 DEF HandleSocket, table, IInv, TypeOK
    <3>4. HandleClient
      BY <1>2, <3>1, <3>3
         DEF Next, Server, AllEnded, Start, KillServer, Client, Connect, Write, Read, KillClient, Poll, Skip,
             vars, table
    <3> QED
      BY <3>1, <3>4 DEF HandleClient, table
  <2>3. Handling
    BY <2>2 DEF HandleClient
  <2>4. fd = fds[i].fd
    <3>1. SUFFICES ASSUME fd # fds[i].fd PROVE FALSE
      OBVIOUS
    <3>2. PICK m \in 1..Len(poll_root') : poll_root'[m] = fd
      BY <1>2, <2>1, <2>2, <2>3, <3>1, DelKeepsList
    <3>3. m \in DOMAIN poll_root'
      BY <1>2, <2>2, <2>3, <3>2, DelKeepsList
    <3> QED
      BY <3>2, <3>3 DEF Range
  <2>5. i \in 1..Len(fds) /\ i >= i
    BY <1>2, <2>3 DEF IInv, TypeOK, Handling
  <2> QED
    BY <1>2, <2>2, <2>3, <2>4, <2>5 DEF HangupInv, Handling, Revents, IInv, TypeOK
<1>3. IInv /\ HangupInv /\ [Next]_vars => HangupInv'
  BY HangupStep
<1>4. IInv /\ HangupInv /\ [Next]_vars => [Dropped]_vars
  BY <1>2
<1> QED
  BY <1>1, <1>3, <1>4, InvariantHolds, PTL DEF Spec, OnlyGoneAreDropped

-----------------------------------------------------------------------------
(* A request the server has not read was written, and an answer is waiting *)
(* only for a client that is in read().                                    *)
RequestInv ==
  \A c \in Clients :
    /\ c \in inbox => cpc[c] \notin {"connect", "write"}
    /\ c \in reply => cpc[c] = "read"

(* Requests are written, read, answered and taken in this order.           *)
LEMMA RequestsInOrder == Spec => []RequestInv
<1>1. Init => RequestInv
  BY DEF Init, RequestInv
<1>2. ASSUME TypeOK, RequestInv, [Next]_vars PROVE RequestInv'
  <2> USE <1>2 DEF TypeOK, RequestInv, Call, Ended, Gone
  <2>1. ASSUME NEW c \in Clients, Connect(c) PROVE RequestInv'
    BY <2>1 DEF Connect
  <2>2. ASSUME NEW c \in Clients, Write(c) PROVE RequestInv'
    BY <2>2 DEF Write
  <2>3. ASSUME NEW c \in Clients, Read(c) PROVE RequestInv'
    BY <2>3 DEF Read
  <2>4. ASSUME NEW c \in Clients, KillClient(c) PROVE RequestInv'
    BY <2>4 DEF KillClient
  <2>5. CASE HandleClient
    BY <2>5 DEF HandleClient
  <2>6. CASE Start \/ Poll \/ Skip \/ HandleSocket
    BY <2>6 DEF Start, Poll, Skip, HandleSocket, clients
  <2>7. CASE KillServer
    BY <2>7 DEF KillServer
  <2>8. CASE UNCHANGED vars
    BY <2>8 DEF vars, clients
  <2> QED
    BY <2>1, <2>2, <2>3, <2>4, <2>5, <2>6, <2>7, <2>8 DEF Next, Client, Server, AllEnded
<1> QED
  BY <1>1, <1>2, TypeCorrect, PTL DEF Spec

(* Seen from the clients, the server is the echo service: it answers each  *)
(* request at most once and no request that was not made.  (That it always *)
(* answers is a liveness property and is model-checked.)                   *)
THEOREM ServerIsEchoService == Spec => Echo!EchoSafe
<1>1. Init => Echo!EchoInit
  BY DEF Init, Echo!EchoInit, Requests
<1>2. ASSUME TypeOK, RequestInv, [Next]_vars
      PROVE  [Echo!EchoNext]_Requests
  <2> USE <1>2 DEF TypeOK, RequestInv, Requests, Call, Ended, Gone
  <2>1. ASSUME NEW c \in Clients, Connect(c) PROVE Echo!Leave(c) \/ UNCHANGED Requests
    BY <2>1 DEF Connect, Echo!Leave, Echo!Move
  <2>2. ASSUME NEW c \in Clients, Write(c) PROVE Echo!Ask(c)
    BY <2>2 DEF Write, Echo!Ask, Echo!Move
  <2>3. ASSUME NEW c \in Clients, Read(c) PROVE Echo!Leave(c) \/ UNCHANGED Requests
    BY <2>3 DEF Read, Echo!Leave, Echo!Move
  <2>4. ASSUME NEW c \in Clients, KillClient(c) PROVE Echo!Leave(c)
    BY <2>4 DEF KillClient, Echo!Leave, Echo!Move
  <2>5. CASE HandleClient
    <3>1. CASE UNCHANGED <<cpc, reply>>
      BY <3>1
    <3>2. ASSUME NEW c \in inbox, reply' = reply \cup {c}, cpc' = cpc
          PROVE  Echo!Answer(c) \/ UNCHANGED Requests
      BY <3>2 DEF Echo!Answer, Echo!Move
    <3> QED
      BY <2>5, <3>1, <3>2 DEF HandleClient, Echo!EchoNext
  <2>6. CASE Start \/ Poll \/ Skip \/ HandleSocket \/ KillServer
    BY <2>6 DEF Start, Poll, Skip, HandleSocket, KillServer, clients
  <2>7. CASE UNCHANGED vars
    BY <2>7 DEF vars, clients
  <2> QED
    BY <2>1, <2>2, <2>3, <2>4, <2>5, <2>6, <2>7 DEF Next, Client, Server, AllEnded, Echo!EchoNext
<1> QED
  BY <1>1, <1>2, TypeCorrect, RequestsInOrder, PTL DEF Spec, Echo!EchoSafe
=============================================================================

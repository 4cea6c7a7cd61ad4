------------------------ MODULE SerialRepeaterProofs ------------------------
(***************************************************************************)
(* SerialRepeater for any number of clients and descriptors, any backlog,  *)
(* any size of the sockets' buffers, and both builds.                      *)
(***************************************************************************)
EXTENDS SerialRepeater, SequenceLemmas

Serving == spc \in {"poll", "handle"}

(* Nothing has happened before the server is up.                           *)
StartInv ==
  spc = "start" => /\ pfds = <<>> /\ cbs = <<>> /\ backlog = <<>> /\ ~corrupt
                   /\ \A fd \in DOMAIN conn : conn[fd] = None
                   /\ \A c \in Clients : cpc[c] = "connect"

(* The two tables have the same slots, and the listener's is the one with  *)
(* server_event; the other used slots are the connections, each once.      *)
SlotInv ==
  /\ Len(cbs) = Len(pfds)
  /\ Serving =>
       /\ \A k \in 1..Len(pfds) : pfds[k].fd = Listener <=> cbs[k] = "server_event"
       /\ \A j, k \in 1..Len(pfds) : pfds[j].fd = pfds[k].fd /\ pfds[j].fd >= 0 => j = k
       /\ \A k \in 1..Len(pfds) : pfds[k].fd > Listener => conn[pfds[k].fd] # None
       /\ \A fd \in DOMAIN conn : conn[fd] # None => \E k \in 1..Len(pfds) : pfds[k].fd = fd

(* A client has one connection at most, waiting or accepted, and none      *)
(* before its connect().                                                   *)
ConnInv ==
  /\ \A fd, gd \in DOMAIN conn : conn[fd] = conn[gd] /\ conn[fd] # None => fd = gd
  /\ \A k \in 1..Len(backlog) : \A fd \in DOMAIN conn : conn[fd] # backlog[k]
  /\ \A j, k \in 1..Len(backlog) : backlog[j] = backlog[k] => j = k
  /\ \A c \in Clients : cpc[c] = "connect" =>
       /\ \A fd \in DOMAIN conn : conn[fd] # c
       /\ \A k \in 1..Len(backlog) : backlog[k] # c

(* What slot k was reported for is still there.                            *)
Pending(k) ==
  /\ "POLLIN" \in pfds[k].revents
  /\ pfds[k].fd = Listener => backlog # <<>>
  /\ pfds[k].fd > Listener =>
       /\ data[conn[pfds[k].fd]] > 0 \/ cpc[conn[pfds[k].fd]] = "closed"
       /\ "POLLHUP" \in pfds[k].revents => cpc[conn[pfds[k].fd]] = "closed"

(* The rest of the pass: the slots main() has still to look at.            *)
PassInv ==
  spc = "handle" =>
    /\ i >= 1
    /\ \A k \in 1..Len(pfds) : k >= i /\ pfds[k].fd >= 0 /\ pfds[k].revents # {} => Pending(k)

(* Eight bytes for each slot are enough where a callback takes eight.      *)
SizeInv == CbSize = 8 => cbsBytes = 8 * Len(cbs) /\ ~corrupt /\ spc # "abort"

IInv == TypeOK /\ StartInv /\ SlotInv /\ ConnInv /\ PassInv

-----------------------------------------------------------------------------
(* add_pollfd() takes a slot that is free, in the table or behind its end. *)
LEMMA FreeSlotIsFree ==
  ASSUME TypeOK
  PROVE  /\ FreeSlot \in 1..(Len(pfds) + 1) /\ Len(pfds) \in Nat
         /\ FreeSlot <= Len(pfds) => pfds[FreeSlot].fd < 0
<1> DEFINE I == {k \in 1..Len(pfds) : pfds[k].fd < 0}
<1>1. Len(pfds) \in Nat
  BY DEF TypeOK
<1>2. FreeSlot = IF (IF I # {} THEN Min(I) ELSE 0) = 0 THEN Len(pfds) + 1
                 ELSE (IF I # {} THEN Min(I) ELSE 0)
  BY DEF FreeSlot, SelectInSeq, npfds
<1>3. I # {} => Min(I) \in I
  BY <1>1, MinIsLeast
<1> QED
  BY <1>1, <1>2, <1>3

(* A new slot has no events, and the others stay what they are.            *)
LEMMA AddFillsOneSlot ==
  ASSUME TypeOK, Len(cbs) = Len(pfds), NEW fd \in Fds,
         NEW cb \in {"server_event", "client_event"}, add_pollfd(fd, cb)
  PROVE  \/ spc' = "abort" /\ UNCHANGED table
         \/ /\ pfds' \in Seq(Pollfds) /\ cbs' \in Seq({"server_event", "client_event"})
            /\ Len(cbs') = Len(pfds') /\ cbsBytes' \in Nat /\ corrupt' \in BOOLEAN
            /\ spc' = IF spc = "start" THEN "poll" ELSE spc
            /\ \E k \in 1..Len(pfds') :
                 /\ k > Len(pfds) \/ pfds[k].fd < 0
                 /\ pfds'[k] = [fd |-> fd, revents |-> {}] /\ cbs'[k] = cb
                 /\ \A j \in 1..Len(pfds') :
                      j # k => j \in 1..Len(pfds) /\ pfds'[j] = pfds[j] /\ cbs'[j] = cbs[j]
                 /\ \A j \in 1..Len(pfds) : j \in 1..Len(pfds')
<1> DEFINE k == FreeSlot
           n == Len(pfds)
           new == [fd |-> fd, revents |-> {}]
           Cbs == {"server_event", "client_event"}
<1>1. k \in 1..(n + 1) /\ n \in Nat /\ (k <= n => pfds[k].fd < 0)
  BY FreeSlotIsFree
<1>2. pfds \in Seq(Pollfds) /\ cbs \in Seq(Cbs) /\ Len(cbs) = n /\ new \in Pollfds
  BY DEF TypeOK, Pollfds, Events
<1> HIDE DEF k, new, Cbs
<1>3. SUFFICES ASSUME ~(spc' = "abort" /\ UNCHANGED table)
      PROVE  /\ pfds' \in Seq(Pollfds) /\ cbs' \in Seq(Cbs)
             /\ Len(cbs') = Len(pfds') /\ cbsBytes' \in Nat /\ corrupt' \in BOOLEAN
             /\ spc' = IF spc = "start" THEN "poll" ELSE spc
             /\ k \in 1..Len(pfds') /\ pfds'[k] = new /\ cbs'[k] = cb
             /\ \A j \in 1..Len(pfds') :
                  j # k => j \in 1..n /\ pfds'[j] = pfds[j] /\ cbs'[j] = cbs[j]
             /\ \A j \in 1..n : j \in 1..Len(pfds')
  BY <1>1 DEF new, Cbs
<1>4. /\ pfds' = IF k = n + 1 THEN Append(pfds, new) ELSE [pfds EXCEPT ![k] = new]
      /\ cbs' = IF k = n + 1 THEN Append(cbs, cb) ELSE [cbs EXCEPT ![k] = cb]
      /\ cbsBytes' = IF k = n + 1 THEN (n + 1) * PollfdSize ELSE cbsBytes
      /\ corrupt' = (corrupt \/ k * CbSize > Usable(cbsBytes'))
      /\ spc' = IF spc = "start" THEN "poll" ELSE spc
  BY <1>3 DEF add_pollfd, npfds, k, new
<1>5. cbsBytes' \in Nat /\ corrupt' \in BOOLEAN
  BY <1>1, <1>4 DEF TypeOK, PollfdSize
<1>6. CASE k = n + 1
  BY <1>1, <1>2, <1>4, <1>5, <1>6 DEF Cbs
<1>7. CASE k # n + 1
  <2>1. k \in 1..n
    BY <1>1, <1>7
  <2> QED
    BY <1>1, <1>2, <1>4, <1>5, <1>7, <2>1 DEF Cbs
<1> QED
  BY <1>6, <1>7

(* rm_pollfd() finds the slot it was called for.                           *)
LEMMA RmFreesItsSlot ==
  ASSUME IInv, Serving, NEW k \in 1..Len(pfds), pfds[k].fd >= 0, rm_pollfd(pfds[k].fd)
  PROVE  pfds' = [pfds EXCEPT ![k].fd = -1] /\ UNCHANGED spc
<1>1. Len(pfds) \in Nat
  BY DEF IInv, TypeOK
<1>2. {j \in 1..Len(pfds) : pfds[j].fd = pfds[k].fd} = {k}
  BY DEF IInv, SlotInv
<1>3. Min({k}) = k
  BY <1>1 DEF Min
<1>4. SlotOf(pfds[k].fd) = k
  BY <1>2, <1>3 DEF SlotOf, SelectInSeq
<1> QED
  BY <1>1, <1>4 DEF rm_pollfd

-----------------------------------------------------------------------------
(* Everything starts empty. *)
LEMMA InitInv == Init => IInv
<1> SUFFICES ASSUME Init PROVE IInv
  OBVIOUS
<1>1. TypeOK
  <2>1. cpc \in [Clients -> {"connect", "open", "closed"}] /\ data \in [Clients -> 0..MaxData]
    BY SerialRepeaterAssumption DEF Init
  <2>2. conn \in [Fds \ {Listener} -> Clients \cup {None}]
    BY DEF Init
  <2>3. corrupt \in BOOLEAN /\ ~corrupt
    BY Zenon DEF Init
  <2> QED
    BY <2>1, <2>2, <2>3 DEF Init, TypeOK
<1>2. StartInv /\ ConnInv
  <2>1. ~corrupt
    BY Zenon DEF Init
  <2>2. /\ pfds = <<>> /\ cbs = <<>> /\ backlog = <<>>
        /\ \A fd \in DOMAIN conn : conn[fd] = None
        /\ \A c \in Clients : cpc[c] = "connect" /\ None # c
    BY SerialRepeaterAssumption DEF Init
  <2>3. StartInv
    BY <2>1, <2>2 DEF StartInv
  <2> QED
    BY <2>2, <2>3 DEF ConnInv
<1>3. SlotInv /\ PassInv
  BY DEF Init, SlotInv, PassInv, Serving
<1> QED
  BY <1>1, <1>2, <1>3 DEF IInv

(* A client that connects, sends or quits takes no event back.             *)
LEMMA ClientStep ==
  ASSUME IInv, NEW c \in Clients, Connect(c) \/ Send(c) \/ Close(c), UNCHANGED CbSize
  PROVE  IInv'
<1> USE DEF IInv, TypeOK, StartInv, SlotInv, PassInv, Pending, Serving, table
<1>0. \A fd \in DOMAIN conn : conn[fd] # None => conn[fd] \in Clients
  OBVIOUS
<1>1. CASE Connect(c)
  <2>1. /\ backlog' \in Seq(Clients) /\ Len(backlog') = Len(backlog) + 1 /\ Len(backlog) \in Nat
        /\ \A k \in 1..Len(backlog) : backlog'[k] = backlog[k]
        /\ backlog'[Len(backlog) + 1] = c
    BY <1>1 DEF Connect
  <2>2. TypeOK' /\ StartInv' /\ SlotInv'
    BY <1>1, <2>1 DEF Connect
  <2>3. ConnInv'
    BY <1>1, <2>1 DEF Connect, ConnInv
  <2>4. PassInv'
    BY <1>1, <2>1, <1>0 DEF Connect, ConnInv
  <2> QED
    BY <2>2, <2>3, <2>4
<1>2. CASE Send(c)
  <2>1. data' \in [Clients -> 0..MaxData] /\ \A d \in Clients : data'[d] >= data[d]
    BY <1>2, SerialRepeaterAssumption DEF Send
  <2>2. TypeOK' /\ StartInv' /\ SlotInv' /\ ConnInv'
    BY <1>2, <2>1 DEF Send, ConnInv
  <2>3. PassInv'
    <3> SUFFICES ASSUME spc = "handle", NEW k \in 1..Len(pfds), k >= i, pfds[k].fd >= 0,
                        pfds[k].revents # {}
                 PROVE  Pending(k)'
      BY <1>2 DEF Send
    <3>1. Pending(k) /\ pfds[k].fd \in Fds
      <4>1. pfds[k] \in Pollfds
        OBVIOUS
      <4> QED
        BY <4>1 DEF Pollfds, Fds
    <3>2. pfds[k].fd > Listener => conn[pfds[k].fd] \in Clients
      BY <1>0, <3>1 DEF Fds, Listener
    <3>3. pfds[k].fd > Listener /\ data[conn[pfds[k].fd]] > 0 => data'[conn[pfds[k].fd]] > 0
      BY <2>1, <3>2
    <3> QED
      BY <1>2, <3>1, <3>3 DEF Send
  <2> QED
    BY <2>2, <2>3
<1>3. CASE Close(c)
  <2>1. /\ cpc[c] = "open" /\ \A d \in Clients : cpc'[d] = IF d = c THEN "closed" ELSE cpc[d]
        /\ cpc' \in [Clients -> {"connect", "open", "closed"}]
        /\ data' = data /\ backlog' = backlog /\ conn' = conn
    BY <1>3 DEF Close
  <2>2. TypeOK' /\ StartInv' /\ SlotInv'
    BY <1>3, <2>1 DEF Close
  <2>3. ConnInv'
    <3>1. ConnInv /\ \A d \in Clients : cpc'[d] = "connect" => cpc[d] = "connect"
      BY <2>1
    <3> QED
      BY ONLY <2>1, <3>1 DEF ConnInv
  <2>4. PassInv'
    <3> SUFFICES ASSUME spc = "handle", NEW k \in 1..Len(pfds), k >= i, pfds[k].fd >= 0,
                        pfds[k].revents # {}
                 PROVE  Pending(k)'
      BY <1>3 DEF Close
    <3>1. Pending(k) /\ pfds[k].fd \in Fds
      <4>1. pfds[k] \in Pollfds
        OBVIOUS
      <4> QED
        BY <4>1 DEF Pollfds, Fds
    <3>2. pfds[k].fd > Listener => conn[pfds[k].fd] \in Clients
      BY <1>0, <3>1 DEF Fds, Listener
    <3> QED
      BY <1>3, <2>1, <3>1, <3>2 DEF Close
  <2> QED
    BY <2>2, <2>3, <2>4
<1> QED
  BY <1>1, <1>2, <1>3

(* The listener gets the first slot.                                       *)
LEMMA StartStep ==
  ASSUME IInv, Start, UNCHANGED CbSize
  PROVE  IInv'
<1>1. /\ Listener \in Fds /\ spc = "start" /\ Len(pfds) = 0 /\ Len(cbs) = 0
      /\ TypeOK /\ add_pollfd(Listener, "server_event")
      /\ cpc' = cpc /\ data' = data /\ backlog' = backlog /\ conn' = conn /\ i' = i
      /\ backlog = <<>> /\ \A fd \in DOMAIN conn : conn[fd] = None
  BY SerialRepeaterAssumption DEF Listener, Fds, IInv, StartInv, Start, clients
<1>2. CASE spc' = "abort" /\ UNCHANGED table
  BY <1>1, <1>2 DEF IInv, TypeOK, StartInv, SlotInv, ConnInv, PassInv, Serving, table
<1>3. CASE ~(spc' = "abort" /\ UNCHANGED table)
  <2>1. /\ pfds' \in Seq(Pollfds) /\ cbs' \in Seq({"server_event", "client_event"})
        /\ Len(cbs') = Len(pfds') /\ cbsBytes' \in Nat /\ corrupt' \in BOOLEAN
        /\ spc' = "poll"
    BY <1>1, <1>3, AddFillsOneSlot
  <2>2. PICK k \in 1..Len(pfds') :
          /\ pfds'[k] = [fd |-> Listener, revents |-> {}] /\ cbs'[k] = "server_event"
          /\ \A j \in 1..Len(pfds') : j # k => j \in 1..Len(pfds)
    BY <1>1, <1>3, AddFillsOneSlot
  <2>3. \A j \in 1..Len(pfds') : j = k /\ pfds'[j].fd = Listener /\ cbs'[j] = "server_event"
    BY <1>1, <2>2
  <2>4. TypeOK'
    BY <1>1, <2>1 DEF TypeOK
  <2>5. SlotInv'
    BY <1>1, <2>1, <2>3 DEF SlotInv, Listener
  <2>6. ConnInv' /\ PassInv' /\ StartInv'
    BY <1>1, <2>1 DEF IInv, ConnInv, PassInv, StartInv
  <2> QED
    BY <2>4, <2>5, <2>6 DEF IInv
<1> QED
  BY <1>2, <1>3

(* poll() reports what is there, and no event on a free slot.              *)
LEMMA PollStep ==
  ASSUME IInv, Poll, UNCHANGED CbSize
  PROVE  IInv'
<1> DEFINE new(k) == [pfds[k] EXCEPT !.revents = Ready(pfds[k].fd)]
<1>1. /\ pfds' = [k \in 1..Len(pfds) |-> new(k)] /\ spc' = "handle" /\ i' = 1 /\ spc = "poll"
      /\ UNCHANGED <<cpc, data, backlog, conn, cbs, cbsBytes, corrupt, CbSize>>
  BY DEF Poll, clients, npfds
<1>2. pfds \in Seq(Pollfds) /\ Len(pfds) \in Nat
  BY DEF IInv, TypeOK
<1>3. ASSUME NEW k \in 1..Len(pfds)
      PROVE  /\ new(k) \in Pollfds /\ new(k).fd = pfds[k].fd /\ new(k).revents = Ready(pfds[k].fd)
             /\ pfds[k].fd \in Fds \cup {-1}
  <2>1. pfds[k] \in Pollfds
    BY <1>2
  <2>2. Ready(pfds[k].fd) \in Events
    BY DEF Ready, Events
  <2> QED
    BY <2>1, <2>2 DEF Pollfds
<1> HIDE DEF new
<1>4. /\ pfds' \in Seq(Pollfds) /\ Len(pfds') = Len(pfds)
      /\ \A k \in 1..Len(pfds) : /\ pfds'[k].fd = pfds[k].fd
                                 /\ pfds'[k].revents = Ready(pfds[k].fd)
                                 /\ pfds[k].fd \in Fds \cup {-1}
  BY <1>1, <1>2, <1>3
<1>5. TypeOK' /\ StartInv' /\ ConnInv'
  BY <1>1, <1>4 DEF IInv, TypeOK, StartInv, ConnInv
<1>6. SlotInv'
  <2>1. Serving /\ SlotInv
    BY <1>1 DEF IInv, Serving
  <2>2. \A fd \in DOMAIN conn : conn[fd] # None => \E k \in 1..Len(pfds') : pfds'[k].fd = fd
    BY <1>4, <2>1 DEF SlotInv
  <2>3. /\ \A k \in 1..Len(pfds') : pfds'[k].fd = Listener <=> cbs[k] = "server_event"
        /\ \A j, k \in 1..Len(pfds') : pfds'[j].fd = pfds'[k].fd /\ pfds'[j].fd >= 0 => j = k
        /\ \A k \in 1..Len(pfds') : pfds'[k].fd > Listener => conn[pfds'[k].fd] # None
    BY <1>4, <2>1 DEF SlotInv
  <2> QED
    BY <1>1, <1>4, <2>1, <2>2, <2>3 DEF SlotInv
<1>7. ASSUME NEW k \in 1..Len(pfds), pfds[k].fd >= 0, Ready(pfds[k].fd) # {}
      PROVE  Pending(k)'
  <2>1. CASE pfds[k].fd = Listener
    BY <1>1, <1>4, <1>7, <2>1 DEF Ready, Pending, Listener
  <2>2. CASE pfds[k].fd > Listener
    BY <1>1, <1>4, <1>7, <2>2 DEF Ready, Pending, Listener
  <2> QED
    BY <1>3, <1>7, <2>1, <2>2 DEF Listener, Fds
<1>8. PassInv'
  BY <1>1, <1>2, <1>4, <1>7 DEF PassInv
<1> QED
  BY <1>5, <1>6, <1>8 DEF IInv

(* The loop goes on, or the pass is over.                                  *)
LEMMA LoopStep ==
  ASSUME IInv, Skip \/ EndOfPass, UNCHANGED CbSize
  PROVE  IInv'
<1>1. /\ UNCHANGED <<cpc, data, backlog, conn, pfds, cbs, cbsBytes, corrupt>>
      /\ i \in Nat /\ spc = "handle"
      /\ (spc' = spc /\ i' = i + 1) \/ (spc' = "poll" /\ i' = i)
  BY DEF IInv, TypeOK, Skip, EndOfPass, Handling, clients, table
<1>2. TypeOK' /\ StartInv' /\ ConnInv'
  BY <1>1 DEF IInv, TypeOK, StartInv, ConnInv
<1>3. SlotInv'
  BY <1>1 DEF IInv, SlotInv, Serving
<1>4. PassInv'
  BY <1>1 DEF IInv, TypeOK, PassInv, Pending
<1> QED
  BY <1>2, <1>3, <1>4 DEF IInv

(* What the rest of a pass looks at does not change by a step that leaves  *)
(* the fds of its slots, their connections and those clients' data alone.  *)
LEMMA PassGoesOn ==
  ASSUME IInv, spc = "handle", i' = i + 1, UNCHANGED cpc,
         \A k \in 1..Len(pfds') :
           k >= i + 1 /\ pfds'[k].fd >= 0 /\ pfds'[k].revents # {} =>
             /\ k \in 1..Len(pfds) /\ pfds'[k] = pfds[k]
             /\ pfds[k].fd = Listener => backlog' = backlog
             /\ pfds[k].fd > Listener => /\ conn'[pfds[k].fd] = conn[pfds[k].fd]
                                         /\ data'[conn[pfds[k].fd]] = data[conn[pfds[k].fd]]
  PROVE  PassInv'
<1>1. i \in Nat /\ i >= 1
  BY DEF IInv, TypeOK, PassInv
<1>2. ASSUME NEW k \in 1..Len(pfds'), k >= i + 1, pfds'[k].fd >= 0, pfds'[k].revents # {}
      PROVE  Pending(k)'
  <2>1. k \in 1..Len(pfds) /\ pfds'[k] = pfds[k] /\ k >= i
    BY <1>1, <1>2
  <2>2. Pending(k)
    BY <1>2, <2>1 DEF IInv, PassInv
  <2> QED
    BY <1>2, <2>1, <2>2 DEF Pending
<1> QED
  BY <1>1, <1>2 DEF PassInv

(* client_event() reads its own client's data, and a hangup frees its slot *)
(* and its connection together.                                            *)
LEMMA ClientEventStep ==
  ASSUME IInv, client_event, UNCHANGED CbSize
  PROVE  IInv'
<1> DEFINE fd == pfds[i].fd
           c == conn[fd]
<1>1. /\ spc = "handle" /\ i \in 1..Len(pfds) /\ Len(pfds) \in Nat /\ Serving
      /\ pfds[i] \in Pollfds /\ fd >= 0 /\ cbs[i] = "client_event"
      /\ UNCHANGED <<cpc, backlog, cbs, cbsBytes, corrupt>> /\ i' = i + 1
  BY DEF IInv, TypeOK, PassInv, client_event, Active, Handling, npfds, Serving
<1>2. fd \in DOMAIN conn /\ fd > Listener /\ c \in Clients /\ c # None
  <2>1. fd # Listener /\ fd \in Fds
    BY <1>1 DEF IInv, SlotInv, Pollfds, Fds
  <2> QED
    BY <1>1, <2>1 DEF IInv, SlotInv, TypeOK, Fds, Listener
<1>3. data' \in [Clients -> 0..MaxData] /\ \A d \in Clients : d # c => data'[d] = data[d]
  <2>1. data' = data \/ (data[c] > 0 /\ data' = [data EXCEPT ![c] = data[c] - 1])
    BY DEF client_event
  <2>2. data \in [Clients -> 0..MaxData] /\ MaxData \in Nat
    BY SerialRepeaterAssumption DEF IInv, TypeOK
  <2> QED
    BY <1>2, <2>1, <2>2
<1>4. ASSUME NEW k \in 1..Len(pfds), k # i, pfds[k].fd > Listener
      PROVE  /\ pfds[k].fd # fd /\ pfds[k].fd \in DOMAIN conn
             /\ conn[pfds[k].fd] \in Clients /\ conn[pfds[k].fd] # c
  <2>1. pfds[k].fd \in DOMAIN conn
    <3>1. pfds[k] \in Pollfds /\ DOMAIN conn = Fds \ {Listener}
      BY <1>4 DEF IInv, TypeOK
    <3> QED
      BY <1>4, <3>1 DEF Pollfds, Fds, Listener
  <2>2. pfds[k].fd # fd /\ conn[pfds[k].fd] # None
    BY <1>1, <1>4 DEF IInv, SlotInv, Listener
  <2> QED
    BY <1>2, <2>1, <2>2 DEF IInv, ConnInv, TypeOK
<1>5. CASE UNCHANGED <<pfds, spc, conn>>
  <2>1. TypeOK' /\ StartInv' /\ ConnInv'
    BY <1>1, <1>3, <1>5 DEF IInv, TypeOK, StartInv, ConnInv
  <2>2. SlotInv'
    BY <1>1, <1>5 DEF IInv, SlotInv, Serving
  <2>3. PassInv'
    BY <1>1, <1>3, <1>4, <1>5, PassGoesOn
  <2> QED
    BY <2>1, <2>2, <2>3 DEF IInv
<1>6. CASE rm_pollfd(fd) /\ conn' = [conn EXCEPT ![fd] = None]
  <2>1. pfds' = [pfds EXCEPT ![i].fd = -1] /\ spc' = spc
    BY <1>1, <1>6, RmFreesItsSlot
  <2>2. /\ pfds' \in Seq(Pollfds) /\ Len(pfds') = Len(pfds) /\ pfds'[i].fd = -1
        /\ \A k \in 1..Len(pfds) : k # i => pfds'[k] = pfds[k]
    <3>1. [pfds[i] EXCEPT !.fd = -1] \in Pollfds
      BY <1>1 DEF Pollfds
    <3> QED
      BY <1>1, <2>1, <3>1 DEF IInv, TypeOK
  <2>3. /\ conn' \in [Fds \ {Listener} -> Clients \cup {None}] /\ conn'[fd] = None
        /\ \A gd \in DOMAIN conn : gd # fd => conn'[gd] = conn[gd]
        /\ DOMAIN conn' = DOMAIN conn
    BY <1>2, <1>6 DEF IInv, TypeOK
  <2>4. TypeOK' /\ StartInv'
    BY <1>1, <1>3, <2>1, <2>2, <2>3 DEF IInv, TypeOK, StartInv
  <2>5. ConnInv'
    <3>1. \A gd \in DOMAIN conn' : gd \in DOMAIN conn /\ (conn'[gd] # None => conn'[gd] = conn[gd])
      BY <2>3
    <3>2. \A k \in 1..Len(backlog) : backlog[k] \in Clients /\ backlog[k] # None
      BY SerialRepeaterAssumption DEF IInv, TypeOK
    <3>3. \A d \in Clients : d # None
      BY SerialRepeaterAssumption
    <3>4. ConnInv /\ cpc' = cpc /\ backlog' = backlog
      BY <1>1 DEF IInv
    <3> QED
      BY <3>1, <3>2, <3>3, <3>4 DEF ConnInv
  <2>6. SlotInv'
    <3>1. \A k \in 1..Len(pfds') : pfds'[k].fd = Listener <=> cbs'[k] = "server_event"
      BY <1>1, <2>2 DEF IInv, SlotInv, Listener
    <3>2. \A j, k \in 1..Len(pfds') : pfds'[j].fd = pfds'[k].fd /\ pfds'[j].fd >= 0 => j = k
      BY <1>1, <2>2 DEF IInv, SlotInv
    <3>3. \A k \in 1..Len(pfds') : pfds'[k].fd > Listener => conn'[pfds'[k].fd] # None
      <4> SUFFICES ASSUME NEW k \in 1..Len(pfds'), pfds'[k].fd > Listener
                   PROVE  conn'[pfds'[k].fd] # None
        OBVIOUS
      <4>1. k # i /\ k \in 1..Len(pfds) /\ pfds'[k] = pfds[k]
        BY <2>2 DEF Listener
      <4> QED
        BY <1>1, <1>4, <2>3, <4>1 DEF IInv, SlotInv
    <3>4. \A gd \in DOMAIN conn' : conn'[gd] # None => \E k \in 1..Len(pfds') : pfds'[k].fd = gd
      <4> SUFFICES ASSUME NEW gd \in DOMAIN conn, gd # fd, conn[gd] # None
                   PROVE  \E k \in 1..Len(pfds') : pfds'[k].fd = gd
        BY <2>3
      <4>1. PICK k \in 1..Len(pfds) : pfds[k].fd = gd
        BY <1>1 DEF IInv, SlotInv
      <4> QED
        BY <2>2, <4>1
    <3> QED
      BY <1>1, <2>2, <3>1, <3>2, <3>3, <3>4 DEF IInv, SlotInv
  <2>7. PassInv'
    <3>1. ASSUME NEW k \in 1..Len(pfds'), k >= i + 1, pfds'[k].fd >= 0
          PROVE  /\ k \in 1..Len(pfds) /\ pfds'[k] = pfds[k] /\ k # i
                 /\ pfds[k].fd > Listener => /\ conn'[pfds[k].fd] = conn[pfds[k].fd]
                                             /\ data'[conn[pfds[k].fd]] = data[conn[pfds[k].fd]]
      <4>1. k # i /\ k \in 1..Len(pfds) /\ pfds'[k] = pfds[k]
        BY <1>1, <2>2, <3>1
      <4> QED
        BY <1>3, <1>4, <2>3, <4>1
    <3> QED
      BY <1>1, <3>1, PassGoesOn
  <2> QED
    BY <2>4, <2>5, <2>6, <2>7 DEF IInv
<1> QED
  BY <1>5, <1>6 DEF client_event

(* accept() gives a descriptor that no slot has, to a client that has none.*)
LEMMA ServerEventStep ==
  ASSUME IInv, server_event, UNCHANGED CbSize
  PROVE  IInv'
<1>1. /\ spc = "handle" /\ i \in 1..Len(pfds) /\ Len(pfds) \in Nat /\ Serving
      /\ pfds[i].fd = Listener /\ i' = i + 1 /\ UNCHANGED <<cpc, data>>
      /\ conn \in [Fds \ {Listener} -> Clients \cup {None}]
  <2>1. /\ spc = "handle" /\ i \in 1..Len(pfds) /\ Len(pfds) \in Nat /\ cbs[i] = "server_event"
        /\ i' = i + 1 /\ UNCHANGED <<cpc, data>> /\ Serving
    BY DEF IInv, TypeOK, PassInv, server_event, Active, Handling, npfds, clients, Serving
  <2> QED
    BY <2>1 DEF IInv, SlotInv, TypeOK
<1>2. CASE spc' = "fatal" /\ UNCHANGED <<backlog, conn, table>>
  <2>1. TypeOK' /\ StartInv' /\ ConnInv'
    BY <1>1, <1>2 DEF IInv, TypeOK, StartInv, ConnInv, table
  <2>2. SlotInv' /\ PassInv'
    BY <1>1, <1>2 DEF IInv, SlotInv, PassInv, Serving, table
  <2> QED
    BY <2>1, <2>2 DEF IInv
<1>3. ASSUME NEW client \in DOMAIN conn, conn[client] = None, backlog # <<>>, backlog' = Tail(backlog),
             conn' = [conn EXCEPT ![client] = Head(backlog)], add_pollfd(client, "client_event")
      PROVE  IInv'
  <2>1. client \in Fds /\ client # Listener /\ client > Listener /\ client >= 0
    BY <1>1 DEF Fds, Listener
  <2>2. /\ Head(backlog) \in Clients /\ Head(backlog) = backlog[1] /\ Head(backlog) # None
        /\ backlog' \in Seq(Clients) /\ Len(backlog) \in Nat /\ Len(backlog) >= 1
        /\ Len(backlog') = Len(backlog) - 1
        /\ \A k \in 1..Len(backlog') : k + 1 \in 1..Len(backlog) /\ backlog'[k] = backlog[k + 1]
    <3>1. backlog \in Seq(Clients) /\ backlog # <<>>
      BY <1>3 DEF IInv, TypeOK
    <3> QED
      BY <1>3, <3>1, SerialRepeaterAssumption
  <2>3. /\ conn' \in [Fds \ {Listener} -> Clients \cup {None}] /\ conn'[client] = Head(backlog)
        /\ DOMAIN conn' = DOMAIN conn
        /\ \A fd \in DOMAIN conn : fd # client => conn'[fd] = conn[fd]
    BY <1>1, <1>3, <2>2
  <2>4. ConnInv'
    <3>1. 1 \in 1..Len(backlog) /\ \A fd \in DOMAIN conn : conn[fd] # Head(backlog)
      BY <2>2 DEF IInv, ConnInv
    <3>2. \A fd, gd \in DOMAIN conn' : conn'[fd] = conn'[gd] /\ conn'[fd] # None => fd = gd
      BY <2>3, <3>1 DEF IInv, ConnInv
    <3>3. \A k \in 1..Len(backlog') : backlog'[k] # Head(backlog)
      BY <2>2, <3>1 DEF IInv, ConnInv
    <3>4. \A k \in 1..Len(backlog') : \A fd \in DOMAIN conn' : conn'[fd] # backlog'[k]
      BY <2>2, <2>3, <3>3 DEF IInv, ConnInv
    <3>5. \A j, k \in 1..Len(backlog') : backlog'[j] = backlog'[k] => j = k
      BY <2>2, SMTT(30) DEF IInv, ConnInv
    <3>6. \A c \in Clients : cpc[c] = "connect" =>
             /\ \A fd \in DOMAIN conn' : conn'[fd] # c
             /\ \A k \in 1..Len(backlog') : backlog'[k] # c
      BY <2>2, <2>3, <3>1 DEF IInv, ConnInv
    <3> QED
      BY <1>1, <3>2, <3>4, <3>5, <3>6 DEF ConnInv
  <2>5. CASE spc' = "abort" /\ UNCHANGED table
    <3>1. TypeOK' /\ StartInv'
      BY <1>1, <2>2, <2>3, <2>5 DEF IInv, TypeOK, StartInv, table
    <3>2. SlotInv' /\ PassInv'
      BY <2>5 DEF IInv, SlotInv, PassInv, Serving, table
    <3> QED
      BY <2>4, <3>1, <3>2 DEF IInv
  <2>6. CASE ~(spc' = "abort" /\ UNCHANGED table)
    <3>1. Len(cbs) = Len(pfds) /\ TypeOK
      BY DEF IInv, SlotInv
    <3>2. /\ pfds' \in Seq(Pollfds) /\ cbs' \in Seq({"server_event", "client_event"})
          /\ Len(cbs') = Len(pfds') /\ cbsBytes' \in Nat /\ corrupt' \in BOOLEAN
          /\ spc' = spc
      BY <1>1, <1>3, <2>1, <2>6, <3>1, AddFillsOneSlot
    <3>3. PICK k \in 1..Len(pfds') :
            /\ k > Len(pfds) \/ pfds[k].fd < 0
            /\ pfds'[k] = [fd |-> client, revents |-> {}] /\ cbs'[k] = "client_event"
            /\ \A j \in 1..Len(pfds') : j # k => j \in 1..Len(pfds) /\ pfds'[j] = pfds[j] /\ cbs'[j] = cbs[j]
            /\ \A j \in 1..Len(pfds) : j \in 1..Len(pfds')
      BY <1>3, <2>1, <2>6, <3>1, AddFillsOneSlot
    <3>4. pfds'[k].fd = client /\ pfds'[k].revents = {}
      BY <3>3
    <3>5. \A j \in 1..Len(pfds) : pfds[j].fd # client
      BY <1>1, <1>3, <2>1 DEF IInv, SlotInv
    <3>6. TypeOK' /\ StartInv'
      BY <1>1, <2>2, <2>3, <3>2 DEF IInv, TypeOK, StartInv
    <3>7. SlotInv'
      <4>1. \A j \in 1..Len(pfds') : pfds'[j].fd = Listener <=> cbs'[j] = "server_event"
        BY <1>1, <2>1, <3>3, <3>4 DEF IInv, SlotInv
      <4>2. \A j, m \in 1..Len(pfds') : pfds'[j].fd = pfds'[m].fd /\ pfds'[j].fd >= 0 => j = m
        BY <1>1, <3>3, <3>4, <3>5 DEF IInv, SlotInv
      <4>3. ASSUME NEW j \in 1..Len(pfds'), pfds'[j].fd > Listener
            PROVE  conn'[pfds'[j].fd] # None
        <5>1. CASE j = k
          BY <2>2, <2>3, <3>4, <5>1
        <5>2. CASE j # k
          <6>1. j \in 1..Len(pfds) /\ pfds'[j] = pfds[j] /\ pfds[j].fd # client /\ conn[pfds[j].fd] # None
            BY <1>1, <3>3, <3>5, <4>3, <5>2 DEF IInv, SlotInv
          <6>2. pfds[j].fd \in DOMAIN conn
            <7>1. pfds[j] \in Pollfds /\ DOMAIN conn = Fds \ {Listener}
              BY <1>1, <6>1 DEF IInv, TypeOK
            <7> QED
              BY <4>3, <6>1, <7>1 DEF Pollfds, Fds, Listener
          <6> QED
            BY <2>3, <6>1, <6>2
        <5> QED
          BY <5>1, <5>2
      <4>4. ASSUME NEW fd \in DOMAIN conn', conn'[fd] # None
            PROVE  \E j \in 1..Len(pfds') : pfds'[j].fd = fd
        <5>1. CASE fd = client
          BY <3>4, <5>1
        <5>2. CASE fd # client
          <6>1. PICK j \in 1..Len(pfds) : pfds[j].fd = fd
            BY <1>1, <2>3, <4>4, <5>2 DEF IInv, SlotInv
          <6>2. fd \in Int /\ fd >= 0
            BY <1>1, <2>3, <4>4 DEF Fds
          <6>3. j # k
            BY <1>1, <3>3, <6>1, <6>2
          <6>4. j \in 1..Len(pfds') /\ pfds'[j] = pfds[j]
            BY <3>3, <6>1, <6>3
          <6> QED
            BY <6>1, <6>4
        <5> QED
          BY <5>1, <5>2
      <4> QED
        BY <3>2, <4>1, <4>2, <4>3, <4>4 DEF SlotInv
    <3>8. PassInv'
      <4>1. ASSUME NEW j \in 1..Len(pfds'), j >= i + 1, pfds'[j].fd >= 0, pfds'[j].revents # {}
            PROVE  /\ j \in 1..Len(pfds) /\ pfds'[j] = pfds[j] /\ pfds[j].fd # Listener
                   /\ pfds[j].fd > Listener => /\ conn'[pfds[j].fd] = conn[pfds[j].fd]
                                               /\ data'[conn[pfds[j].fd]] = data[conn[pfds[j].fd]]
        <5>1. j \in 1..Len(pfds) /\ pfds'[j] = pfds[j] /\ j # i
          BY <1>1, <3>3, <3>4, <4>1
        <5>2. pfds[j].fd # Listener /\ pfds[j].fd # client
          BY <1>1, <3>5, <4>1, <5>1 DEF IInv, SlotInv
        <5>3. pfds[j].fd \in DOMAIN conn
          <6>1. pfds[j] \in Pollfds /\ DOMAIN conn = Fds \ {Listener}
            BY <1>1, <5>1 DEF IInv, TypeOK
          <6> QED
            BY <4>1, <5>1, <5>2, <6>1 DEF Pollfds, Fds
        <5> QED
          BY <1>1, <2>3, <5>1, <5>2, <5>3
      <4> QED
        BY <1>1, <4>1, PassGoesOn
    <3> QED
      BY <2>4, <3>6, <3>7, <3>8 DEF IInv
  <2> QED
    BY <2>5, <2>6
<1> QED
  BY <1>2, <1>3 DEF server_event

-----------------------------------------------------------------------------
(* No step of the clients or of the server breaks the invariant.           *)
LEMMA NextInv ==
  ASSUME IInv, [Next]_vars
  PROVE  IInv'
<1>1. CASE UNCHANGED vars
  BY <1>1 DEF IInv, TypeOK, StartInv, SlotInv, ConnInv, PassInv, Pending, Serving, vars, clients, table
<1>2. CASE Next
  <2>1. UNCHANGED CbSize
    BY <1>2 DEF Next
  <2>2. ASSUME NEW c \in Clients, Connect(c) \/ Send(c) \/ Close(c)
        PROVE  IInv'
    BY <2>1, <2>2, ClientStep
  <2>3. CASE Start
    BY <2>1, <2>3, StartStep
  <2>4. CASE Poll
    BY <2>1, <2>4, PollStep
  <2>5. CASE Skip \/ EndOfPass
    BY <2>1, <2>5, LoopStep
  <2>6. CASE client_event
    BY <2>1, <2>6, ClientEventStep
  <2>7. CASE server_event
    BY <2>1, <2>7, ServerEventStep
  <2>8. CASE Quiet
    BY <1>1, <2>8 DEF Quiet
  <2> QED
    BY <1>2, <2>2, <2>3, <2>4, <2>5, <2>6, <2>7, <2>8 DEF Next, Server
<1> QED
  BY <1>1, <1>2

(* The tables, the connections and the rest of a pass stay in step.        *)
THEOREM InvariantHolds == Spec => []IInv
<1> QED
  BY InitInv, NextInv, PTL DEF Spec

(* Every variable has its type.                                            *)
THEOREM TypeCorrect == Spec => []TypeOK
<1>1. IInv => TypeOK
  BY DEF IInv
<1> QED
  BY <1>1, InvariantHolds, PTL

(* The open connections and the used slots are the same descriptors.       *)
THEOREM SlotsAreConnectionsHolds == Spec => []SlotsAreConnections
<1>1. ASSUME IInv
      PROVE  SlotsAreConnections
  <2> SUFFICES ASSUME Serving
               PROVE  SlotsAreConnections
    BY DEF SlotsAreConnections, Serving
  <2>1. /\ DOMAIN pfds = 1..Len(pfds) /\ DOMAIN conn = Fds \ {Listener}
        /\ Len(cbs) = Len(pfds) /\ DOMAIN cbs = 1..Len(pfds)
    BY <1>1 DEF IInv, TypeOK, SlotInv
  <2>2. \A k \in DOMAIN pfds : pfds[k].fd \in Fds \cup {-1}
    <3>1. \A k \in DOMAIN pfds : pfds[k] \in Pollfds
      BY <1>1, <2>1 DEF IInv, TypeOK
    <3> QED
      BY <3>1 DEF Pollfds
  <2>3. \A j, k \in DOMAIN pfds : pfds[j].fd = pfds[k].fd /\ pfds[j].fd >= 0 => j = k
    BY <1>1, <2>1 DEF IInv, SlotInv
  <2>4. ASSUME NEW k \in DOMAIN pfds, pfds[k].fd \notin {-1, Listener}
        PROVE  pfds[k].fd \in DOMAIN conn /\ conn[pfds[k].fd] # None
    <3>1. pfds[k].fd \in DOMAIN conn /\ pfds[k].fd > Listener
      BY <2>1, <2>2, <2>4 DEF Fds, Listener
    <3> QED
      BY <1>1, <2>1, <3>1 DEF IInv, SlotInv
  <2>5. ASSUME NEW fd \in DOMAIN conn, conn[fd] # None
        PROVE  fd \notin {-1, Listener} /\ \E k \in DOMAIN pfds : pfds[k].fd = fd
    <3>1. \E k \in 1..Len(pfds) : pfds[k].fd = fd
      BY <1>1, <2>5 DEF IInv, SlotInv
    <3> QED
      BY <2>1, <3>1 DEF Fds, Listener
  <2>6. ASSUME NEW k \in DOMAIN pfds, pfds[k].fd > Listener
        PROVE  cbs[k] = "client_event"
    <3>1. cbs[k] \in {"server_event", "client_event"}
      BY <1>1, <2>1 DEF IInv, TypeOK
    <3>2. cbs[k] # "server_event"
      BY <1>1, <2>1, <2>6 DEF IInv, SlotInv, Listener
    <3> QED
      BY <3>1, <3>2
  <2>7. {pfds[k].fd : k \in DOMAIN pfds} \ {-1, Listener} = {fd \in DOMAIN conn : conn[fd] # None}
    BY <2>4, <2>5
  <2> QED
    BY <2>3, <2>6, <2>7 DEF SlotsAreConnections
<1> QED
  BY <1>1, InvariantHolds, PTL

(* accept() and read() are called only for what is there.                  *)
THEOREM CallsDoNotBlockHolds == Spec => []CallsDoNotBlock
<1>1. ASSUME IInv
      PROVE  CallsDoNotBlock
  <2> SUFFICES ASSUME Active
               PROVE  IF pfds[i].fd = Listener THEN backlog # <<>>
                      ELSE data[conn[pfds[i].fd]] > 0 \/ cpc[conn[pfds[i].fd]] = "closed"
    BY DEF CallsDoNotBlock
  <2>1. spc = "handle" /\ i \in 1..Len(pfds) /\ pfds[i].fd >= 0 /\ pfds[i].revents # {}
    BY <1>1 DEF IInv, TypeOK, PassInv, Active, Handling, npfds
  <2>2. pfds[i] \in Pollfds
    BY <1>1, <2>1 DEF IInv, TypeOK
  <2>3. Pending(i)
    BY <1>1, <2>1 DEF IInv, PassInv
  <2> QED
    BY <2>1, <2>2, <2>3 DEF Pending, Pollfds, Fds, Listener
<1> QED
  BY <1>1, InvariantHolds, PTL

(* malloc() gives eight bytes a slot at least what they were asked for.    *)
LEMMA UsableIsEnough ==
  ASSUME NEW n \in Nat
  PROVE  Usable(8 * n) >= 8 * n
<1> QED
  BY DEF Usable

(* In a 32 bit build the element size of the first table is right for the  *)
(* second one too.                                                         *)
LEMMA SizeStep ==
  ASSUME IInv, SizeInv, [Next]_vars
  PROVE  SizeInv'
<1> SUFFICES ASSUME CbSize' = 8
             PROVE  cbsBytes' = 8 * Len(cbs') /\ ~corrupt' /\ spc' # "abort"
  BY DEF SizeInv
<1>1. CbSize = 8 /\ cbsBytes = 8 * Len(cbs) /\ ~corrupt /\ spc # "abort"
  BY DEF SizeInv, Next, vars
<1>2. ASSUME NEW fd, NEW cb, add_pollfd(fd, cb)
      PROVE  cbsBytes' = 8 * Len(cbs') /\ ~corrupt' /\ spc' # "abort"
  <2>1. /\ FreeSlot \in 1..(Len(pfds) + 1) /\ Len(pfds) \in Nat /\ Len(cbs) = Len(pfds)
        /\ \E S : cbs \in Seq(S)
    BY FreeSlotIsFree DEF IInv, TypeOK, SlotInv
  <2>2. CASE FreeSlot = Len(pfds) + 1
    <3>1. ~((Len(pfds) + 1) * 8 > Usable((Len(pfds) + 1) * 8))
      <4>1. Len(pfds) + 1 \in Nat
        BY <2>1
      <4> QED
        BY <4>1, UsableIsEnough DEF Usable
    <3>2. cbs' = Append(cbs, cb) /\ cbsBytes' = (Len(pfds) + 1) * 8
      BY <1>1, <1>2, <2>2 DEF add_pollfd, npfds, PollfdSize
    <3>3. (corrupt' = (corrupt \/ (Len(pfds) + 1) * 8 > Usable((Len(pfds) + 1) * 8))) /\ spc' # "abort"
      BY <1>1, <1>2, <2>2 DEF add_pollfd, npfds, PollfdSize
    <3>4. ~corrupt'
      BY <1>1, <3>1, <3>3, Zenon
    <3>5. cbsBytes' = 8 * Len(cbs')
      BY <2>1, <3>2
    <3> QED
      BY <3>3, <3>4, <3>5
  <2>3. CASE FreeSlot # Len(pfds) + 1
    <3>1. FreeSlot \in 1..Len(pfds) /\ ~(FreeSlot * 8 > Usable(cbsBytes))
      <4>1. Len(pfds) \in Nat /\ FreeSlot \in 1..Len(pfds) /\ cbsBytes = 8 * Len(pfds)
        BY <1>1, <2>1, <2>3
      <4> QED
        BY <4>1, UsableIsEnough DEF Usable
    <3>2. cbs' = [cbs EXCEPT ![FreeSlot] = cb] /\ cbsBytes' = cbsBytes
      BY <1>1, <1>2, <2>3 DEF add_pollfd, npfds
    <3>3. (corrupt' = (corrupt \/ FreeSlot * 8 > Usable(cbsBytes))) /\ spc' # "abort"
      BY <1>1, <1>2, <2>3 DEF add_pollfd, npfds
    <3>4. ~corrupt'
      BY <1>1, <3>1, <3>3, Zenon
    <3>5. Len(cbs') = Len(cbs)
      BY <2>1, <3>1, <3>2
    <3> QED
      BY <1>1, <3>2, <3>3, <3>4, <3>5
  <2> QED
    BY <2>2, <2>3
<1> QED
  BY <1>1, <1>2
     DEF Next, vars, table, clients, Connect, Send, Close, Start, Server, Poll, Skip, EndOfPass, client_event,
         server_event, rm_pollfd, Quiet

(* The memory of the callbacks is large enough in a 32 bit build; that it  *)
(* is not in a 64 bit one is what the run Serial64Memory shows.            *)
THEOREM CallbacksFitNarrow == Spec => [](CbSize = 8 => CallbacksFit)
<1>1. Init => SizeInv
  BY DEF Init, SizeInv
<1>2. SizeInv => (CbSize = 8 => CallbacksFit)
  BY DEF SizeInv, CallbacksFit
<1> QED
  BY <1>1, <1>2, SizeStep, InvariantHolds, PTL DEF Spec
=============================================================================

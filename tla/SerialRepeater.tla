--------------------------- MODULE SerialRepeater ---------------------------
(***************************************************************************)
(* serial-repeater.c: a poll() loop over a table of slots.  A slot whose   *)
(* fd is -1 is free and is used again; a full table grows by one.  The     *)
(* callbacks of the slots are in a second table that add_pollfd() grows    *)
(* with the element size of the first one.                                 *)
(***************************************************************************)
EXTENDS Integers, SequencesExt

CONSTANTS
  Clients,   (* processes that run serial-client.py                        *)
  MaxFds,    (* descriptors the server may have besides the listener       *)
  Backlog,   (* connections listen() lets wait                             *)
  MaxData,   (* reads of 1024 bytes that fit into a socket's buffer        *)
  CbSizes,   (* sizeof(struct cbs): 8 in a 32 bit build, 16 in a 64 bit one*)
  None       (* no client                                                  *)

PollfdSize == 8

ASSUME SerialRepeaterAssumption ==
  /\ MaxFds \in Nat /\ Backlog \in Nat /\ MaxData \in Nat \ {0}
  /\ CbSizes \subseteq {8, 16}
  /\ None \notin Clients

VARIABLES
  cpc,      (* what each client process has done                           *)
  data,     (* reads it takes to empty each client's connection            *)
  backlog,  (* connected, not accepted                                     *)
  conn,     (* what each descriptor of the server is connected to          *)
  pfds,     (* the slots: fd and revents                                   *)
  cbs,      (* their callbacks                                             *)
  cbsBytes, (* what cbs was last allocated with                            *)
  CbSize,   (* sizeof(struct cbs) in the build that runs                   *)
  corrupt,  (* a callback was written behind the memory of cbs             *)
  spc,      (* where the server is                                         *)
  i         (* main()'s index                                              *)

clients == <<cpc, data>>
table   == <<pfds, cbs, cbsBytes, corrupt>>
vars    == <<clients, backlog, conn, table, spc, i, CbSize>>

Listener == 0
Fds      == 0..MaxFds
Events   == SUBSET {"POLLIN", "POLLHUP"}
Pollfds  == [fd : Fds \cup {-1}, revents : Events]
npfds    == Len(pfds)

TypeOK ==
  /\ cpc \in [Clients -> {"connect", "open", "closed"}]
  /\ data \in [Clients -> 0..MaxData]
  /\ backlog \in Seq(Clients)
  /\ conn \in [Fds \ {Listener} -> Clients \cup {None}]
  /\ pfds \in Seq(Pollfds) /\ cbs \in Seq({"server_event", "client_event"})
  /\ cbsBytes \in Nat /\ corrupt \in BOOLEAN /\ CbSize \in CbSizes
  /\ spc \in {"start", "poll", "handle", "fatal", "abort"} /\ i \in Nat

Init ==
  /\ cpc = [c \in Clients |-> "connect"] /\ data = [c \in Clients |-> 0] /\ backlog = <<>>
  /\ conn = [fd \in Fds \ {Listener} |-> None]
  /\ pfds = <<>> /\ cbs = <<>> /\ cbsBytes = 0 /\ corrupt = FALSE
  /\ spc = "start" /\ i = 0 /\ CbSize \in CbSizes

-----------------------------------------------------------------------------
(* serial-client.py: connects, says "Hi...", sends what is typed, quits.   *)

Connect(c) ==
  /\ cpc[c] = "connect" /\ spc \in {"poll", "handle"}
  /\ Len(backlog) <= Backlog
  /\ cpc' = [cpc EXCEPT ![c] = "open"]
  /\ backlog' = Append(backlog, c)
  /\ UNCHANGED <<data, conn, table, spc, i>>

Send(c) ==
  /\ cpc[c] = "open" /\ data[c] < MaxData
  /\ data' = [data EXCEPT ![c] = @ + 1]
  /\ UNCHANGED <<cpc, backlog, conn, table, spc, i>>

Close(c) ==
  /\ cpc[c] = "open"
  /\ cpc' = [cpc EXCEPT ![c] = "closed"]
  /\ UNCHANGED <<data, backlog, conn, table, spc, i>>

-----------------------------------------------------------------------------
(* What malloc() really gives for a request of n bytes (glibc, 64 bit). *)
Usable(n) == IF n <= 24 THEN 24 ELSE 16 * ((n + 7) \div 16) + 8

(* The first free slot of the table, or one past its end. *)
FreeSlot ==
  LET k == SelectInSeq(pfds, LAMBDA slot : slot.fd < 0) IN IF k = 0 THEN npfds + 1 ELSE k

(* Mutant: a new slot comes with what was in its memory.                   *)
add_pollfdDirty(fd, cb) ==
  LET k == FreeSlot IN
  /\ pfds' = IF k > npfds THEN Append(pfds, [fd |-> fd, revents |-> {"POLLIN"}])
             ELSE [pfds EXCEPT ![k].fd = fd]
  /\ cbs' = IF k > npfds THEN Append(cbs, cb) ELSE [cbs EXCEPT ![k] = cb]
  /\ cbsBytes' = 8 * Len(pfds')
  /\ spc' = IF spc = "start" THEN "poll" ELSE spc
  /\ UNCHANGED corrupt

(* Growing writes the new callback where the other table's element size    *)
(* says; with a damaged heap realloc() may end the process.                *)
add_pollfd(fd, cb) ==
  LET k == FreeSlot
      grown == k = npfds + 1
      bytes == IF grown THEN (npfds + 1) * PollfdSize ELSE cbsBytes IN
  \/ /\ pfds' = IF grown THEN Append(pfds, [fd |-> fd, revents |-> {}])
                ELSE [pfds EXCEPT ![k] = [fd |-> fd, revents |-> {}]]
     /\ cbs' = IF grown THEN Append(cbs, cb) ELSE [cbs EXCEPT ![k] = cb]
     /\ cbsBytes' = bytes
     /\ corrupt' = (corrupt \/ k * CbSize > Usable(bytes))
     /\ spc' = IF spc = "start" THEN "poll" ELSE spc
  \/ grown /\ corrupt /\ spc' = "abort" /\ UNCHANGED table

(* The slot that has this fd, 0 if there is none. *)
SlotOf(fd) == SelectInSeq(pfds, LAMBDA slot : slot.fd = fd)

(* rm_pollfd(): the slot keeps its revents, which nobody looks at. *)
rm_pollfd(fd) ==
  \/ SlotOf(fd) # 0 /\ pfds' = [pfds EXCEPT ![SlotOf(fd)].fd = -1] /\ UNCHANGED spc
  \/ SlotOf(fd) = 0 /\ spc' = "fatal" /\ UNCHANGED pfds

Start ==
  /\ spc = "start"
  /\ add_pollfd(Listener, "server_event")
  /\ UNCHANGED <<clients, backlog, conn, i>>

Ready(fd) ==
  IF fd < 0 THEN {}
  ELSE IF fd = Listener THEN IF backlog # <<>> THEN {"POLLIN"} ELSE {}
  ELSE IF cpc[conn[fd]] = "closed" THEN {"POLLIN", "POLLHUP"}
  ELSE IF data[conn[fd]] > 0 THEN {"POLLIN"} ELSE {}

Poll ==
  /\ spc = "poll"
  /\ pfds' = [k \in 1..npfds |-> [pfds[k] EXCEPT !.revents = Ready(pfds[k].fd)]]
  /\ \E k \in DOMAIN pfds' : pfds'[k].revents # {}
  /\ spc' = "handle" /\ i' = 1
  /\ UNCHANGED <<clients, backlog, conn, cbs, cbsBytes, corrupt>>

Handling == spc = "handle" /\ i <= npfds
Active   == Handling /\ pfds[i].fd >= 0 /\ pfds[i].revents # {}

(* The loop reads npfds again on every turn, a callback may have grown it. *)
Skip ==
  /\ Handling /\ ~Active
  /\ i' = i + 1
  /\ UNCHANGED <<clients, backlog, conn, table, spc>>

EndOfPass ==
  /\ spc = "handle" /\ i > npfds
  /\ spc' = "poll"
  /\ UNCHANGED <<clients, backlog, conn, table, i>>

(* Mutants: closed without rm_pollfd(); the hangup is not looked at after  *)
(* a read; only one slot is handled for each poll().                       *)
client_eventKeepsSlot ==
  /\ Active /\ cbs[i] = "client_event"
  /\ data' = [data EXCEPT ![conn[pfds[i].fd]] = IF @ > 0 THEN @ - 1 ELSE 0]
  /\ conn' = IF "POLLHUP" \in pfds[i].revents THEN [conn EXCEPT ![pfds[i].fd] = None] ELSE conn
  /\ i' = i + 1
  /\ UNCHANGED <<cpc, backlog, table, spc>>

client_eventElse ==
  /\ Active /\ cbs[i] = "client_event"
  /\ data' = [data EXCEPT ![conn[pfds[i].fd]] = IF @ > 0 THEN @ - 1 ELSE 0]
  /\ i' = i + 1
  /\ UNCHANGED <<cpc, backlog, conn, table, spc>>

client_eventBreak ==
  /\ Active /\ cbs[i] = "client_event"
  /\ LET fd == pfds[i].fd IN
       /\ data' = [data EXCEPT ![conn[fd]] = IF @ > 0 THEN @ - 1 ELSE 0]
       /\ IF "POLLHUP" \in pfds[i].revents
          THEN pfds' = [pfds EXCEPT ![i].fd = -1] /\ conn' = [conn EXCEPT ![fd] = None]
          ELSE UNCHANGED <<pfds, conn>>
  /\ spc' = "poll"
  /\ UNCHANGED <<cpc, backlog, cbs, cbsBytes, corrupt, i>>

(* One read(), which blocks when nothing came and the peer is still there; *)
(* after a hangup the rest of the data is closed away.                     *)
client_event ==
  /\ Active /\ cbs[i] = "client_event"
  /\ LET fd == pfds[i].fd
         c  == conn[fd] IN
       /\ "POLLIN" \in pfds[i].revents => data[c] > 0 \/ cpc[c] = "closed"
       /\ data' = IF "POLLIN" \in pfds[i].revents /\ data[c] > 0
                  THEN [data EXCEPT ![c] = @ - 1] ELSE data
       /\ IF "POLLHUP" \in pfds[i].revents
          THEN rm_pollfd(fd) /\ conn' = [conn EXCEPT ![fd] = None]
          ELSE UNCHANGED <<pfds, spc, conn>>
  /\ i' = i + 1
  /\ UNCHANGED <<cpc, backlog, cbs, cbsBytes, corrupt>>

(* accept() takes the lowest free descriptor and blocks without a client;  *)
(* the server gives up when there is no descriptor left.                   *)
server_event ==
  /\ Active /\ cbs[i] = "server_event"
  /\ LET free == {fd \in DOMAIN conn : conn[fd] = None} IN
       \/ /\ free = {} /\ spc' = "fatal"
          /\ UNCHANGED <<backlog, conn, table>>
       \/ \E client \in free :
            /\ \A fd \in free : client <= fd
            /\ backlog # <<>> /\ backlog' = Tail(backlog)
            /\ conn' = [conn EXCEPT ![client] = Head(backlog)]
            /\ add_pollfd(client, "client_event")
  /\ i' = i + 1
  /\ UNCHANGED clients

Server == Poll \/ Skip \/ EndOfPass \/ client_event \/ server_event

Stopped == spc \in {"fatal", "abort"}

(* Nobody is left to talk to, or the server has ended. *)
Quiet ==
  /\ \/ (\A c \in Clients : cpc[c] = "closed") /\ spc = "poll" /\ backlog = <<>>
     \/ Stopped
  /\ UNCHANGED vars

Next ==
  /\ \/ \E c \in Clients : Connect(c) \/ Send(c) \/ Close(c)
     \/ Start \/ Server \/ Quiet
  /\ UNCHANGED CbSize

Spec == Init /\ [][Next]_vars

(* The server is scheduled as long as it is not blocked in a call. *)
FairSpec == Spec /\ WF_vars(Start /\ UNCHANGED CbSize) /\ WF_vars(Server /\ UNCHANGED CbSize)

-----------------------------------------------------------------------------
(* A callback is called only for an event that is there: a new slot's      *)
(* revents are never left over from a former user or from fresh memory, so *)
(* read() and accept() do not block the loop.                              *)
CallsDoNotBlock ==
  Active /\ "POLLIN" \in pfds[i].revents =>
    IF pfds[i].fd = Listener THEN backlog # <<>>
    ELSE data[conn[pfds[i].fd]] > 0 \/ cpc[conn[pfds[i].fd]] = "closed"

(* The open connections and the used slots are the same descriptors, each  *)
(* in one slot with client_event; so a descriptor number that is used      *)
(* again never meets the slot of its former connection, rm_pollfd() finds  *)
(* the fd it is given, and nothing leaks.                                  *)
SlotsAreConnections ==
  spc \in {"poll", "handle"} =>
    /\ \A j, k \in DOMAIN pfds : pfds[j].fd = pfds[k].fd /\ pfds[j].fd >= 0 => j = k
    /\ {pfds[k].fd : k \in DOMAIN pfds} \ {-1, Listener} = {fd \in DOMAIN conn : conn[fd] # None}
    /\ \A k \in DOMAIN pfds : pfds[k].fd > Listener => cbs[k] = "client_event"

(* The memory that is "realloc"ed for npfds entries (serial-repeater.c:47) *)
(* holds the callbacks of npfds entries.                                   *)
CallbacksFit == ~corrupt

(* A client that has filled its connection gets room again, whatever the   *)
(* others do, as long as the server runs.                                  *)
SendersProceed ==
  \A c \in Clients : (data[c] = MaxData /\ cpc[c] = "open" /\ c \in Range(conn))
                      ~> (data[c] < MaxData \/ cpc[c] = "closed" \/ Stopped)

(* A connection whose client is gone is closed and its slot is freed, as   *)
(* long as the server runs.                                                *)
ClosedAreReleased ==
  \A c \in Clients :
    (cpc[c] = "closed") ~> ((c \notin Range(conn) /\ c \notin Range(backlog)) \/ Stopped)
=============================================================================

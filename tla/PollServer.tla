----------------------------- MODULE PollServer -----------------------------
(***************************************************************************)
(* unix_socket: the poll() loop of server.c and the clients of client.c.   *)
(*                                                                         *)
(* The server keeps a list of poll_fdinfo (here the fd of each, with the   *)
(* client behind it in conn), copies it to an array before every poll() and*)
(* looks each array entry up in the list again when it handles its events. *)
(* The kernel's part is the listen backlog, what has been written and not  *)
(* read on each connection, and the descriptor numbers.                    *)
(***************************************************************************)
EXTENDS Integers, SequencesExt

CONSTANTS
  Clients,  (* processes that run client.c                                 *)
  MaxFds,   (* descriptors the server may have besides the listener        *)
  Backlog,  (* connections listen() lets wait                              *)
  MaxKill,  (* how often the server is killed and started again            *)
  None      (* no client                                                   *)

ASSUME PollServerAssumption ==
  /\ MaxFds \in Nat /\ Backlog \in Nat /\ MaxKill \in Nat
  /\ None \notin Clients

VARIABLES
  cpc,        (* next call of each client, or how it ended                 *)
  inbox,      (* clients whose "test" the server has not read              *)
  reply,      (* clients whose "tttest" is waiting for them                *)
  broken,     (* clients whose connection went down with the server        *)
  backlog,    (* connected, not accepted                                   *)
  conn,       (* what each descriptor of the server is connected to        *)
  spc,        (* where the server is                                       *)
  poll_root,  (* poll_root_fds: the fds of the list                        *)
  poll_nfds,  (* its counter                                               *)
  nfds,       (* allocated length of the static array in poll_fds()        *)
  fds,        (* that array after poll() returned                          *)
  i,          (* poll_handle()'s index                                     *)
  kills

clients == <<cpc, inbox, reply, broken>>
table   == <<poll_root, poll_nfds, conn>>
array   == <<nfds, fds>>
vars    == <<clients, backlog, spc, table, array, i, kills>>

Listener == 0
Fds      == 0..MaxFds
Ended    == {"served", "failed", "killed"}
Gone(c)  == cpc[c] \in Ended
Events   == SUBSET {"POLLIN", "POLLHUP"}
Pollfds  == [fd : Fds, revents : Events]

TypeOK ==
  /\ cpc \in [Clients -> {"connect", "write", "read"} \cup Ended]
  /\ inbox \subseteq Clients /\ reply \subseteq Clients /\ broken \subseteq Clients
  /\ backlog \in Seq(Clients)
  /\ conn \in [Fds \ {Listener} -> Clients \cup {None}]
  /\ spc \in {"down", "poll", "handle"}
  /\ poll_root \in Seq(Fds) /\ poll_nfds \in Nat /\ nfds \in Nat
  /\ fds \in Seq(Pollfds) /\ i \in Nat
  /\ kills \in 0..MaxKill

Init ==
  /\ cpc = [c \in Clients |-> "connect"]
  /\ inbox = {} /\ reply = {} /\ broken = {} /\ backlog = <<>>
  /\ conn = [fd \in Fds \ {Listener} |-> None]
  /\ spc = "down" /\ poll_root = <<>> /\ poll_nfds = 0
  /\ nfds = 0 /\ fds = <<>> /\ i = 0 /\ kills = 0

-----------------------------------------------------------------------------
(* client.c *)

Call(c, from, to) == cpc[c] = from /\ cpc' = [cpc EXCEPT ![c] = to]

(* Refused when nobody listens, waits while the backlog is full. *)
Connect(c) ==
  /\ \/ Call(c, "connect", "failed") /\ spc = "down" /\ UNCHANGED backlog
     \/ /\ Call(c, "connect", "write") /\ spc \in {"poll", "handle"}
        /\ Len(backlog) <= Backlog
        /\ backlog' = Append(backlog, c)
  /\ UNCHANGED <<inbox, reply, broken, spc, table, array, i, kills>>

(* The result of write() is not looked at. *)
Write(c) ==
  /\ Call(c, "write", "read")
  /\ inbox' = IF c \in broken THEN inbox ELSE inbox \cup {c}
  /\ UNCHANGED <<reply, broken, backlog, spc, table, array, i, kills>>

(* Blocks until there is an answer or the connection is down; either way   *)
(* the process exits after it and its socket is closed.                    *)
Read(c) ==
  /\ \/ Call(c, "read", "served") /\ c \in reply
     \/ Call(c, "read", "failed") /\ c \in broken \ reply
  /\ reply' = reply \ {c}
  /\ UNCHANGED <<inbox, broken, backlog, spc, table, array, i, kills>>

KillClient(c) ==
  /\ cpc[c] \in {"write", "read"}
  /\ cpc' = [cpc EXCEPT ![c] = "killed"]
  /\ reply' = reply \ {c}
  /\ UNCHANGED <<inbox, broken, backlog, spc, table, array, i, kills>>

-----------------------------------------------------------------------------
(* server.c *)

(* main() up to its loop; unlink() makes room for the new socket. *)
Start ==
  /\ spc = "down"
  /\ spc' = "poll"
  /\ poll_root' = <<Listener>> /\ poll_nfds' = 1
  /\ UNCHANGED <<clients, backlog, conn, array, i, kills>>

(* What poll() finds on a descriptor registered with POLLIN. *)
Ready(fd) ==
  IF fd = Listener THEN IF backlog # <<>> THEN {"POLLIN"} ELSE {}
  ELSE IF Gone(conn[fd]) THEN {"POLLIN", "POLLHUP"}
  ELSE IF conn[fd] \in inbox THEN {"POLLIN"} ELSE {}

(* poll_fds() and poll(): the array grows to poll_nfds when it is smaller. *)
Poll ==
  /\ spc = "poll"
  /\ nfds' = IF nfds < poll_nfds THEN poll_nfds ELSE nfds
  /\ fds' = [k \in 1..Len(poll_root) |->
               [fd |-> poll_root[k], revents |-> Ready(poll_root[k])]]
  /\ \E k \in DOMAIN fds' : fds'[k].revents # {}
  /\ spc' = "handle" /\ i' = 1
  /\ UNCHANGED <<clients, backlog, table, kills>>

(* The end of one turn of poll_handle()'s loop. *)
Advance ==
  /\ i' = i + 1
  /\ spc' = IF i = Len(fds) THEN "poll" ELSE "handle"

Handling == spc = "handle" /\ i \in DOMAIN fds
Revents  == fds[i].revents
(* The first entry of the list with the fd of the array entry, 0 if none. *)
Sel      == SelectInSeq(poll_root, LAMBDA fd : fd = fds[i].fd)

Skip ==
  /\ Handling /\ Revents = {}
  /\ Advance
  /\ UNCHANGED <<clients, backlog, table, array, kills>>

(* The condition of fatal ("Oops??"), after which the server would do      *)
(* nothing any more; NoOops says that it is never true.                    *)
Oops == Handling /\ Revents # {} /\ Sel = 0

(* Mutant: link_del() cuts the rest of the list off. *)
PollDelRest(k) ==
  /\ poll_root' = SubSeq(poll_root, 1, k - 1)
  /\ poll_nfds' = poll_nfds - 1
  /\ UNCHANGED conn

PollDel(k) ==
  /\ poll_root' = RemoveAt(poll_root, k)
  /\ poll_nfds' = poll_nfds - 1
  /\ UNCHANGED conn

PollNew(fd) ==
  /\ poll_root' = Append(poll_root, fd)
  /\ poll_nfds' = poll_nfds + 1

(* Mutants: the answer is forgotten; the entry is deleted once it has been *)
(* answered.                                                               *)
HandleClientMute ==
  /\ Handling /\ Revents # {} /\ Sel # 0 /\ fds[i].fd # Listener
  /\ \/ "POLLHUP" \in Revents /\ PollDel(Sel) /\ UNCHANGED inbox
     \/ "POLLHUP" \notin Revents /\ inbox' = inbox \ {conn[fds[i].fd]} /\ UNCHANGED table
  /\ Advance
  /\ UNCHANGED <<cpc, reply, broken, backlog, array, kills>>

HandleClientOnce ==
  /\ Handling /\ Revents # {} /\ Sel # 0 /\ fds[i].fd # Listener
  /\ LET c == conn[fds[i].fd] IN
       /\ inbox' = inbox \ {c}
       /\ reply' = IF Gone(c) THEN reply ELSE reply \cup {c}
  /\ PollDel(Sel)
  /\ Advance
  /\ UNCHANGED <<cpc, broken, backlog, array, kills>>

HandleClient ==
  /\ Handling /\ Revents # {} /\ Sel # 0 /\ fds[i].fd # Listener
  /\ LET c == conn[fds[i].fd] IN
       \/ "POLLHUP" \in Revents /\ PollDel(Sel) /\ UNCHANGED <<inbox, reply>>
       \/ /\ "POLLHUP" \notin Revents
          /\ c \in inbox
          /\ inbox' = inbox \ {c}
          /\ reply' = IF Gone(c) THEN reply ELSE reply \cup {c}
          /\ UNCHANGED table
  /\ Advance
  /\ UNCHANGED <<cpc, broken, backlog, array, kills>>

(* Mutant: a client is greeted as soon as it is accepted. *)
HandleSocketGreets ==
  /\ Handling /\ Revents # {} /\ Sel # 0 /\ fds[i].fd = Listener
  /\ LET free == {fd \in DOMAIN conn : conn[fd] = None} IN
       \/ free = {} /\ UNCHANGED <<backlog, table, reply>>
       \/ /\ free # {} /\ backlog # <<>>
          /\ conn' = [conn EXCEPT ![Min(free)] = Head(backlog)]
          /\ PollNew(Min(free))
          /\ reply' = IF Gone(Head(backlog)) THEN reply ELSE reply \cup {Head(backlog)}
          /\ backlog' = Tail(backlog)
  /\ Advance
  /\ UNCHANGED <<cpc, inbox, broken, array, kills>>

(* accept() takes the lowest free descriptor, or fails when there is none  *)
(* and leaves the connection where it is.                                  *)
HandleSocket ==
  /\ Handling /\ Revents # {} /\ Sel # 0 /\ fds[i].fd = Listener
  /\ LET free == {fd \in DOMAIN conn : conn[fd] = None} IN
       \/ free = {} /\ UNCHANGED <<backlog, table>>
       \/ \E infd \in free :
            /\ \A fd \in free : infd <= fd
            /\ backlog # <<>> /\ backlog' = Tail(backlog)
            /\ conn' = [conn EXCEPT ![infd] = Head(backlog)]
            /\ PollNew(infd)
  /\ Advance
  /\ UNCHANGED <<clients, array, kills>>

(* The server process is killed: every connection it has goes down. *)
KillServer ==
  /\ spc \in {"poll", "handle"} /\ kills < MaxKill
  /\ kills' = kills + 1
  /\ spc' = "down"
  /\ broken' = broken \cup Range(backlog) \cup (Range(conn) \ {None})
  /\ inbox' = {} /\ backlog' = <<>>
  /\ conn' = [fd \in DOMAIN conn |-> None]
  /\ poll_root' = <<>> /\ poll_nfds' = 0 /\ nfds' = 0 /\ fds' = <<>> /\ i' = 0
  /\ UNCHANGED <<cpc, reply>>

AllEnded == (\A c \in Clients : Gone(c)) /\ spc \in {"down", "poll"} /\ UNCHANGED vars

Client(c) == Connect(c) \/ Write(c) \/ Read(c)
Server    == Poll \/ Skip \/ HandleClient \/ HandleSocket

Next ==
  \/ \E c \in Clients : Client(c) \/ KillClient(c)
  \/ Server \/ Start \/ KillServer
  \/ AllEnded

Spec == Init /\ [][Next]_vars

(* The scheduler runs every process that is not blocked in a call. *)
FairSpec == Spec /\ WF_vars(Server) /\ \A c \in Clients : WF_vars(Client(c))

-----------------------------------------------------------------------------
(* fatal ("Oops??") is never reached: what poll() reported is still in the *)
(* list when its turn comes, whatever was handled before it in the pass.   *)
NoOops == ~Oops

(* The array that poll_fds() fills has room for the whole list: the        *)
(* counter it is sized by never falls behind the list's length.            *)
FdsFit == Len(fds) <= nfds

(* An entry is taken off the list only when its own client is gone; the    *)
(* revents it is decided by are older than the list it is decided on.      *)
OnlyGoneAreDropped ==
  [][spc # "down" /\ spc' # "down" =>
       \A fd \in Range(poll_root) \ Range(poll_root') : fd # Listener /\ Gone(conn[fd])]_vars

(* A client waits to be accepted and no descriptor is left for it.         *)
Stranded(c) == c \in Range(backlog) /\ \A fd \in DOMAIN conn : conn[fd] # None

(* Once the server is left alone, a client that is connected to it gets    *)
(* its answer, however many others there are, unless it is killed itself   *)
(* or stranded.                                                            *)
Served ==
  \A c \in Clients : (cpc[c] = "write" /\ c \notin broken /\ kills = MaxKill)
                       ~> (cpc[c] \in {"served", "killed"} \/ Stranded(c))

(* "poll() handles connections of several clients" (README.md:3): as many  *)
(* as come, one after the other or at once, are served.                    *)
EveryoneServed ==
  \A c \in Clients : (cpc[c] = "write" /\ c \notin broken /\ kills = MaxKill)
                       ~> (cpc[c] \in {"served", "killed"})

(* How far each request has got, in the words of EchoService. *)
Requests == [c \in Clients |->
               IF cpc[c] \in {"connect", "write"} THEN "new"
               ELSE IF cpc[c] \in {"failed", "killed"} THEN "left"
               ELSE IF cpc[c] = "served" \/ c \in reply THEN "answered"
               ELSE "asked"]

Echo == INSTANCE EchoService WITH req <- Requests, turned <- {c \in Clients : Stranded(c)}

(* Client by client, the server is the echo service: it answers requests   *)
(* that were made, once each, and every one whose client stays and is not  *)
(* stranded.                                                               *)
EchoRefined == Echo!EchoSpec
=============================================================================

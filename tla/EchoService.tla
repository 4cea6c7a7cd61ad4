---------------------------- MODULE EchoService -----------------------------
(***************************************************************************)
(* What the unix socket server promises its clients: a request is answered *)
(* once, only after it was made, and always unless the client leaves or is *)
(* turned away.                                                            *)
(***************************************************************************)
CONSTANT Clients

VARIABLES
  req,    (* how far each client's request has got                       *)
  turned  (* clients the service has no room for; it may change freely   *)

EchoTypeOK == req \in [Clients -> {"new", "asked", "answered", "left"}]

EchoInit == req = [c \in Clients |-> "new"]

Move(c, from, to) == req[c] \in from /\ req' = [req EXCEPT ![c] = to]

Ask(c)    == Move(c, {"new"}, "asked")
Answer(c) == Move(c, {"asked"}, "answered")
Leave(c)  == Move(c, {"new", "asked", "answered"}, "left")

EchoNext == \E c \in Clients : Ask(c) \/ Answer(c) \/ Leave(c)

EchoSafe == EchoInit /\ [][EchoNext]_req
EchoSpec == EchoSafe /\ \A c \in Clients : WF_req(c \notin turned /\ Answer(c))
=============================================================================

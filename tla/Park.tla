------------------------------- MODULE Park -------------------------------
(***************************************************************************)
(* The parking sensor tools: the window of upark.py, which runs one        *)
(* ./park process after the other, and park.c, which drains the serial     *)
(* line, sends a command and reads the answer, a second per poll().        *)
(* The sensor is external: it answers late, or not at all.  A byte on the  *)
(* line is TRUE when it belongs to the answer the running process asked    *)
(* for, FALSE when it is left from an earlier one.                         *)
(***************************************************************************)
EXTENDS Integers, Sequences

CONSTANTS
  ParkLong, ParkShort,  (* bytes of the answer to 0xa6 (16) and to others (2) *)
  ParkChunk,            (* bytes read_all takes at a time (16)                *)
  ParkBacklog           (* bound: bytes the sensor owes a process that ended      *)

ASSUME ParkAssumption ==
  {ParkLong, ParkShort, ParkChunk, ParkBacklog} \subseteq Nat \ {0} /\ ParkShort <= ParkLong

VARIABLES
  park_pc,        (* of the ./park process; "gui" when none is running        *)
  park_queue,     (* answer sizes of the commands the window has to run       *)
  park_timer,     (* timeout sources of statuscheck: one while the button     *)
  park_stop,      (* says "stop"                                              *)
  park_line,      (* bytes in the input queue of the tty                      *)
  park_sending,   (* bytes the sensor has still to send                       *)
  park_filled,    (* bytes of the answer that were read                       *)
  park_own,       (* all of them belong to it (history)                       *)
  park_clean      (* nothing was on its way when the line was drained (history) *)

parkVars == <<park_pc, park_queue, park_timer, park_stop, park_line, park_sending,
              park_filled, park_own, park_clean>>
parkGui == <<park_timer, park_stop>>

ParkTypeOK ==
  /\ park_pc \in {"gui", "flush", "drain", "write", "read"}
  /\ park_queue \in Seq({ParkLong, ParkShort})
  /\ park_timer = (IF park_stop THEN 1 ELSE 0) /\ park_stop \in BOOLEAN
  /\ park_line \in Seq(BOOLEAN) /\ park_sending \in Seq(BOOLEAN)
  /\ park_filled \in 0 .. ParkLong
  /\ park_own \in BOOLEAN /\ park_clean \in BOOLEAN

ParkInit ==
  /\ park_pc = "gui" /\ park_queue = <<>> /\ park_timer = 0 /\ park_stop = FALSE
  /\ park_line = <<>> /\ park_sending = <<>> /\ park_filled = 0
  /\ park_own = TRUE /\ park_clean = TRUE

(***************************************************************************)
(* upark.py: a handler runs its commands to the end before the next one.   *)
(***************************************************************************)
ParkHandler ==
  /\ park_pc = "gui" /\ park_queue = <<>>
  /\ UNCHANGED <<park_pc, park_line, park_sending, park_filled, park_own, park_clean>>

\* runcmd() of the status, then of the parking status
ParkCheck == park_queue' = <<ParkLong, ParkShort>>

ParkStart ==
  /\ ParkHandler /\ ~park_stop /\ park_stop' = TRUE
  /\ ParkCheck /\ park_timer' = park_timer + 1

ParkStop ==
  /\ ParkHandler /\ park_stop /\ park_stop' = FALSE
  /\ park_timer' = park_timer - 1
  /\ UNCHANGED park_queue

ParkStatuscheck ==
  /\ ParkHandler /\ park_timer > 0
  /\ ParkCheck /\ UNCHANGED <<park_timer, park_stop>>

\* The leds that were chosen, the height, and the restart.  The height less 200
\* is the order: 366 cm make it 0xa6, for which park.c wants the long answer.
ParkRestart ==
  /\ ParkHandler
  /\ \E leds \in 0 .. 2, height \in {ParkShort, ParkLong} :
       park_queue' = [i \in 1 .. leds |-> ParkShort] \o <<height, ParkShort>>
  /\ UNCHANGED parkGui

(***************************************************************************)
(* park.c                                                                  *)
(***************************************************************************)
ParkOpen ==
  /\ park_pc = "gui" /\ park_queue # <<>> /\ park_pc' = "flush"
  /\ UNCHANGED <<park_queue, parkGui, park_line, park_sending, park_filled,
                 park_own, park_clean>>

\* tcsetattr(TCSAFLUSH)
ParkFlush ==
  /\ park_pc = "flush" /\ park_pc' = "drain" /\ park_line' = <<>>
  /\ UNCHANGED <<park_queue, parkGui, park_sending, park_filled, park_own, park_clean>>

\* Mutant: read_all reads once.
ParkReadAllOnce ==
  /\ park_pc = "drain" /\ park_pc' = "write"
  /\ park_clean' = (park_sending = <<>>)
  /\ park_line' = SubSeq(park_line, ParkChunk + 1, Len(park_line))
  /\ UNCHANGED <<park_queue, parkGui, park_sending, park_filled, park_own>>

\* read_all: until poll() finds nothing
ParkReadAll ==
  /\ park_pc = "drain"
  /\ IF park_line = <<>>
     THEN /\ park_pc' = "write" /\ park_clean' = (park_sending = <<>>)
          /\ UNCHANGED park_line
     ELSE /\ park_line' = SubSeq(park_line, ParkChunk + 1, Len(park_line))
          /\ UNCHANGED <<park_pc, park_clean>>
  /\ UNCHANGED <<park_queue, parkGui, park_sending, park_filled, park_own>>

\* write_data.  Every byte that is still to come is an old one from now on,
\* and the sensor answers the command, or it does not.  It takes the order of a
\* height for what the sync byte says it is, whatever park.c waits for.
ParkWrite ==
  /\ park_pc = "write" /\ park_pc' = "read" /\ park_filled' = 0 /\ park_own' = TRUE
  /\ park_line' = [i \in DOMAIN park_line |-> FALSE]
  /\ LET old == [i \in DOMAIN park_sending |-> FALSE] IN
       park_sending' \in {old} \cup {old \o [i \in 1 .. n |-> TRUE] :
                                   n \in {ParkShort, Head(park_queue)}}
  /\ UNCHANGED <<park_queue, parkGui, park_clean>>

\* read_data: never more than the answer has left
ParkTake(room) ==
  LET n == IF Len(park_line) < room THEN Len(park_line) ELSE room IN
    /\ park_line' = SubSeq(park_line, n + 1, Len(park_line))
    /\ park_filled' = park_filled + n
    /\ park_own' = (park_own /\ \A i \in 1 .. n : park_line[i])

ParkEnd == park_pc' = "gui" /\ park_queue' = Tail(park_queue)

ParkRead ==
  /\ park_pc = "read" /\ park_line # <<>>
  /\ ParkTake(Head(park_queue) - park_filled)
  /\ IF park_filled' < Head(park_queue) THEN UNCHANGED <<park_pc, park_queue>> ELSE ParkEnd
  /\ UNCHANGED <<parkGui, park_sending, park_clean>>

\* Mutant: poll() waits without a time-out.
ParkTimeoutNever == FALSE /\ UNCHANGED parkVars

\* The sensor is silent, or its next byte takes longer than a second.
ParkTimeout ==
  /\ park_pc = "read" /\ park_line = <<>>
  /\ Len(park_sending) <= ParkBacklog
  /\ ParkEnd
  /\ UNCHANGED <<parkGui, park_line, park_sending, park_filled, park_own, park_clean>>

\* The tty does not open, or poll(), write() or read() fails on it.
ParkFails ==
  /\ park_pc \in {"gui", "drain", "write", "read"} /\ park_queue # <<>>
  /\ Len(park_sending) <= ParkBacklog
  /\ ParkEnd
  /\ UNCHANGED <<parkGui, park_line, park_sending, park_filled, park_own, park_clean>>

(***************************************************************************)
(* The sensor sends; what arrives while nobody has the line open is lost.  *)
(***************************************************************************)
ParkArrive ==
  /\ park_sending # <<>> /\ park_sending' = Tail(park_sending)
  /\ park_line' = IF park_pc = "gui" THEN <<>> ELSE Append(park_line, Head(park_sending))
  /\ UNCHANGED <<park_pc, park_queue, parkGui, park_filled, park_own, park_clean>>

ParkGui == ParkStart \/ ParkStop \/ ParkStatuscheck \/ ParkRestart
ParkProcess == ParkOpen \/ ParkFlush \/ ParkReadAll \/ ParkWrite \/ ParkRead \/ ParkTimeout
ParkNext == ParkGui \/ ParkProcess \/ ParkFails \/ ParkArrive

\* The script runs, and the bytes that were sent arrive.
ParkSpec == ParkInit /\ [][ParkNext]_parkVars /\ WF_parkVars(ParkProcess) /\ WF_parkVars(ParkArrive)

(***************************************************************************)
(* Properties                                                              *)
(***************************************************************************)
\* A process that found the line drained and nothing on its way prints its own
\* answer, never bytes of an earlier one; and no answer is printed before it is
\* whole or read beyond the buffer that holds it.
AnswerIsOwn ==
  [][ (park_pc = "read" /\ park_pc' = "gui" /\ park_line' # park_line) =>
        park_filled' = Head(park_queue) /\ (park_clean => park_own') ]_parkVars

\* However late or silent the sensor, no process hangs: the window comes back
\* to its handlers, and what it had to run has been run.
WindowComesBack == []<>(park_pc = "gui" /\ park_queue = <<>>)
=============================================================================

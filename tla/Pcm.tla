-------------------------------- MODULE Pcm --------------------------------
(***************************************************************************)
(* The sine player aud/pcm.c: its transfer loops and recovery, against a   *)
(* playback device that plays, runs dry and is suspended on its own.       *)
(* One step is one call of the ALSA library.  The library and the device   *)
(* are external: the ring holds `fill' frames, a stream that runs dry is   *)
(* "xrun", and one that is suspended keeps the state it must resume.  The  *)
(* kernel stops a suspended stream before it prepares it, so when that     *)
(* fails it is left in "setup"; a device that is unplugged is "gone".      *)
(***************************************************************************)
EXTENDS Integers

CONSTANTS
  Buffer,        (* frames in the ring of the device (buffer_size)        *)
  Period,        (* frames of one period (period_size)                    *)
  MaxSuspends,   (* bound: how often the machine is suspended             *)
  MaxFails,      (* bound: how often snd_pcm_prepare fails                *)
  MayUnplug      (* whether the device may be unplugged                   *)

\* The two initial periods of the asynchronous methods must fit.
ASSUME PcmAssumption ==
  /\ Buffer \in Nat /\ Period \in Nat \ {0} /\ Buffer >= 2 * Period
  /\ MaxSuspends \in Nat /\ MaxFails \in Nat /\ MayUnplug \in BOOLEAN

VARIABLES
  method,     (* the transfer method of the command line                  *)
  pc,         (* the next call                                            *)
  after,      (* where xrun_recovery returns to                           *)
  ret,        (* where the signal handler returns to                      *)
  cptr,       (* frames of the period still to transfer (size)            *)
  frames,     (* frames granted by the last snd_pcm_mmap_begin            *)
  areas,      (* my_areas has been set in this call of the loop           *)
  again,      (* the flag `init' of the poll loop, `first' of the others  *)
  initial,    (* initial periods an asynchronous method has still to send *)
  dev, fill,  (* the stream and the frames in its ring                    *)
  before,     (* what a suspended stream resumes to                       *)
  held,       (* the suspend flag is not released yet                     *)
  sig,        (* SIGIO is pending                                         *)
  suspends, fails

stream == <<dev, fill, before, held>>
bounds == <<suspends, fails>>
vars == <<method, pc, after, ret, cptr, frames, areas, again, initial,
          stream, sig, bounds>>

Writers == {"write", "direct_write"}
Asyncs  == {"async", "async_direct"}
Methods == Writers \cup Asyncs \cup {"write_and_poll", "direct"}
Live    == {"prepared", "running"}
Broken  == {"xrun", "suspended"}  (* -EPIPE and -ESTRPIPE                  *)
Lost    == {"setup", "gone"}      (* -EBADFD and -ENODEV                   *)
Ended   == {"refused", "exited", "fault"}

\* set_swparams: the ring is almost full, and a period fits.
StartThreshold == (Buffer \div Period) * Period
AvailMin == Period
Avail == Buffer - fill
Least(a, b) == IF a < b THEN a ELSE b

TypeOK ==
  /\ method \in Methods
  /\ pc \in Ended \cup {"setup", "write", "writing", "state", "poll", "pollmid",
        "prepare", "resume", "ask", "start", "sleep", "cbavail", "cbwrite",
        "top", "avail", "wait", "begin", "commit", "stale", "unset"}
  /\ after \in {"write", "poll", "top", "avail", "begin", "start", "stale", "unset"}
  /\ ret \in {"ask", "sleep"}
  /\ cptr \in 0 .. Period /\ frames \in 0 .. Period /\ initial \in 0 .. 2
  /\ areas \in BOOLEAN /\ again \in BOOLEAN /\ held \in BOOLEAN /\ sig \in BOOLEAN
  /\ dev \in Live \cup Broken \cup Lost /\ fill \in 0 .. Buffer /\ before \in Live
  /\ suspends \in 0 .. MaxSuspends /\ fails \in 0 .. MaxFails

Init ==
  /\ method \in Methods /\ pc = "setup"
  /\ after = "write" /\ ret = "sleep"
  /\ cptr = Period /\ frames = 0 /\ areas = FALSE
  /\ again = (method \in {"write_and_poll", "direct"})
  /\ initial = IF method \in Asyncs THEN 2 ELSE 0
  /\ dev = "prepared" /\ fill = 0 /\ before = "prepared"
  /\ held = FALSE /\ sig = FALSE /\ suspends = 0 /\ fails = 0

(***************************************************************************)
(* set_hwparams, set_swparams: the first call the device refuses ends the  *)
(* program before it has a stream; otherwise the method's loop is entered. *)
(***************************************************************************)
Setup ==
  /\ pc = "setup"
  /\ pc' \in {"refused",
       CASE method = "direct" -> "top" [] method = "async_direct" -> "begin"
         [] OTHER -> "write"}
  /\ UNCHANGED <<method, after, ret, cptr, frames, areas, again, initial,
                 stream, sig, bounds>>

(***************************************************************************)
(* xrun_recovery(handle, err) for the error of the stream; what it does    *)
(* not know it returns, and every caller of it then ends the program.      *)
(***************************************************************************)
Recover(next) ==
  /\ pc' = CASE dev = "xrun" -> "prepare" [] dev = "suspended" -> "resume"
             [] OTHER -> "exited"
  /\ after' = next

\* A failed prepare is reported, and 0 is returned all the same.
Prepare ==
  /\ pc = "prepare" /\ pc' = after
  /\ \/ dev \notin {"running", "gone"} /\ dev' = "prepared" /\ fill' = 0 /\ UNCHANGED fails
     \/ dev \in {"running", "gone"} /\ UNCHANGED <<dev, fill, fails>>
     \/ /\ fails < MaxFails /\ fails' = fails + 1 /\ UNCHANGED fill
        /\ dev' = IF dev = "suspended" THEN "setup" ELSE dev
  /\ UNCHANGED <<method, after, ret, cptr, frames, areas, again, initial,
                 before, held, sig, suspends>>

\* While the flag is held the answer is EAGAIN, and the loop sleeps.
Resume ==
  /\ pc = "resume" /\ (~held \/ dev = "gone")
  /\ \/ dev # "gone" /\ dev' = before /\ pc' = after
     \/ dev' = dev /\ pc' = "prepare"
  /\ UNCHANGED <<method, after, ret, cptr, frames, areas, again, initial,
                 fill, before, held, sig, bounds>>

(***************************************************************************)
(* snd_pcm_writei: it blocks until all is written or the stream breaks,    *)
(* and starts the stream at the threshold.                                 *)
(***************************************************************************)
Push(n) ==
  /\ fill' = fill + n
  /\ dev' = IF dev = "prepared" /\ fill + n >= StartThreshold THEN "running" ELSE dev
  /\ UNCHANGED <<before, held>>

NextPeriod == IF initial > 1 \/ method \in Writers THEN "write"
              ELSE IF method = "async" THEN "ask" ELSE "state"

WriteSome ==
  /\ pc \in {"write", "writing"} /\ dev \in Live /\ Avail > 0
  /\ LET n == Least(Avail, cptr) IN
       /\ Push(n)
       /\ IF cptr = n
          THEN /\ pc' = NextPeriod
               /\ cptr' = IF pc' = "state" THEN 0 ELSE Period
               /\ initial' = IF initial > 0 THEN initial - 1 ELSE 0
          ELSE pc' = "writing" /\ cptr' = cptr - n /\ UNCHANGED initial
  /\ UNCHANGED <<method, after, ret, frames, areas, again, sig, bounds>>

\* What was written before the error is returned first, the error only after.
WriteFails ==
  /\ pc \in {"write", "writing"} /\ dev \notin Live
  /\ IF method = "async" THEN pc' = "exited" /\ UNCHANGED <<after, cptr, again>>
     ELSE IF method = "write_and_poll" /\ pc = "writing"
     THEN pc' = "state" /\ UNCHANGED <<after, cptr, again>>
     ELSE /\ Recover("write") /\ cptr' = Period
          /\ again' = (again \/ method = "write_and_poll")
  /\ UNCHANGED <<method, ret, frames, areas, initial, stream, sig, bounds>>

(***************************************************************************)
(* write_and_poll_loop                                                     *)
(***************************************************************************)

\* snd_pcm_state after a write: a running stream is waited for from now on.
PollState ==
  /\ pc = "state"
  /\ again' = (again /\ dev # "running")
  /\ IF cptr > 0 THEN pc' = "pollmid" /\ UNCHANGED cptr
     ELSE pc' = (IF again' THEN "write" ELSE "poll") /\ cptr' = Period
  /\ UNCHANGED <<method, after, ret, frames, areas, initial, stream, sig, bounds>>

\* wait_for_poll: POLLERR of a stream that is not live, POLLOUT of one with room.
Poll ==
  /\ pc \in {"poll", "pollmid"}
  /\ \/ dev \notin Live /\ Recover("write") /\ again' = TRUE
     \/ dev \in Live /\ Avail >= AvailMin /\ pc' = "write" /\ UNCHANGED <<after, again>>
  /\ UNCHANGED <<method, ret, cptr, frames, areas, initial, stream, sig, bounds>>

(***************************************************************************)
(* async_loop, async_direct_loop after their initial periods, and the      *)
(* delivery of SIGIO                                                       *)
(***************************************************************************)
AsyncAsk ==
  /\ pc = "ask"
  /\ pc' = IF dev = "prepared" THEN "start" ELSE "sleep"
  /\ UNCHANGED <<method, after, ret, cptr, frames, areas, again, initial,
                 stream, sig, bounds>>

\* Only a prepared stream can be started; anything else ends the program.
Start ==
  /\ pc = "start"
  /\ IF dev = "prepared"
     THEN /\ dev' = "running" /\ again' = FALSE
          /\ pc' = IF again THEN "top" ELSE "sleep"
     ELSE dev' = dev /\ pc' = "exited" /\ UNCHANGED again
  /\ UNCHANGED <<method, after, ret, cptr, frames, areas, initial,
                 fill, before, held, sig, bounds>>

Signal ==
  /\ method \in Asyncs /\ sig /\ sig' = FALSE
  /\ pc \in {"ask", "sleep"}
  /\ ret' = pc /\ pc' = IF method = "async" THEN "cbavail" ELSE "top"
  /\ areas' = FALSE /\ again' = FALSE
  /\ UNCHANGED <<method, after, cptr, frames, initial, stream, bounds>>

\* Mutant: any room is enough to write a period.
CallbackAvailAny ==
  /\ pc = "cbavail"
  /\ \/ pc' = "cbwrite" /\ dev # "xrun" /\ Avail > 0
     \/ pc' = ret /\ (dev \notin Live \/ Avail = 0)
  /\ UNCHANGED <<method, after, ret, cptr, frames, areas, again, initial,
                 stream, sig, bounds>>

\* async_callback: an error of snd_pcm_avail_update ends it like a full ring.
\* Not every version of the library reports more than an under-run here.
CallbackAvail ==
  /\ pc = "cbavail"
  /\ \/ pc' = "cbwrite" /\ dev # "xrun" /\ Avail >= Period
     \/ pc' = ret /\ (dev \notin Live \/ Avail < Period)
  /\ UNCHANGED <<method, after, ret, cptr, frames, areas, again, initial,
                 stream, sig, bounds>>

CallbackWrite ==
  /\ pc = "cbwrite"
  /\ IF dev \notin Live THEN pc' = "exited" /\ UNCHANGED stream
     ELSE pc' = "cbavail" /\ Push(Period)
  /\ UNCHANGED <<method, after, ret, cptr, frames, areas, again, initial, sig, bounds>>

(***************************************************************************)
(* direct_loop and async_direct_callback                                   *)
(***************************************************************************)
\* Mutant: the stream is not marked for a new start after an under-run.
DirectTopForgets ==
  /\ pc = "top"
  /\ IF dev \in Broken THEN Recover("avail") ELSE pc' = "avail" /\ UNCHANGED after
  /\ UNCHANGED <<method, ret, cptr, frames, areas, again, initial, stream, sig, bounds>>

DirectTop ==
  /\ pc = "top"
  /\ IF dev \in Broken THEN Recover("avail") ELSE pc' = "avail" /\ UNCHANGED after
  /\ again' = (again \/ dev = "xrun")
  /\ UNCHANGED <<method, ret, cptr, frames, areas, initial, stream, sig, bounds>>

\* Mutant: any room is enough to begin a period.
DirectAvailAny ==
  /\ pc = "avail"
  /\ \/ dev \notin Live /\ Recover("top") /\ again' = TRUE /\ UNCHANGED cptr
     \/ /\ dev # "xrun" /\ UNCHANGED <<again, after>>
        /\ IF Avail > 0 THEN pc' = "begin" /\ cptr' = Period
           ELSE /\ UNCHANGED cptr
                /\ pc' = IF again THEN "start"
                         ELSE IF method = "direct" THEN "wait" ELSE ret
  /\ UNCHANGED <<method, ret, frames, areas, initial, stream, sig, bounds>>

\* As in CallbackAvail, not every error is reported here.
DirectAvail ==
  /\ pc = "avail"
  /\ \/ dev \notin Live /\ Recover("top") /\ again' = TRUE /\ UNCHANGED cptr
     \/ /\ dev # "xrun" /\ UNCHANGED <<again, after>>
        /\ IF Avail >= Period THEN pc' = "begin" /\ cptr' = Period
           ELSE /\ UNCHANGED cptr
                /\ pc' = IF again THEN "start"
                         ELSE IF method = "direct" THEN "wait" ELSE ret
  /\ UNCHANGED <<method, ret, frames, areas, initial, stream, sig, bounds>>

\* Mutant: every return of snd_pcm_wait asks for a new start.
DirectWaitAgain ==
  /\ pc = "wait" /\ again' = TRUE
  /\ \/ dev \notin Live /\ Recover("top")
     \/ dev \in Live /\ Avail >= AvailMin /\ pc' = "top" /\ UNCHANGED after
  /\ UNCHANGED <<method, ret, cptr, frames, areas, initial, stream, sig, bounds>>

DirectWait ==
  /\ pc = "wait"
  /\ \/ dev \notin Live /\ Recover("top") /\ again' = TRUE
     \/ dev \in Live /\ Avail >= AvailMin /\ pc' = "top" /\ UNCHANGED <<after, again>>
  /\ UNCHANGED <<method, ret, cptr, frames, areas, initial, stream, sig, bounds>>

\* The grant is contiguous in the ring, so it may be shorter than asked for.
MmapBegin ==
  /\ pc = "begin"
  /\ \/ /\ dev \in Live \cup {"xrun"} /\ areas' = TRUE /\ pc' = "commit"
        /\ frames' \in Least(1, Least(Avail, cptr)) .. Least(Avail, cptr)
        /\ UNCHANGED <<after, again>>
     \/ /\ dev \in Lost \cup {"suspended"} /\ frames' = cptr
        /\ Recover(IF areas THEN "stale" ELSE "unset")
        /\ again' = (again \/ initial = 0) /\ UNCHANGED areas
  /\ UNCHANGED <<method, ret, cptr, initial, stream, sig, bounds>>

\* The samples go where my_areas points: nobody knows where if it is not set.
UnsetAreas ==
  /\ pc = "unset" /\ pc' \in {"fault", "stale"}
  /\ UNCHANGED <<method, after, ret, cptr, frames, areas, again, initial,
                 stream, sig, bounds>>

Committed(n) ==
  /\ IF cptr > n THEN cptr' = cptr - n /\ UNCHANGED initial
     ELSE cptr' = Period /\ initial' = IF initial > 0 THEN initial - 1 ELSE 0

AfterCommit(n) == IF cptr > n \/ initial > 1 THEN "begin"
                  ELSE IF initial = 1 THEN "start" ELSE "top"

\* A commit at an offset the device does not expect is refused: -EPIPE.
MmapCommit ==
  /\ pc \in {"commit", "stale"} /\ Committed(frames)
  /\ IF pc = "commit" /\ dev \in Live
     THEN /\ fill' = fill + frames /\ UNCHANGED <<dev, before, held>>
          /\ pc' = AfterCommit(frames) /\ UNCHANGED <<after, again>>
     ELSE /\ IF dev \in Live THEN pc' = "prepare" /\ after' = AfterCommit(frames)
             ELSE Recover(AfterCommit(frames))
          /\ again' = (again \/ initial = 0) /\ UNCHANGED stream
  /\ UNCHANGED <<method, ret, frames, areas, sig, bounds>>

(***************************************************************************)
(* The device, on its own                                                  *)
(***************************************************************************)
Play ==
  /\ dev = "running" /\ pc \notin Ended
  /\ fill' = (IF fill > 0 THEN fill - 1 ELSE 0)
  /\ dev' = IF fill' = 0 THEN "xrun" ELSE "running"
  /\ sig' = (sig \/ (method \in Asyncs /\ Avail' >= Period))
  /\ UNCHANGED <<method, pc, after, ret, cptr, frames, areas, again, initial,
                 before, held, bounds>>

Suspend ==
  /\ dev \in Live /\ pc \notin Ended \cup {"setup"} /\ suspends < MaxSuspends
  /\ dev' = "suspended" /\ before' = dev /\ held' = TRUE /\ suspends' = suspends + 1
  /\ UNCHANGED <<method, pc, after, ret, cptr, frames, areas, again, initial,
                 fill, sig, fails>>

Release ==
  /\ held /\ held' = FALSE
  /\ UNCHANGED <<method, pc, after, ret, cptr, frames, areas, again, initial,
                 dev, fill, before, sig, bounds>>

Unplug ==
  /\ MayUnplug /\ dev # "gone" /\ pc \notin Ended \cup {"setup"} /\ dev' = "gone"
  /\ UNCHANGED <<method, pc, after, ret, cptr, frames, areas, again, initial,
                 fill, before, held, sig, bounds>>

Player == Setup \/ Prepare \/ Resume \/ WriteSome \/ WriteFails \/ PollState \/ Poll
       \/ AsyncAsk \/ Start \/ Signal \/ CallbackAvail \/ CallbackWrite \/ DirectTop
       \/ DirectAvail \/ DirectWait \/ MmapBegin \/ UnsetAreas \/ MmapCommit
Device == Play \/ Suspend \/ Release \/ Unplug
Next == Player \/ Device

\* The kernel runs the player, plays what is in the ring and lets a suspend end.
Spec == Init /\ [][Next]_vars /\ WF_vars(Player) /\ WF_vars(Play) /\ WF_vars(Release)

(***************************************************************************)
(* Properties                                                              *)
(***************************************************************************)

\* In the direct loops what is left of a period always fits the ring, so no
\* snd_pcm_mmap_begin grants nothing and the loop on `size' advances.
RoomForThePeriod == pc = "begin" => fill + cptr <= Buffer

\* An under-run ends async alone.  The direct methods may end when a suspend
\* has come at a bad moment, and every method when the stream is lost: when it
\* could not be prepared after a suspend, or the device was unplugged.
GivesUpOnlyWhenLost ==
  pc \in {"exited", "fault"} =>
    \/ method = "async" /\ dev \in Broken
    \/ method \in {"async_direct", "direct"} /\ suspends > 0
    \/ dev = "setup" /\ suspends > 0 /\ fails > 0
    \/ dev = "gone"

\* Unless the stream is lost, xrun_recovery makes every method that has been set
\* up, async aside, play again after an under-run, also when preparing it failed
\* at first, and the writing methods after a suspend too.
PlaysOn ==
  [](pc # "setup" =>
       \/ <>(pc = "refused") \/ []<>(dev = "running") \/ <>(dev \in Lost)
       \/ method = "async" /\ <>(dev \in Broken)
       \/ method \in {"async_direct", "direct"} /\ <>(suspends > 0))

\* pcm.c:219 announces "Underrun and suspend recovery": a player that waits
\* in snd_pcm_wait while the machine is suspended plays again afterwards.
RecoversFromSuspend ==
  <>(method = "direct" /\ pc = "wait" /\ dev = "suspended") => []<>(dev = "running")
=============================================================================

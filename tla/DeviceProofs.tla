---------------------------- MODULE DeviceProofs ----------------------------
(***************************************************************************)
(* The programs that drive devices and keep time, for rings, panels,       *)
(* answers, tables and limits of any size; each on its own, and all of them*)
(* as MCDevices puts them together.                                        *)
(***************************************************************************)
EXTENDS MCDevices, SequenceTheorems, TLAPS

-----------------------------------------------------------------------------
(* Watchdog: as long as one source calls the check, there is one check in  *)
(* a second, and the count of looks without a new sample does not run      *)
(* ahead of the seconds.                                                   *)
DogInv ==
  /\ DogTypeOK
  /\ dog_chains <= dog_starts
  /\ dog_quit = "no" => dog_not_running <= DogLimit
  /\ ~dog_overlap =>
       /\ dog_chains <= 1
       /\ dog_quit = "no" /\ dog_last => /\ dog_not_running <= dog_seconds
                                         /\ dog_due > 0 => dog_not_running < dog_seconds
       /\ dog_quit = "stalled" => dog_seconds > DogLimit

(* Clicks, checks, messages and samples in any order keep that.            *)
LEMMA DogStep ==
  ASSUME DogInv, [DogNext]_dogVars
  PROVE  DogInv'
<1> USE DogAssumption DEF DogInv, DogTypeOK
<1>1. CASE DogClick
  <2>1. DogTypeOK' /\ dog_chains' <= dog_starts'
    <3>1. dog_overlap' \in BOOLEAN /\ dog_last' \in BOOLEAN
      BY <1>1, Zenon DEF DogClick
    <3>2. UNCHANGED <<dog_gtk, dog_due, dog_sample, dog_quit>>
      BY <1>1 DEF DogClick
    <3> QED
      BY <1>1, <3>1, <3>2 DEF DogClick, DogRuns
  <2>2. ~dog_last' /\ dog_quit' = "no" /\ dog_not_running' = 0
    BY <1>1 DEF DogClick, DogRuns
  <2>3. CASE dog_chains > 0
    <3>1. dog_overlap'
      BY <1>1, <2>3 DEF DogClick
    <3> QED
      BY <2>1, <2>2, <3>1
  <2>4. CASE ~(dog_chains > 0)
    <3>1. dog_chains' = 1
      BY <1>1, <2>4 DEF DogClick
    <3> QED
      BY <2>1, <2>2, <3>1
  <2> QED
    BY <2>3, <2>4
<1>2. CASE DogCheck
  <2>1. CASE dog_label = "Stop" /\ dog_sample
    BY <1>2, <2>1 DEF DogCheck, DogRuns, DogAgain, DogLook, dogHistory
  <2>2. CASE ~(dog_label = "Stop" /\ dog_sample)
    BY <1>2, <2>2 DEF DogCheck, DogRuns, DogAgain, dogHistory
  <2> QED
    BY <2>1, <2>2
<1>3. CASE DogMessage
  BY <1>3 DEF DogMessage, DogRuns, dogHistory
<1>4. CASE DogSample
  <2>1. DogTypeOK'
    <3>1. dog_sample' \in BOOLEAN /\ dog_last' \in BOOLEAN
      BY <1>4, Zenon DEF DogSample
    <3>2. UNCHANGED <<dog_gtk, dog_overlap>>
      BY <1>4 DEF DogSample
    <3> QED
      BY <1>4, <3>1, <3>2 DEF DogSample, DogRuns
  <2>2. ~dog_last' /\ dog_quit' = "no" /\ UNCHANGED <<dog_chains, dog_starts, dog_not_running, dog_overlap, dog_quit>>
    BY <1>4 DEF DogSample, DogRuns
  <2> QED
    BY <2>1, <2>2
<1>5. CASE DogOver
  BY <1>5 DEF DogOver, DogRuns, dogHistory
<1>6. CASE DogSecond
  BY <1>6 DEF DogSecond, DogRuns
<1>7. CASE UNCHANGED dogVars
  BY <1>7 DEF dogVars
<1> QED
  BY <1>1, <1>2, <1>3, <1>4, <1>5, <1>6, <1>7 DEF DogNext

(* The watchdogs' state stays in order, without any fairness.              *)
LEMMA DogInvariant == DogInit /\ [][DogNext]_dogVars => []DogInv
<1>1. ASSUME DogInit PROVE DogInv
  <2>1. DogTypeOK /\ dog_chains <= dog_starts /\ dog_chains <= 1
    <3>1. dog_gtk \in BOOLEAN /\ dog_last \in BOOLEAN /\ dog_sample \in BOOLEAN /\ dog_overlap \in BOOLEAN
      BY <1>1, Zenon DEF DogInit
    <3>2. CASE dog_gtk
      BY <1>1, <3>1, <3>2, DogAssumption DEF DogInit, DogTypeOK
    <3>3. CASE ~dog_gtk
      BY <1>1, <3>1, <3>3, DogAssumption DEF DogInit, DogTypeOK
    <3> QED
      BY <3>2, <3>3
  <2>2. ~dog_last /\ dog_quit = "no" /\ dog_not_running = 0
    BY <1>1 DEF DogInit
  <2> QED
    BY <2>1, <2>2, DogAssumption DEF DogInv
<1> QED
  BY <1>1, DogStep, PTL

(* A watchdog that quits has waited for more than the limit in seconds,    *)
(* unless a second source was started beside an old one; for any limit and *)
(* any number of restarts.                                                 *)
THEOREM WatchdogIsPatient == DogSpec => []QuitsAfterTheLimit
<1>1. DogInv => QuitsAfterTheLimit
  BY DEF DogInv, QuitsAfterTheLimit
<1> QED
  BY <1>1, DogInvariant, PTL DEF DogSpec

-----------------------------------------------------------------------------
(* Park: a process that is clean has on the line, and on its way, only     *)
(* what the sensor sends for its own command; and it reads at most the     *)
(* answer its buffer was made for.                                         *)
AllAre(list, v) == \A k \in 1 .. Len(list) : list[k] = v
AllOwn(bytes)   == AllAre(bytes, TRUE)

ParkInv ==
  /\ ParkTypeOK
  /\ park_pc # "gui" => park_queue # <<>>
  /\ park_pc = "read" => park_filled < Head(park_queue)
  /\ park_pc = "write" /\ park_clean => park_line = <<>> /\ park_sending = <<>>
  /\ park_pc = "read" /\ park_clean => /\ AllOwn(park_line) /\ AllOwn(park_sending)
                                       /\ park_own

(* What is left of a list after its first entries, and what it was.        *)
LEMMA RestOfList ==
  ASSUME NEW S, NEW s \in Seq(S), NEW n \in Nat, n <= Len(s)
  PROVE  /\ SubSeq(s, n + 1, Len(s)) \in Seq(S)
         /\ Len(SubSeq(s, n + 1, Len(s))) = Len(s) - n
         /\ \A k \in 1 .. Len(s) - n : SubSeq(s, n + 1, Len(s))[k] = s[n + k]
<1>1. Len(s) \in Nat
  OBVIOUS
<1> QED
  BY <1>1, SubSeqProperties

(* Lists of one value: made, relabelled, shortened and extended.           *)
LEMMA ListsOfOneValue ==
  ASSUME NEW S, NEW v \in S
  PROVE  /\ \A n \in Nat : [i \in 1 .. n |-> v] \in Seq(S) /\ AllAre([i \in 1 .. n |-> v], v)
         /\ \A s \in Seq(S) : [i \in DOMAIN s |-> v] \in Seq(S) /\ (s = <<>> => [i \in DOMAIN s |-> v] = <<>>)
         /\ \A s \in Seq(S) : s # <<>> /\ AllAre(s, v) => AllAre(Tail(s), v) /\ Head(s) = v
         /\ \A s \in Seq(S) : AllAre(s, v) => AllAre(Append(s, v), v)
<1> USE DEF AllAre
<1>1. \A n \in Nat : [i \in 1 .. n |-> v] \in Seq(S) /\ AllAre([i \in 1 .. n |-> v], v)
  OBVIOUS
<1>2. \A s \in Seq(S) : [i \in DOMAIN s |-> v] \in Seq(S) /\ (s = <<>> => [i \in DOMAIN s |-> v] = <<>>)
  OBVIOUS
<1>3. \A s \in Seq(S) : s # <<>> /\ AllAre(s, v) => AllAre(Tail(s), v) /\ Head(s) = v
  OBVIOUS
<1>4. \A s \in Seq(S) : AllAre(s, v) => AllAre(Append(s, v), v)
  OBVIOUS
<1> QED
  BY <1>1, <1>2, <1>3, <1>4

(* The ends of a list.                                                     *)
LEMMA EndsOfList ==
  ASSUME NEW S, NEW s \in Seq(S)
  PROVE  /\ s # <<>> => Head(s) \in S /\ Tail(s) \in Seq(S)
         /\ \A x \in S : Append(s, x) \in Seq(S)
  OBVIOUS

(* The rest of a list of one value.                                        *)
LEMMA RestOfOneValue ==
  ASSUME NEW S, NEW s \in Seq(S), NEW n \in Nat, n <= Len(s), NEW v, AllAre(s, v)
  PROVE  AllAre(SubSeq(s, n + 1, Len(s)), v)
<1>1. Len(s) \in Nat
  OBVIOUS
<1> QED
  BY <1>1, RestOfList DEF AllAre

(* The window's handlers do not touch the line.                            *)
LEMMA ParkGuiStep ==
  ASSUME ParkInv, ParkGui
  PROVE  ParkInv'
<1> USE ParkAssumption DEF ParkInv, ParkTypeOK, ParkHandler, AllOwn
<1>1. <<ParkLong, ParkShort>> \in Seq({ParkLong, ParkShort})
  OBVIOUS
<1>2. CASE ParkStart
  BY <1>1, <1>2 DEF ParkStart, ParkCheck
<1>3. CASE ParkStop
  <2>1. ~park_stop' /\ park_stop' \in BOOLEAN /\ park_timer' = 0
    <3>1. park_stop /\ park_stop' = FALSE
      BY <1>3, Zenon DEF ParkStop
    <3>2. park_timer = 1 /\ park_timer' = park_timer - 1
      BY <1>3, <3>1 DEF ParkStop
    <3>3. park_timer' = 0
      BY <3>2
    <3> QED
      BY <3>1, <3>3, Zenon
  <2>2. UNCHANGED <<park_pc, park_queue, park_line, park_sending, park_filled, park_own, park_clean>>
    BY <1>3 DEF ParkStop
  <2> QED
    BY <1>3, <2>1, <2>2 DEF ParkStop
<1>4. CASE ParkStatuscheck
  BY <1>1, <1>4 DEF ParkStatuscheck, ParkCheck
<1>5. CASE ParkRestart
  <2>1. ASSUME NEW leds \in 0 .. 2, NEW height \in {ParkShort, ParkLong}
        PROVE  [i \in 1 .. leds |-> ParkShort] \o <<height, ParkShort>> \in Seq({ParkLong, ParkShort})
    <3>1. [i \in 1 .. leds |-> ParkShort] \in Seq({ParkLong, ParkShort})
      OBVIOUS
    <3>2. <<height, ParkShort>> \in Seq({ParkLong, ParkShort})
      OBVIOUS
    <3> QED
      BY <3>1, <3>2, ConcatProperties
  <2>2. park_queue' \in Seq({ParkLong, ParkShort})
    BY <1>5, <2>1 DEF ParkRestart
  <2>3. park_pc' = "gui" /\ UNCHANGED <<park_timer, park_stop, park_line, park_sending, park_filled, park_own, park_clean>>
    BY <1>5 DEF ParkRestart, parkGui
  <2> QED
    BY <2>2, <2>3
<1> QED
  BY <1>2, <1>3, <1>4, <1>5 DEF ParkGui

(* From the open to the write: the line is drained before the command.     *)
LEMMA ParkSendStep ==
  ASSUME ParkInv, ParkOpen \/ ParkFlush \/ ParkReadAll \/ ParkWrite
  PROVE  ParkInv'
<1> USE ParkAssumption DEF ParkInv, ParkTypeOK, parkGui
<1>1. CASE ParkOpen
  BY <1>1 DEF ParkOpen
<1>2. CASE ParkFlush
  BY <1>2 DEF ParkFlush
<1>3. CASE ParkReadAll
  <2>1. CASE park_line = <<>>
    BY <1>3, <2>1 DEF ParkReadAll
  <2>2. CASE park_line # <<>>
    <3>1. park_line' \in Seq(BOOLEAN)
      <4>1. SubSeq(park_line, ParkChunk + 1, Len(park_line)) \in Seq(BOOLEAN)
        BY SubSeqProperties
      <4> QED
        BY <1>3, <2>2, <4>1 DEF ParkReadAll
    <3> QED
      BY <1>3, <2>2, <3>1 DEF ParkReadAll
  <2> QED
    BY <2>1, <2>2
<1>4. CASE ParkWrite
  <2> DEFINE old == [i \in DOMAIN park_sending |-> FALSE]
             new(n) == [i \in 1 .. n |-> TRUE]
  <2>1. /\ park_queue # <<>> /\ Head(park_queue) \in {ParkLong, ParkShort}
        /\ Head(park_queue) \in Nat /\ ParkShort \in Nat /\ Head(park_queue) > 0
    BY <1>4, EndsOfList DEF ParkWrite
  <2>2. /\ park_line' = [i \in DOMAIN park_line |-> FALSE]
        /\ park_sending' = old \/ \E n \in {ParkShort, Head(park_queue)} : park_sending' = old \o new(n)
    BY <1>4, Zenon DEF ParkWrite
  <2>3. old \in Seq(BOOLEAN) /\ park_line' \in Seq(BOOLEAN)
    BY <2>2, ListsOfOneValue, Zenon
  <2>4. \A n \in {ParkShort, Head(park_queue)} : new(n) \in Seq(BOOLEAN) /\ AllOwn(new(n))
    BY <2>1, ListsOfOneValue, Zenon DEF AllOwn
  <2> HIDE DEF new
  <2>5. park_sending' \in Seq(BOOLEAN)
    <3>1. \A n \in {ParkShort, Head(park_queue)} : old \o new(n) \in Seq(BOOLEAN)
      BY <2>3, <2>4, ConcatProperties, Zenon
    <3> QED
      BY <2>2, <2>3, <3>1, Zenon
  <2>6. ASSUME park_clean' PROVE AllOwn(park_line)' /\ AllOwn(park_sending)'
    <3>1. park_line = <<>> /\ park_sending = <<>>
      BY <1>4, <2>6 DEF ParkWrite
    <3>2. park_line' = <<>> /\ old = <<>>
      BY <2>2, <3>1, ListsOfOneValue, Zenon
    <3>3. \A n \in {ParkShort, Head(park_queue)} : old \o new(n) = new(n)
      BY <2>4, <3>2, ConcatEmptySeq
    <3>4. AllOwn(<<>>)
      BY DEF AllOwn, AllAre
    <3> QED
      BY <2>2, <2>4, <3>2, <3>3, <3>4
  <2>7. park_pc' = "read" /\ park_filled' = 0 /\ park_own' /\ UNCHANGED <<park_queue, parkGui, park_clean>>
    BY <1>4, Zenon DEF ParkWrite
  <2> QED
    BY <2>1, <2>3, <2>5, <2>6, <2>7
<1> QED
  BY <1>1, <1>2, <1>3, <1>4

(* What read_data takes from the line, and what it leaves.                 *)
LEMMA ParkTakes ==
  ASSUME ParkInv, ParkRead
  PROVE  /\ park_line' \in Seq(BOOLEAN) /\ park_filled' \in 0 .. Head(park_queue)
         /\ Head(park_queue) \in {ParkLong, ParkShort} /\ park_own' \in BOOLEAN
         /\ park_clean => AllOwn(park_line)' /\ park_own'
<1> DEFINE room == Head(park_queue) - park_filled
           n == IF Len(park_line) < room THEN Len(park_line) ELSE room
<1>1. /\ park_pc = "read" /\ park_queue # <<>> /\ Head(park_queue) \in {ParkLong, ParkShort}
      /\ park_filled < Head(park_queue) /\ park_filled \in Nat /\ Head(park_queue) \in Nat
      /\ park_line \in Seq(BOOLEAN) /\ Len(park_line) \in Nat
  BY ParkAssumption DEF ParkInv, ParkTypeOK, ParkRead
<1>2. n \in Nat /\ n <= Len(park_line) /\ n <= room
  BY <1>1
<1>3. /\ park_line' = SubSeq(park_line, n + 1, Len(park_line)) /\ park_filled' = park_filled + n
      /\ park_own' = (park_own /\ \A i \in 1 .. n : park_line[i])
  BY DEF ParkRead, ParkTake
<1> HIDE DEF n
<1>4. /\ park_line' \in Seq(BOOLEAN) /\ Len(park_line') = Len(park_line) - n
      /\ \A k \in 1 .. Len(park_line) - n : park_line'[k] = park_line[n + k]
  BY <1>1, <1>2, <1>3, RestOfList
<1>5. ASSUME park_clean PROVE AllOwn(park_line)' /\ park_own'
  <2>1. AllOwn(park_line) /\ park_own
    BY <1>1, <1>5 DEF ParkInv
  <2>2. \A i \in 1 .. n : park_line[i]
    <3>1. \A i \in 1 .. n : i \in 1 .. Len(park_line)
      BY <1>1, <1>2
    <3> QED
      BY <2>1, <3>1, Zenon DEF AllOwn, AllAre
  <2>3. park_own'
    BY <1>3, <2>1, <2>2, Zenon
  <2>4. AllOwn(park_line)'
    BY <1>1, <1>2, <1>3, <2>1, RestOfOneValue, Zenon DEF AllOwn
  <2> QED
    BY <2>3, <2>4
<1>6. park_own' \in BOOLEAN
  BY <1>3, Zenon
<1> QED
  BY <1>1, <1>2, <1>3, <1>4, <1>5, <1>6

(* From the command to the end of the process, and what the sensor sends.  *)
LEMMA ParkReceiveStep ==
  ASSUME ParkInv, ParkRead \/ ParkTimeout \/ ParkFails \/ ParkArrive
  PROVE  ParkInv'
<1> USE ParkAssumption DEF ParkInv, ParkTypeOK, parkGui
<1>1. CASE ParkRead
  <2>1. park_pc = "read" /\ UNCHANGED <<parkGui, park_sending, park_clean>>
    BY <1>1 DEF ParkRead
  <2>2. \/ park_filled' < Head(park_queue) /\ UNCHANGED <<park_pc, park_queue>>
        \/ park_pc' = "gui" /\ park_queue' = Tail(park_queue)
    BY <1>1 DEF ParkRead, ParkEnd
  <2>3. park_queue' \in Seq({ParkLong, ParkShort})
    <3>1. park_queue \in Seq({ParkLong, ParkShort}) /\ park_queue # <<>>
      BY <2>1
    <3>2. Tail(park_queue) \in Seq({ParkLong, ParkShort})
      BY <3>1, EndsOfList, Zenon
    <3> QED
      BY <2>2, <3>1, <3>2, Zenon
  <2>4. park_filled' \in 0 .. ParkLong
    BY <1>1, ParkTakes
  <2>5. AllOwn(park_sending) /\ park_clean => AllOwn(park_sending)'
    BY <2>1
  <2>6. park_pc' = "read" => park_queue' # <<>> /\ park_filled' < Head(park_queue)'
    BY <2>1, <2>2
  <2> QED
    BY <1>1, <2>1, <2>2, <2>3, <2>4, <2>5, <2>6, ParkTakes
<1>2. CASE ParkTimeout \/ ParkFails
  <2>1. /\ park_queue # <<>> /\ park_pc' = "gui" /\ park_queue' = Tail(park_queue)
        /\ UNCHANGED <<park_timer, park_stop, park_line, park_sending, park_filled, park_own, park_clean>>
    BY <1>2 DEF ParkTimeout, ParkFails, ParkEnd
  <2>2. park_queue' \in Seq({ParkLong, ParkShort})
    BY <2>1, EndsOfList, Zenon
  <2> QED
    BY <2>1, <2>2
<1>3. CASE ParkArrive
  <2>1. /\ park_sending # <<>> /\ park_sending' = Tail(park_sending)
        /\ park_line' = IF park_pc = "gui" THEN <<>> ELSE Append(park_line, Head(park_sending))
    BY <1>3 DEF ParkArrive
  <2>2. Head(park_sending) \in BOOLEAN /\ park_sending' \in Seq(BOOLEAN)
    BY <2>1, EndsOfList, Zenon
  <2>3. park_line' \in Seq(BOOLEAN)
    <3>1. Append(park_line, Head(park_sending)) \in Seq(BOOLEAN)
      BY <2>2, EndsOfList, Zenon
    <3>2. <<>> \in Seq(BOOLEAN)
      BY EmptySeq, Zenon
    <3> QED
      BY <2>1, <3>1, <3>2, Zenon
  <2>4. AllOwn(park_sending) => AllOwn(park_sending)' /\ Head(park_sending) = TRUE
    BY <2>1, ListsOfOneValue, Zenon DEF AllOwn
  <2>5. park_pc # "gui" /\ AllOwn(park_line) /\ Head(park_sending) = TRUE => AllOwn(park_line)'
    BY <2>1, ListsOfOneValue, Zenon DEF AllOwn
  <2>6. park_sending = <<>> => FALSE
    BY <2>1
  <2> QED
    BY <1>3, <2>2, <2>3, <2>4, <2>5, <2>6 DEF ParkArrive
<1> QED
  BY <1>1, <1>2, <1>3

(* No step of the window, the process or the sensor breaks the invariant.  *)
LEMMA ParkStep ==
  ASSUME ParkInv, [ParkNext]_parkVars
  PROVE  ParkInv'
<1>1. CASE UNCHANGED parkVars
  BY <1>1 DEF ParkInv, ParkTypeOK, AllOwn, parkVars
<1> QED
  BY <1>1, ParkGuiStep, ParkSendStep, ParkReceiveStep DEF ParkNext, ParkProcess

(* The line, the answer and the queue stay in step, without any fairness.  *)
LEMMA ParkInvariant == ParkInit /\ [][ParkNext]_parkVars => []ParkInv
<1>1. ParkInit => ParkInv
  <2> SUFFICES ASSUME ParkInit PROVE ParkInv
    OBVIOUS
  <2>1. ~park_stop /\ park_stop \in BOOLEAN /\ park_own \in BOOLEAN /\ park_clean \in BOOLEAN
    BY Zenon DEF ParkInit
  <2> QED
    BY <2>1, ParkAssumption DEF ParkInit, ParkInv, ParkTypeOK
<1> QED
  BY <1>1, ParkStep, PTL

(* An answer that is printed is whole and fits its buffer, and is the      *)
(* process's own when the line was clean before the command; for answers,  *)
(* reads and backlogs of any length.                                       *)
THEOREM AnswersAreOwn == ParkSpec => AnswerIsOwn
<1> DEFINE Own == (park_pc = "read" /\ park_pc' = "gui" /\ park_line' # park_line) =>
                    park_filled' = Head(park_queue) /\ (park_clean => park_own')
<1>1. ASSUME ParkInv, [ParkNext]_parkVars PROVE Own
  <2> SUFFICES ASSUME park_pc = "read", park_pc' = "gui", park_line' # park_line
               PROVE  park_filled' = Head(park_queue) /\ (park_clean => park_own')
    OBVIOUS
  <2>1. ParkRead
    BY <1>1 DEF ParkNext, ParkGui, ParkStart, ParkStop, ParkStatuscheck, ParkRestart, ParkHandler, ParkProcess,
                ParkOpen, ParkFlush, ParkReadAll, ParkWrite, ParkTimeout, ParkFails, ParkArrive, parkVars
  <2>2. ~(park_filled' < Head(park_queue))
    BY <2>1 DEF ParkRead
  <2> QED
    BY <1>1, <2>1, <2>2, ParkTakes, ParkAssumption
<1>2. ParkInv /\ [ParkNext]_parkVars => [Own]_parkVars
  BY <1>1
<1> QED
  BY <1>2, ParkInvariant, PTL DEF ParkSpec, AnswerIsOwn

-----------------------------------------------------------------------------
(* Pcm: each transfer method stays in its own loop, and xrun_recovery      *)
(* returns to it.                                                          *)
DirectMethods == {"direct", "async_direct"}
Recovering    == {"prepare", "resume"}
DirectLoop    == {"top", "avail", "wait", "begin", "commit", "stale", "unset", "start"}
(* The next call, once xrun_recovery has returned.                         *)
Goal          == IF pc \in Recovering THEN after ELSE pc

LoopInv ==
  /\ method \in Writers => Goal \in {"setup", "refused", "write", "writing", "exited"}
  /\ method = "write_and_poll" =>
       Goal \in {"setup", "refused", "write", "writing", "state", "poll", "pollmid", "exited"}
  /\ method = "async" =>
       /\ pc \in {"setup", "refused", "write", "writing", "ask", "start", "sleep", "cbavail", "cbwrite", "exited"}
       /\ ~again
  /\ method = "direct" =>
       /\ Goal \in DirectLoop \cup {"setup", "refused", "exited", "fault"} /\ initial = 0
       /\ Goal = "start" => pc = "start" /\ again
  /\ method = "async_direct" =>
       Goal \in DirectLoop \cup {"setup", "refused", "exited", "fault", "sleep"} /\ ret = "sleep"
  /\ method \in DirectMethods /\ initial > 0 => Goal \notin {"top", "avail", "wait", "start", "sleep"}

(* The ring has room for what is left of the period, from the moment it    *)
(* was asked for until it is committed, and through a recovery; and for    *)
(* the two initial periods.                                                *)
RoomInv ==
  /\ Goal \in {"begin", "commit", "stale", "unset"} => fill + cptr <= Buffer
  /\ Goal \in {"setup", "begin", "commit", "stale", "unset"} /\ initial = 2 => fill + cptr <= Period
  /\ pc = "commit" => frames <= cptr
  /\ pc = "cbwrite" => fill + Period <= Buffer
  /\ pc = "setup" => fill = 0 /\ cptr = Period

(* Without a suspend a stream is started only when it is prepared, or its  *)
(* device is gone: the flag `again' is set for an under-run, and taken     *)
(* back by the start.                                                      *)
StartInv ==
  /\ dev = "suspended" \/ pc = "resume" => suspends > 0
  /\ dev = "setup" => suspends > 0 /\ fails > 0
  /\ method = "async" /\ pc = "start" => dev \in {"prepared", "suspended"} \cup Lost
  /\ pc \in {"exited", "fault"} => \/ method = "async" /\ dev \in Broken
                                   \/ method \in DirectMethods /\ suspends > 0
                                   \/ dev \in Lost
  /\ method \in DirectMethods /\ suspends = 0 =>
       /\ Goal \notin {"stale", "unset"} /\ (pc \in Recovering => after # "start")
       /\ dev = "running" => ~again
       /\ pc = "start" => dev \in {"prepared", "gone"}
       /\ initial > 0 => /\ pc \in {"setup", "refused", "begin", "commit", "exited"}
                         /\ dev \in {"prepared", "gone"}

PcmInv == TypeOK /\ LoopInv /\ RoomInv /\ StartInv

(* The player's variables keep their types.                                *)
LEMMA PcmTypes ==
  ASSUME PcmInv, [Next]_vars
  PROVE  TypeOK'
<1> USE PcmAssumption DEF PcmInv, TypeOK, RoomInv, Methods, Writers, Asyncs, Live, Broken, Lost, Ended,
          DirectMethods, Recovering, DirectLoop, Goal, Avail, AvailMin, Least, stream, bounds
<1>1. CASE Setup
  BY <1>1 DEF Setup
<1>2. CASE Prepare
  BY <1>2 DEF Prepare
<1>3. CASE Resume
  BY <1>3 DEF Resume
<1>4. CASE WriteSome
  BY <1>4 DEF WriteSome, Push, NextPeriod
<1>5. CASE WriteFails
  <2>1. again' \in BOOLEAN
    BY <1>5, Zenon DEF WriteFails
  <2> QED
    BY <1>5, <2>1 DEF WriteFails, Recover
<1>6. CASE PollState
  BY <1>6 DEF PollState
<1>7. CASE Poll
  <2>1. again' \in BOOLEAN
    BY <1>7, Zenon DEF Poll
  <2> QED
    BY <1>7, <2>1 DEF Poll, Recover
<1>8. CASE AsyncAsk
  BY <1>8 DEF AsyncAsk
<1>9. CASE Start
  <2>1. again' \in BOOLEAN
    BY <1>9, Zenon DEF Start
  <2> QED
    BY <1>9, <2>1 DEF Start
<1>10. CASE Signal
  BY <1>10, ZenonT(60) DEF Signal
<1>11. CASE CallbackAvail
  BY <1>11 DEF CallbackAvail
<1>12. CASE CallbackWrite
  BY <1>12 DEF CallbackWrite, Push
<1>13. CASE DirectTop
  BY <1>13 DEF DirectTop, Recover
<1>14. CASE DirectAvail
  <2>1. again' \in BOOLEAN
    BY <1>14, Zenon DEF DirectAvail
  <2> QED
    BY <1>14, <2>1 DEF DirectAvail, Recover
<1>15. CASE DirectWait
  <2>1. again' \in BOOLEAN
    BY <1>15, Zenon DEF DirectWait
  <2> QED
    BY <1>15, <2>1 DEF DirectWait, Recover
<1>16. CASE MmapBegin
  <2>1. again' \in BOOLEAN /\ areas' \in BOOLEAN
    BY <1>16, Zenon DEF MmapBegin
  <2> QED
    BY <1>16, <2>1 DEF MmapBegin, Recover
<1>17. CASE UnsetAreas
  BY <1>17 DEF UnsetAreas
<1>18. CASE MmapCommit
  <2>1. again' \in BOOLEAN
    BY <1>18, Zenon DEF MmapCommit
  <2> QED
    BY <1>18, <2>1 DEF MmapCommit, Recover, Committed, AfterCommit
<1>19. CASE Play
  BY <1>19 DEF Play
<1>20. CASE Suspend
  BY <1>20 DEF Suspend
<1>21. CASE Release
  <2>1. held' \in BOOLEAN
    BY <1>21, Zenon DEF Release
  <2> QED
    BY <1>21, <2>1 DEF Release
<1>22. CASE UNCHANGED vars
  BY <1>22 DEF vars
<1>23. CASE Unplug
  BY <1>23 DEF Unplug
<1> QED
  BY <1>1, <1>2, <1>3, <1>4, <1>5, <1>6, <1>7, <1>8, <1>9, <1>10, <1>11,
     <1>12, <1>13, <1>14, <1>15, <1>16, <1>17, <1>18, <1>19, <1>20, <1>21, <1>22, <1>23 DEF Next, Player, Device

(* Each method stays in its loop.                                          *)
LEMMA PcmLoops ==
  ASSUME PcmInv, [Next]_vars
  PROVE  LoopInv'
<1> USE PcmAssumption DEF PcmInv, TypeOK, LoopInv, Methods, Writers, Asyncs, Live, Broken, Lost, Ended,
          DirectMethods, Recovering, DirectLoop, Goal, Avail, AvailMin, Least, stream, bounds
<1>1. CASE Setup
  BY <1>1 DEF Setup
<1>2. CASE Prepare
  BY <1>2 DEF Prepare
<1>3. CASE Resume
  BY <1>3 DEF Resume
<1>4. CASE WriteSome
  BY <1>4 DEF WriteSome, Push, NextPeriod
<1>5. CASE WriteFails
  BY <1>5 DEF WriteFails, Recover
<1>6. CASE PollState
  BY <1>6 DEF PollState
<1>7. CASE Poll
  BY <1>7 DEF Poll, Recover
<1>8. CASE AsyncAsk
  BY <1>8 DEF AsyncAsk
<1>9. CASE Start
  <2>1. again = FALSE \/ again = TRUE
    OBVIOUS
  <2>2. ~again => ~again' /\ pc' \in {"sleep", "exited"}
    BY <1>9 DEF Start
  <2>3. again => pc' \in {"top", "exited"}
    BY <1>9 DEF Start
  <2>4. pc = "start" /\ UNCHANGED <<method, after, ret, initial>>
    BY <1>9 DEF Start
  <2> QED
    BY <2>2, <2>3, <2>4
<1>10. CASE Signal
  BY <1>10 DEF Signal
<1>11. CASE CallbackAvail
  BY <1>11 DEF CallbackAvail
<1>12. CASE CallbackWrite
  BY <1>12 DEF CallbackWrite, Push
<1>13. CASE DirectTop
  BY <1>13 DEF DirectTop, Recover
<1>14. CASE DirectAvail
  BY <1>14 DEF DirectAvail, Recover
<1>15. CASE DirectWait
  BY <1>15 DEF DirectWait, Recover
<1>16. CASE MmapBegin
  BY <1>16 DEF MmapBegin, Recover
<1>17. CASE UnsetAreas
  BY <1>17 DEF UnsetAreas
<1>18. CASE MmapCommit
  BY <1>18 DEF MmapCommit, Recover, Committed, AfterCommit
<1>19. CASE Play
  BY <1>19 DEF Play
<1>20. CASE Suspend
  BY <1>20 DEF Suspend
<1>21. CASE Release
  BY <1>21 DEF Release
<1>22. CASE UNCHANGED vars
  BY <1>22 DEF vars
<1>23. CASE Unplug
  BY <1>23 DEF Unplug
<1> QED
  BY <1>1, <1>2, <1>3, <1>4, <1>5, <1>6, <1>7, <1>8, <1>9, <1>10, <1>11,
     <1>12, <1>13, <1>14, <1>15, <1>16, <1>17, <1>18, <1>19, <1>20, <1>21, <1>22, <1>23 DEF Next, Player, Device

(* Nothing but the player fills the ring.                                  *)
LEMMA PcmRoom ==
  ASSUME PcmInv, [Next]_vars
  PROVE  RoomInv'
<1> USE PcmAssumption DEF PcmInv, TypeOK, LoopInv, RoomInv, Methods, Writers, Asyncs, Live, Broken, Lost, Ended,
          DirectMethods, Recovering, DirectLoop, Goal, Avail, AvailMin, Least, stream, bounds
<1>1. CASE Setup
  BY <1>1 DEF Setup
<1>2. CASE Prepare
  BY <1>2 DEF Prepare
<1>3. CASE Resume
  BY <1>3 DEF Resume
<1>4. CASE WriteSome
  BY <1>4 DEF WriteSome, Push, NextPeriod
<1>5. CASE WriteFails
  BY <1>5 DEF WriteFails, Recover
<1>6. CASE PollState
  BY <1>6 DEF PollState
<1>7. CASE Poll
  BY <1>7 DEF Poll, Recover
<1>8. CASE AsyncAsk
  BY <1>8 DEF AsyncAsk
<1>9. CASE Start
  BY <1>9 DEF Start
<1>10. CASE Signal
  BY <1>10 DEF Signal
<1>11. CASE CallbackAvail
  BY <1>11 DEF CallbackAvail
<1>12. CASE CallbackWrite
  BY <1>12 DEF CallbackWrite, Push
<1>13. CASE DirectTop
  BY <1>13 DEF DirectTop, Recover
<1>14. CASE DirectAvail
  BY <1>14 DEF DirectAvail, Recover
<1>15. CASE DirectWait
  BY <1>15 DEF DirectWait, Recover
<1>16. CASE MmapBegin
  BY <1>16 DEF MmapBegin, Recover
<1>17. CASE UnsetAreas
  BY <1>17 DEF UnsetAreas
<1>18. CASE MmapCommit
  BY <1>18 DEF MmapCommit, Recover, Committed, AfterCommit
<1>19. CASE Play
  BY <1>19 DEF Play
<1>20. CASE Suspend
  BY <1>20 DEF Suspend
<1>21. CASE Release
  BY <1>21 DEF Release
<1>22. CASE UNCHANGED vars
  BY <1>22 DEF vars
<1>23. CASE Unplug
  BY <1>23 DEF Unplug
<1> QED
  BY <1>1, <1>2, <1>3, <1>4, <1>5, <1>6, <1>7, <1>8, <1>9, <1>10, <1>11,
     <1>12, <1>13, <1>14, <1>15, <1>16, <1>17, <1>18, <1>19, <1>20, <1>21, <1>22, <1>23 DEF Next, Player, Device

(* The flag `again' follows the stream.                                    *)
LEMMA PcmStarts ==
  ASSUME PcmInv, [Next]_vars
  PROVE  StartInv'
<1> USE PcmAssumption DEF PcmInv, TypeOK, LoopInv, StartInv, Methods, Writers, Asyncs, Live, Broken, Lost, Ended,
          DirectMethods, Recovering, DirectLoop, Goal, Avail, AvailMin, Least, stream, bounds
<1>1. CASE Setup
  BY <1>1 DEF Setup
<1>2. CASE Prepare
  BY <1>2 DEF Prepare
<1>3. CASE Resume
  BY <1>3 DEF Resume
<1>4. CASE WriteSome
  BY <1>4 DEF WriteSome, Push, NextPeriod
<1>5. CASE WriteFails
  BY <1>5 DEF WriteFails, Recover
<1>6. CASE PollState
  BY <1>6 DEF PollState
<1>7. CASE Poll
  BY <1>7 DEF Poll, Recover
<1>8. CASE AsyncAsk
  BY <1>8 DEF AsyncAsk
<1>9. CASE Start
  BY <1>9 DEF Start
<1>10. CASE Signal
  BY <1>10 DEF Signal
<1>11. CASE CallbackAvail
  BY <1>11 DEF CallbackAvail
<1>12. CASE CallbackWrite
  BY <1>12 DEF CallbackWrite, Push
<1>13. CASE DirectTop
  BY <1>13 DEF DirectTop, Recover
<1>14. CASE DirectAvail
  BY <1>14 DEF DirectAvail, Recover
<1>15. CASE DirectWait
  BY <1>15 DEF DirectWait, Recover
<1>16. CASE MmapBegin
  BY <1>16 DEF MmapBegin, Recover
<1>17. CASE UnsetAreas
  BY <1>17 DEF UnsetAreas
<1>18. CASE MmapCommit
  BY <1>18 DEF MmapCommit, Recover, Committed, AfterCommit
<1>19. CASE Play
  BY <1>19 DEF Play
<1>20. CASE Suspend
  BY <1>20 DEF Suspend
<1>21. CASE Release
  BY <1>21 DEF Release
<1>22. CASE UNCHANGED vars
  BY <1>22 DEF vars
<1>23. CASE Unplug
  BY <1>23 DEF Unplug
<1> QED
  BY <1>1, <1>2, <1>3, <1>4, <1>5, <1>6, <1>7, <1>8, <1>9, <1>10, <1>11,
     <1>12, <1>13, <1>14, <1>15, <1>16, <1>17, <1>18, <1>19, <1>20, <1>21, <1>22, <1>23 DEF Next, Player, Device

(* The player and its stream stay in step, without any fairness.           *)
LEMMA PcmInvariant == Init /\ [][Next]_vars => []PcmInv
<1>1. ASSUME Init PROVE PcmInv
  <2>1. areas \in BOOLEAN /\ again \in BOOLEAN /\ held \in BOOLEAN /\ sig \in BOOLEAN
    <3>1. areas \in BOOLEAN /\ held \in BOOLEAN /\ sig \in BOOLEAN
      BY <1>1, Zenon DEF Init
    <3>2. again \in BOOLEAN
      BY <1>1 DEF Init
    <3> QED
      BY <3>1, <3>2
  <2>2. /\ method \in Methods /\ pc = "setup" /\ dev = "prepared" /\ (again => method \in {"write_and_poll", "direct"})
        /\ method \in DirectMethods /\ initial # 0 => method = "async_direct"
    BY <1>1 DEF Init, Asyncs, DirectMethods
  <2>3. TypeOK
    BY <1>1, <2>1, <2>2, PcmAssumption DEF Init, TypeOK, Live, Broken, Lost, Ended, Methods
  <2>4. LoopInv /\ RoomInv
    BY <1>1, <2>2, PcmAssumption DEF Init, LoopInv, RoomInv, Goal, Recovering, DirectLoop, Writers, Asyncs, DirectMethods
  <2>5. StartInv
    BY <2>2 DEF StartInv, Goal, Recovering, Broken, Lost, DirectMethods
  <2> QED
    BY <2>3, <2>4, <2>5 DEF PcmInv
<1>2. PcmInv /\ [Next]_vars => PcmInv'
  BY PcmTypes, PcmLoops, PcmRoom, PcmStarts DEF PcmInv
<1> QED
  BY <1>1, <1>2, PTL

(* The player's variables have their types.                                *)
THEOREM PcmTypeCorrect == Spec => []TypeOK
<1>1. PcmInv => TypeOK
  BY DEF PcmInv
<1> QED
  BY <1>1, PcmInvariant, PTL DEF Spec

(* What is left of a period always fits the ring when snd_pcm_mmap_begin   *)
(* is asked for it: through under-runs, suspends and failing recoveries,   *)
(* for any ring that holds two periods.                                    *)
THEOREM RingHasRoom == Spec => []RoomForThePeriod
<1>1. PcmInv => RoomForThePeriod
  BY DEF PcmInv, RoomInv, RoomForThePeriod, Goal, Recovering
<1> QED
  BY <1>1, PcmInvariant, PTL DEF Spec

(* Only async gives up at an under-run, the direct methods only when the   *)
(* machine has been suspended, and all of them only when the stream could  *)
(* not be prepared after a suspend or the device has been unplugged.       *)
THEOREM PlayersGiveUpWhenLost == Spec => []GivesUpOnlyWhenLost
<1>1. PcmInv => GivesUpOnlyWhenLost
  BY DEF PcmInv, StartInv, GivesUpOnlyWhenLost, Lost, DirectMethods
<1> QED
  BY <1>1, PcmInvariant, PTL DEF Spec

-----------------------------------------------------------------------------
(* RGBMatrix: what a register of the panel can hold.                       *)
RgbCells == {<<>>} \cup ((0 .. RgbFrames - 1) \X (0 .. RgbRows - 1) \X (0 .. RgbBits - 1) \X (1 .. RgbCols))
RgbRegisters == [1 .. RgbCols -> RgbCells]
RgbPanels == [clk : BOOLEAN, sto : BOOLEAN, oe : BOOLEAN, addr : 0 .. RgbRows - 1,
              shift : RgbRegisters, latch : RgbRegisters]

(* The line that is sent, or shown, at this point of the scan; and whether *)
(* it follows the line of a plane.                                         *)
RgbHere == RgbLine(rgb_frame, rgb_row, rgb_bit)
RgbFollows(frame, row, bit) ==
  /\ rgb_bit = (bit + 1) % RgbBits
  /\ rgb_row = IF bit = RgbBits - 1 THEN (row + 1) % RgbRows ELSE row
  /\ rgb_frame = IF bit = RgbBits - 1 /\ row = RgbRows - 1 THEN (frame + 1) % RgbFrames ELSE frame

RgbShown(frame, row, bit) == rgb_panel.latch = RgbLine(frame, row, bit) /\ RgbFollows(frame, row, bit)

(* The registers along a line: what is shifted in becomes a whole line,    *)
(* the one that follows the line that is latched.                          *)
RgbScanInv ==
  /\ rgb_scanbuf = rgb_frame
  /\ rgb_pc = "start" => rgb_panel.shift = RgbNoise /\ rgb_panel.latch = RgbNoise
  /\ rgb_pc \in {"column", "clock"} =>
       \A k \in 1 .. rgb_i - 1 : rgb_panel.shift[RgbCols - rgb_i + 1 + k] = RgbHere[k]
  /\ rgb_pc \in {"wait", "display", "row", "latch"} =>
       \/ rgb_panel.shift = RgbHere
       \/ rgb_panel.shift = RgbNoise /\ rgb_panel.latch = RgbNoise
  /\ rgb_pc \in {"light", "plan"} => rgb_panel.latch \in {RgbHere, RgbNoise}
  /\ rgb_pc \in {"column", "clock", "wait", "display", "row", "latch"} =>
       \/ rgb_panel.latch = RgbNoise
       \/ \E frame \in 0 .. RgbFrames - 1, row \in 0 .. RgbRows - 1, bit \in 0 .. RgbBits - 1 :
             RgbShown(frame, row, bit) /\ (rgb_pc \notin {"row", "latch"} => rgb_panel.addr = row)

(* The pins: a row is addressed and latched in the dark, CLK and STO rise. *)
RgbPinInv ==
  /\ rgb_pc # "light" => ~rgb_panel.sto
  /\ rgb_pc = "clock" => ~rgb_panel.clk
  /\ rgb_pc \in {"row", "latch", "light"} => rgb_panel.oe
  /\ rgb_pc \in {"latch", "light", "plan"} => rgb_panel.addr = rgb_row

(* The ints say how far the line's end is ahead, but for whole turns of an *)
(* int; and that is less than half a turn.                                 *)
RgbTimeInv ==
  /\ \E q \in Int : rgb_next - rgb_now - rgb_ahead = q * RgbRange
  /\ rgb_ahead >= -RgbLate /\ rgb_ahead < RgbRange \div 2

(* The counters and ints of the scan, each in its range.                   *)
RgbNumbers ==
  /\ rgb_pc \in {"start", "display", "row", "latch", "light", "plan", "column",
                 "clock", "wait", "off", "done"}
  /\ rgb_i \in 1 .. RgbCols
  /\ rgb_row \in 0 .. RgbRows - 1 /\ rgb_bit \in 0 .. RgbBits - 1
  /\ rgb_frame \in 0 .. RgbFrames - 1 /\ rgb_scanbuf \in 0 .. RgbFrames - 1
  /\ rgb_next \in RgbInts /\ rgb_now \in RgbInts
  /\ rgb_ahead \in Int /\ rgb_sets \in 0 .. RgbSets

(* All of it is inductive.                                                 *)
RgbInv == /\ RgbNumbers /\ rgb_got_sig \in BOOLEAN /\ rgb_panel \in RgbPanels
          /\ RgbScanInv /\ RgbPinInv /\ RgbTimeInv /\ LitLineIsWhole

(* The constants, one by one; and a bit's time is a number below half of   *)
(* the values of an int.                                                   *)
LEMMA RgbConstants ==
  /\ RgbRows \in Nat \ {0} /\ RgbCols \in Nat \ {0} /\ RgbBits \in Nat \ {0} /\ RgbLate \in Nat \ {0}
  /\ RgbFrames \in Nat /\ RgbFrames > 2 /\ RgbSets \in Nat
  /\ RgbRange \in Nat /\ RgbRange % 2 = 0 /\ RgbRange \div 2 > 0 /\ RgbRange = 2 * (RgbRange \div 2)
  /\ RgbLate <= RgbRange \div 2
<1>1. RgbLate \in Nat \ {0} /\ RgbRange \in Nat /\ RgbRange % 2 = 0 /\ RgbLate <= RgbRange \div 2
  BY RgbAssumption, RgbScheduleAssumption
<1>2. RgbRange \div 2 > 0 /\ RgbRange = 2 * (RgbRange \div 2)
  BY <1>1
<1> QED
  BY RgbAssumption, <1>1, <1>2

(* A register of n cells that is shifted: its head is lost, the new column *)
(* is its last.                                                            *)
RgbShifted(r, s, x, n) == r[n] = x /\ \A k \in 1 .. n - 1 : r[k] = s[k + 1]

(* That is what dropping the head and appending the column does.           *)
LEMMA ShiftIn ==
  ASSUME NEW S, NEW n \in Nat \ {0}, NEW s \in [1 .. n -> S], NEW x \in S
  PROVE  /\ Append(Tail(s), x) \in [1 .. n -> S]
         /\ RgbShifted(Append(Tail(s), x), s, x, n)
<1>1. s \in Seq(S) /\ Len(s) = n
  OBVIOUS
<1>2. Tail(s) \in Seq(S) /\ Len(Tail(s)) = n - 1 /\ \A k \in 1 .. n - 1 : Tail(s)[k] = s[k + 1]
  BY <1>1
<1>3. DEFINE t == Tail(s)
<1>4. t \in Seq(S) /\ Len(t) = n - 1 /\ \A k \in 1 .. n - 1 : t[k] = s[k + 1]
  BY <1>2
<1> HIDE DEF t
<1>5. Append(t, x) \in Seq(S) /\ Len(Append(t, x)) = n /\ Append(t, x)[n] = x
  BY <1>4
<1>6. \A k \in 1 .. n - 1 : Append(t, x)[k] = s[k + 1]
  BY <1>4
<1>7. Append(t, x) \in [1 .. n -> S]
  BY <1>5, LenProperties, Zenon
<1> QED
  BY <1>5, <1>6, <1>7 DEF t, RgbShifted

(* Lines are registers, and so is what the panel holds at first.  A line   *)
(* tells its frame, row and bit.                                           *)
LEMMA LinesAreRegisters ==
  ASSUME NEW frame \in 0 .. RgbFrames - 1, NEW row \in 0 .. RgbRows - 1, NEW bit \in 0 .. RgbBits - 1
  PROVE  /\ RgbLine(frame, row, bit) \in RgbRegisters
         /\ RgbNoise \in RgbRegisters
         /\ RgbLine(frame, row, bit)[1] = <<frame, row, bit, 1>>
         /\ RgbLine(frame, row, bit) # RgbNoise
<1>1. 1 \in 1 .. RgbCols
  BY RgbConstants
<1>2. RgbLine(frame, row, bit)[1] = <<frame, row, bit, 1>>
  BY <1>1 DEF RgbLine
<1>3. RgbNoise[1] = <<>>
  BY <1>1 DEF RgbNoise
<1>4. <<frame, row, bit, 1>> # <<>>
  OBVIOUS
<1>5. RgbLine(frame, row, bit) \in RgbRegisters
  <2>1. \A c \in 1 .. RgbCols : <<frame, row, bit, c>> \in RgbCells
    BY DEF RgbCells
  <2> QED
    BY <2>1, Zenon DEF RgbLine, RgbRegisters
<1>6. RgbNoise \in RgbRegisters
  <2>1. <<>> \in RgbCells
    BY DEF RgbCells
  <2> QED
    BY <2>1, Zenon DEF RgbNoise, RgbRegisters
<1> QED
  BY <1>2, <1>3, <1>4, <1>5, <1>6, Zenon

(* What a write of port A does to each part of the panel.                  *)
LEMMA PortAWrites ==
  ASSUME rgb_panel \in RgbPanels, NEW sto \in BOOLEAN, NEW oe \in BOOLEAN, NEW clk \in BOOLEAN,
         NEW column \in RgbCells, RgbPortA(sto, oe, clk, column)
  PROVE  /\ rgb_panel' \in RgbPanels
         /\ rgb_panel'.sto = sto /\ rgb_panel'.oe = oe /\ rgb_panel'.clk = clk
         /\ rgb_panel'.addr = rgb_panel.addr
         /\ rgb_panel'.shift = IF clk /\ ~rgb_panel.clk THEN Append(Tail(rgb_panel.shift), column)
                               ELSE rgb_panel.shift
         /\ rgb_panel'.latch = IF sto /\ ~rgb_panel.sto THEN rgb_panel.shift ELSE rgb_panel.latch
<1> DEFINE shift == IF clk /\ ~rgb_panel.clk THEN Append(Tail(rgb_panel.shift), column) ELSE rgb_panel.shift
           latch == IF sto /\ ~rgb_panel.sto THEN rgb_panel.shift ELSE rgb_panel.latch
<1>1. rgb_panel.addr \in 0 .. RgbRows - 1 /\ rgb_panel.shift \in RgbRegisters /\ rgb_panel.latch \in RgbRegisters
  BY Zenon DEF RgbPanels
<1>2. Append(Tail(rgb_panel.shift), column) \in RgbRegisters
  BY <1>1, ShiftIn, RgbConstants, Zenon DEF RgbRegisters
<1>3. shift \in RgbRegisters /\ latch \in RgbRegisters
  BY <1>1, <1>2, Zenon
<1>4. rgb_panel' = [rgb_panel EXCEPT !.sto = sto, !.oe = oe, !.clk = clk, !.shift = shift, !.latch = latch]
  BY Zenon DEF RgbPortA
<1> HIDE DEF shift, latch
<1>5. rgb_panel' = [clk |-> clk, sto |-> sto, oe |-> oe, addr |-> rgb_panel.addr, shift |-> shift, latch |-> latch]
  BY <1>4 DEF RgbPanels
<1>6. rgb_panel' \in RgbPanels
  BY <1>1, <1>3, <1>5, Zenon DEF RgbPanels
<1> QED
  BY <1>5, <1>6, Zenon DEF shift, latch

(* The places of the scan, as numbers: the line that follows has the next. *)
LEMMA PlaceFollows ==
  ASSUME NEW frame \in 0 .. RgbFrames - 1, NEW row \in 0 .. RgbRows - 1, NEW bit \in 0 .. RgbBits - 1,
         RgbNumbers, RgbFollows(frame, row, bit)
  PROVE  RgbPlace(<<rgb_frame, rgb_row, rgb_bit, 1>>)
           = (RgbPlace(<<frame, row, bit, 1>>) + 1) % (RgbFrames * RgbRows * RgbBits)
<1> DEFINE place == (frame * RgbRows + row) * RgbBits + bit
           here == (rgb_frame * RgbRows + rgb_row) * RgbBits + rgb_bit
           all == RgbFrames * RgbRows * RgbBits
<1> SUFFICES here = (place + 1) % all
  BY DEF RgbPlace
<1> USE RgbConstants
<1>1. /\ frame \in Int /\ row \in Int /\ bit \in Int /\ rgb_frame \in Int /\ rgb_row \in Int /\ rgb_bit \in Int
      /\ 0 <= frame /\ frame <= RgbFrames - 1 /\ 0 <= row /\ row <= RgbRows - 1 /\ 0 <= bit /\ bit <= RgbBits - 1
  BY DEF RgbNumbers
<1>2. /\ rgb_bit = (bit + 1) % RgbBits
      /\ rgb_row = IF bit = RgbBits - 1 THEN (row + 1) % RgbRows ELSE row
      /\ rgb_frame = IF bit = RgbBits - 1 /\ row = RgbRows - 1 THEN (frame + 1) % RgbFrames ELSE frame
  BY DEF RgbFollows
<1>3. /\ frame * RgbRows + row \in Nat /\ frame * RgbRows + row <= RgbFrames * RgbRows - 1
      /\ (frame < RgbFrames - 1 \/ row < RgbRows - 1) => frame * RgbRows + row <= RgbFrames * RgbRows - 2
  <2>1. frame * RgbRows <= (RgbFrames - 1) * RgbRows
    BY <1>1
  <2>2. frame < RgbFrames - 1 => (frame + 1) * RgbRows <= (RgbFrames - 1) * RgbRows
    BY <1>1
  <2>3. (RgbFrames - 1) * RgbRows = RgbFrames * RgbRows - RgbRows /\ (frame + 1) * RgbRows = frame * RgbRows + RgbRows
    BY <1>1
  <2>4. frame * RgbRows \in Nat /\ RgbFrames * RgbRows \in Nat
    BY <1>1
  <2> QED
    BY <1>1, <2>1, <2>2, <2>3, <2>4
<1>4. \A l \in Nat : l <= RgbFrames * RgbRows - 1 => l * RgbBits \in Nat /\ l * RgbBits <= all - RgbBits
  <2> SUFFICES ASSUME NEW l \in Nat, l <= RgbFrames * RgbRows - 1
               PROVE  l * RgbBits \in Nat /\ l * RgbBits <= all - RgbBits
    OBVIOUS
  <2>1. (l + 1) * RgbBits <= (RgbFrames * RgbRows) * RgbBits
    BY <1>1
  <2>2. (l + 1) * RgbBits = l * RgbBits + RgbBits /\ l * RgbBits \in Nat
    BY <1>1
  <2> QED
    BY <2>1, <2>2
<1>5. place \in Nat /\ place <= all - 1 /\ all \in Nat \ {0}
  BY <1>1, <1>3, <1>4
<1>6. CASE bit < RgbBits - 1
  <2>1. rgb_bit = bit + 1 /\ rgb_row = row /\ rgb_frame = frame
    BY <1>1, <1>2, <1>6
  <2>2. here = place + 1
    BY <1>1, <1>3, <2>1
  <2>3. place + 1 <= all - 1
    BY <1>1, <1>3, <1>4, <1>6
  <2> QED
    BY <1>5, <2>2, <2>3
<1>7. CASE bit = RgbBits - 1 /\ row < RgbRows - 1
  <2>1. rgb_bit = 0 /\ rgb_row = row + 1 /\ rgb_frame = frame
    BY <1>1, <1>2, <1>7
  <2>2. here = place + 1
    <3>1. here = ((frame * RgbRows + row) + 1) * RgbBits
      BY <1>1, <1>3, <2>1
    <3>2. ((frame * RgbRows + row) + 1) * RgbBits = (frame * RgbRows + row) * RgbBits + RgbBits
      BY <1>1, <1>3
    <3> QED
      BY <1>1, <1>3, <1>4, <1>7, <3>1, <3>2
  <2>3. here <= all - 1
    <3>1. (frame * RgbRows + row) + 1 <= RgbFrames * RgbRows - 1
      BY <1>1, <1>3, <1>7
    <3>2. here = ((frame * RgbRows + row) + 1) * RgbBits
      BY <1>1, <1>3, <2>1
    <3> QED
      BY <1>3, <1>4, <3>1, <3>2
  <2> QED
    BY <1>5, <2>2, <2>3
<1>8. CASE bit = RgbBits - 1 /\ row = RgbRows - 1
  <2>1. rgb_bit = 0 /\ rgb_row = 0 /\ rgb_frame = (frame + 1) % RgbFrames
    BY <1>1, <1>2, <1>8
  <2>2. place + 1 = ((frame + 1) * RgbRows) * RgbBits
    <3>1. frame * RgbRows + row = (frame + 1) * RgbRows - 1
      BY <1>1, <1>8
    <3>2. ((frame + 1) * RgbRows - 1) * RgbBits = ((frame + 1) * RgbRows) * RgbBits - RgbBits
      BY <1>1
    <3> QED
      BY <1>1, <1>3, <1>8, <3>1, <3>2
  <2>3. CASE frame = RgbFrames - 1
    <3>1. rgb_frame = 0
      BY <1>1, <2>1, <2>3
    <3>2. here = 0
      BY <2>1, <3>1
    <3>3. place + 1 = all
      BY <2>2, <2>3
    <3> QED
      BY <1>5, <3>2, <3>3
  <2>4. CASE frame < RgbFrames - 1
    <3>1. rgb_frame = frame + 1
      BY <1>1, <2>1, <2>4
    <3>2. here = place + 1
      BY <1>1, <2>1, <2>2, <3>1
    <3>3. here <= all - 1
      <4>1. (frame + 1) * RgbRows \in Nat /\ (frame + 1) * RgbRows <= RgbFrames * RgbRows - 1
        <5>1. (frame + 1) * RgbRows <= (RgbFrames - 1) * RgbRows
          BY <1>1, <2>4
        <5>2. (RgbFrames - 1) * RgbRows = RgbFrames * RgbRows - RgbRows /\ (frame + 1) * RgbRows \in Nat
          BY <1>1
        <5> QED
          BY <5>1, <5>2
      <4>2. here = ((frame + 1) * RgbRows) * RgbBits
        BY <2>2, <3>2
      <4> QED
        BY <1>4, <4>1, <4>2
    <3> QED
      BY <1>5, <3>2, <3>3
  <2> QED
    BY <1>1, <2>3, <2>4
<1> QED
  BY <1>1, <1>6, <1>7, <1>8

(* What the register of an int holds of a number: an int, some turns away. *)
LEMMA IntHolds ==
  ASSUME NEW a \in Int
  PROVE  RgbInt(a) \in RgbInts /\ \E k \in Int : RgbInt(a) = a - k * RgbRange
<1> DEFINE b == a + (RgbRange \div 2)
           k == b \div RgbRange
<1>1. RgbRange \in Nat \ {0} /\ RgbRange \div 2 \in Int /\ RgbRange = 2 * (RgbRange \div 2) /\ b \in Int
  BY RgbConstants
<1>2. k \in Int /\ b % RgbRange = b - k * RgbRange /\ b % RgbRange \in 0 .. RgbRange - 1
  <2>1. \A c \in Int : /\ c \div RgbRange \in Int /\ c % RgbRange = c - (c \div RgbRange) * RgbRange
                       /\ c % RgbRange \in 0 .. RgbRange - 1
    BY <1>1
  <2> QED
    BY <1>1, <2>1, Zenon
<1>3. RgbInt(a) = (b % RgbRange) - (RgbRange \div 2)
  BY DEF RgbInt
<1>4. k * RgbRange \in Int
  BY <1>1, <1>2
<1> HIDE DEF k
<1>5. RgbInt(a) = a - k * RgbRange /\ RgbInt(a) \in RgbInts
  BY <1>1, <1>2, <1>3, <1>4 DEF RgbInts
<1> QED
  BY <1>2, <1>5, Zenon

(* A number that is whole turns away from an int is that int in a register. *)
LEMMA IntComesBack ==
  ASSUME NEW a \in Int, NEW d \in RgbInts, NEW q \in Int, a - d = q * RgbRange
  PROVE  RgbInt(a) = d
<1> USE RgbConstants
<1>1. d \in Int /\ d + (RgbRange \div 2) \in 0 .. RgbRange - 1
  BY DEF RgbInts
<1>2. a + (RgbRange \div 2) = q * RgbRange + (d + (RgbRange \div 2))
  BY <1>1
<1>3. (a + (RgbRange \div 2)) % RgbRange = d + (RgbRange \div 2)
  <2> DEFINE r == d + (RgbRange \div 2)
             b == a + (RgbRange \div 2)
  <2>1. r \in 0 .. RgbRange - 1 /\ b = q * RgbRange + r
    BY <1>1, <1>2
  <2> HIDE DEF r, b
  <2>2. b % RgbRange = r
    BY <2>1
  <2> QED
    BY <2>2 DEF r, b
<1> QED
  BY <1>1, <1>3 DEF RgbInt

(* Two ints that are whole turns apart are the same one.                   *)
LEMMA IntsAreTheSame ==
  ASSUME NEW a \in RgbInts, NEW d \in RgbInts, NEW q \in Int, a - d = q * RgbRange
  PROVE  a = d
<1> USE RgbConstants
<1>1. a \in Int /\ d \in Int /\ a - d < RgbRange /\ d - a < RgbRange
  BY DEF RgbInts
<1>2. q >= 1 => q * RgbRange >= RgbRange
  OBVIOUS
<1>3. q <= -1 => q * RgbRange <= -RgbRange
  OBVIOUS
<1>4. q = 0
  BY <1>1, <1>2, <1>3
<1> QED
  BY <1>1, <1>4

(* Any step keeps the counters and ints of the scan in their ranges.       *)
LEMMA RgbCounters ==
  ASSUME RgbNumbers, [RgbNext]_rgbVars
  PROVE  RgbNumbers'
<1> USE RgbConstants DEF RgbNumbers
<1>1. /\ \A a \in Int : RgbInt(a) \in RgbInts
      /\ \A a \in RgbInts : a \in Int
  <2>1. \A a \in RgbInts : a \in Int
    BY RgbConstants DEF RgbInts
  <2> QED
    BY <2>1, IntHolds, Zenon
<1>2. CASE RgbStart \/ RgbDark \/ RgbAddress \/ RgbLatch \/ RgbLight \/ RgbColumn \/ RgbWait \/ RgbOff
  <2>1. rgb_pc' \in {"display", "off", "row", "latch", "light", "plan", "clock", "done"}
    BY <1>2 DEF RgbStart, RgbDark, RgbAddress, RgbLatch, RgbLight, RgbColumn, RgbWait, RgbOff, RgbStep
  <2>2. UNCHANGED <<rgb_i, rgb_row, rgb_bit, rgb_frame, rgb_now, rgb_sets, rgb_scanbuf>>
    BY <1>2 DEF RgbStart, RgbDark, RgbAddress, RgbLatch, RgbLight, RgbColumn, RgbWait, RgbOff, rgbClock
  <2>3. rgb_next' \in {rgb_next, rgb_now} /\ rgb_ahead' \in {rgb_ahead, 0}
    BY <1>2 DEF RgbStart, RgbDark, RgbAddress, RgbLatch, RgbLight, RgbColumn, RgbWait, RgbOff, rgbClock
  <2> QED
    BY <2>1, <2>2, <2>3
<1>3. CASE RgbPlan
  <2>1. RgbOn(rgb_bit) \in Int
    BY RgbScheduleAssumption
  <2>2. /\ rgb_next' = RgbInt(rgb_next + RgbOn(rgb_bit)) /\ rgb_ahead' = rgb_ahead + RgbOn(rgb_bit)
        /\ rgb_bit' = (rgb_bit + 1) % RgbBits /\ rgb_row' \in {(rgb_row + 1) % RgbRows, rgb_row}
        /\ rgb_frame' \in {(rgb_frame + 1) % RgbFrames, rgb_frame} /\ rgb_scanbuf' = rgb_frame'
        /\ rgb_pc' = "column" /\ rgb_i' = 1 /\ UNCHANGED <<rgb_now, rgb_sets>>
    BY <1>3 DEF RgbPlan, RgbStep
  <2> QED
    BY <1>1, <2>1, <2>2
<1>4. CASE RgbShift
  BY <1>4 DEF RgbShift, rgbClock
<1>5. CASE RgbSignal
  BY <1>5 DEF RgbSignal
<1>6. CASE RgbTick
  BY <1>1, <1>6 DEF RgbTick, RgbMove
<1>7. CASE RgbSet
  BY <1>1, <1>7 DEF RgbSet, RgbMove
<1>8. CASE UNCHANGED rgbVars
  BY <1>8 DEF rgbVars
<1> QED
  BY <1>2, <1>3, <1>4, <1>5, <1>6, <1>7, <1>8 DEF RgbNext, RgbProgram

(* A step keeps the ints at their true distance, but for whole turns.      *)
LEMMA RgbTimes ==
  ASSUME RgbNumbers, RgbTimeInv, [RgbNext]_rgbVars
  PROVE  RgbTimeInv'
<1> USE RgbConstants DEF RgbNumbers
<1>0. PICK q \in Int : rgb_next - rgb_now - rgb_ahead = q * RgbRange
  BY DEF RgbTimeInv
<1>1. /\ \A a \in Int : \E k \in Int : RgbInt(a) = a - k * RgbRange
      /\ \A a \in RgbInts : a \in Int
  <2>1. \A a \in RgbInts : a \in Int
    BY RgbConstants DEF RgbInts
  <2> QED
    BY <2>1, IntHolds, Zenon
<1>2. CASE \/ RgbDark \/ RgbAddress \/ RgbLatch \/ RgbLight \/ RgbColumn \/ RgbShift \/ RgbWait
          \/ RgbOff \/ RgbSignal
  <2>1. UNCHANGED <<rgb_next, rgb_now, rgb_ahead, rgb_sets>>
    BY <1>2 DEF RgbDark, RgbAddress, RgbLatch, RgbLight, RgbColumn, RgbShift, RgbWait, RgbOff, RgbSignal, rgbClock
  <2> QED
    BY <2>1 DEF RgbTimeInv
<1>3. CASE RgbStart
  <2>1. rgb_next' = rgb_now /\ rgb_ahead' = 0 /\ rgb_now' = rgb_now /\ rgb_sets' = rgb_sets
    BY <1>3 DEF RgbStart
  <2>2. rgb_next' - rgb_now' - rgb_ahead' = 0 * RgbRange
    BY <1>1, <2>1
  <2>3. rgb_ahead' >= -RgbLate /\ rgb_ahead' < RgbRange \div 2
    BY <2>1
  <2>4. \E p \in Int : rgb_next' - rgb_now' - rgb_ahead' = p * RgbRange
    <3>1. 0 \in Int
      OBVIOUS
    <3> QED
      BY <2>2, <3>1, Zenon
  <2> QED
    BY <2>3, <2>4 DEF RgbTimeInv
<1>4. CASE RgbPlan
  <2>1. RgbOn(rgb_bit) \in Nat
    BY RgbScheduleAssumption
  <2>2. /\ rgb_next' = RgbInt(rgb_next + RgbOn(rgb_bit)) /\ rgb_ahead' = rgb_ahead + RgbOn(rgb_bit)
        /\ rgb_ahead + RgbOn(rgb_bit) < RgbRange \div 2 /\ rgb_now' = rgb_now
    BY <1>4 DEF RgbPlan, RgbNotTooFar
  <2>3. PICK k \in Int : rgb_next' = (rgb_next + RgbOn(rgb_bit)) - k * RgbRange
    <3>1. rgb_next + RgbOn(rgb_bit) \in Int
      BY <1>1, <2>1
    <3> QED
      BY <1>1, <2>2, <3>1, Zenon
  <2>4. rgb_next' - rgb_now' - rgb_ahead' = (q - k) * RgbRange
    <3>1. (q - k) * RgbRange = q * RgbRange - k * RgbRange
      OBVIOUS
    <3> QED
      BY <1>0, <1>1, <2>1, <2>2, <2>3, <3>1
  <2>5. \E p \in Int : rgb_next' - rgb_now' - rgb_ahead' = p * RgbRange
    <3>1. q - k \in Int
      OBVIOUS
    <3> QED
      BY <2>4, <3>1, Zenon
  <2>6. rgb_ahead >= -RgbLate
    BY DEF RgbTimeInv
  <2>7. rgb_ahead' >= -RgbLate /\ rgb_ahead' < RgbRange \div 2
    BY <2>1, <2>2, <2>6
  <2> QED
    BY <2>2, <2>5, <2>7 DEF RgbTimeInv
<1>6. ASSUME NEW d \in Int, RgbMove(d)
      PROVE  RgbTimeInv'
  <2>1. /\ rgb_now' = RgbInt(rgb_now + d) /\ rgb_ahead' = rgb_ahead - d /\ rgb_next' = rgb_next
        /\ rgb_ahead - d >= -RgbLate /\ rgb_ahead - d < RgbRange \div 2 /\ rgb_pc' = rgb_pc
    BY <1>6 DEF RgbMove
  <2>2. PICK k \in Int : rgb_now' = (rgb_now + d) - k * RgbRange
    <3>1. rgb_now + d \in Int
      BY <1>1
    <3> QED
      BY <1>1, <2>1, <3>1, Zenon
  <2>3. rgb_next' - rgb_now' - rgb_ahead' = (q + k) * RgbRange
    <3>1. (q + k) * RgbRange = q * RgbRange + k * RgbRange
      OBVIOUS
    <3>2. rgb_next \in Int /\ rgb_now \in Int /\ k * RgbRange \in Int /\ q * RgbRange \in Int
      BY <1>1
    <3>3. rgb_next - ((rgb_now + d) - k * RgbRange) - (rgb_ahead - d)
            = (rgb_next - rgb_now - rgb_ahead) + k * RgbRange
      BY ONLY <3>2, rgb_ahead \in Int, d \in Int
    <3> QED
      BY <1>0, <2>1, <2>2, <3>1, <3>3
  <2>4. \E p \in Int : rgb_next' - rgb_now' - rgb_ahead' = p * RgbRange
    <3>1. q + k \in Int
      OBVIOUS
    <3> QED
      BY <2>3, <3>1, Zenon
  <2> QED
    BY <2>1, <2>4 DEF RgbTimeInv
<1>7. CASE RgbTick
  <2>1. \E d \in Int : RgbMove(d)
    BY <1>7 DEF RgbTick
  <2> QED
    BY <1>6, <2>1, Zenon
<1>8. CASE RgbSet
  <2>1. \E d \in Int : RgbMove(d)
    BY <1>8 DEF RgbSet
  <2> QED
    BY <1>6, <2>1, Zenon
<1>9. CASE UNCHANGED rgbVars
  BY <1>9 DEF rgbVars, RgbTimeInv
<1> QED
  BY <1>2, <1>3, <1>4, <1>7, <1>8, <1>9 DEF RgbNext, RgbProgram

(* The clock signal, the strobe and the lamps, and what is on the pins when *)
(* a row is addressed.                                                     *)
LEMMA RgbPins ==
  ASSUME RgbNumbers, rgb_panel \in RgbPanels, rgb_got_sig \in BOOLEAN, RgbPinInv, RgbScanInv,
         [RgbNext]_rgbVars
  PROVE  rgb_panel' \in RgbPanels /\ RgbPinInv'
<1> DEFINE Fields == /\ rgb_panel.addr \in 0 .. RgbRows - 1
                     /\ rgb_panel.shift \in RgbRegisters /\ rgb_panel.latch \in RgbRegisters
<1>1. Fields
  BY Zenon DEF RgbPanels
<1>2. FALSE \in BOOLEAN /\ TRUE \in BOOLEAN /\ <<>> \in RgbCells
  BY DEF RgbCells
<1>3. CASE RgbStart \/ RgbWait \/ RgbSignal \/ RgbTick \/ RgbSet \/ UNCHANGED rgbVars
  <2>1. rgb_panel' = rgb_panel
    BY <1>3 DEF RgbStart, RgbWait, RgbSignal, RgbTick, RgbSet, RgbMove, rgbVars
  <2>2. CASE RgbStart \/ RgbWait
    <3>1. rgb_pc' = "display" /\ rgb_pc # "light"
      BY <2>2 DEF RgbStart, RgbWait, RgbStep
    <3> QED
      BY <2>1, <3>1 DEF RgbPinInv
  <2>3. CASE RgbSignal \/ RgbTick \/ RgbSet \/ UNCHANGED rgbVars
    <3>1. rgb_pc' = rgb_pc /\ rgb_row' = rgb_row
      BY <2>3 DEF RgbSignal, RgbTick, RgbSet, RgbMove, rgbVars
    <3> QED
      BY <2>1, <3>1 DEF RgbPinInv
  <2> QED
    BY <1>3, <2>2, <2>3
<1>4. CASE RgbDark
  <2>1. CASE rgb_got_sig
    <3>1. rgb_pc = "display" /\ rgb_pc' = "off" /\ rgb_panel' = rgb_panel
      BY <1>4, <2>1, Zenon DEF RgbDark
    <3> QED
      BY <3>1 DEF RgbPinInv
  <2>2. CASE ~rgb_got_sig
    <3>1. rgb_pc' = "row" /\ RgbPortA(FALSE, TRUE, FALSE, <<>>)
      BY <1>4, <2>2, Zenon DEF RgbDark
    <3>2. rgb_panel' \in RgbPanels /\ rgb_panel'.sto = FALSE /\ rgb_panel'.oe = TRUE
      BY <1>2, <3>1, PortAWrites, Zenon
    <3> QED
      BY <3>1, <3>2 DEF RgbPinInv
  <2> QED
    BY <2>1, <2>2
<1>5. CASE RgbAddress
  <2>1. /\ rgb_pc = "row" /\ rgb_pc' = "latch" /\ rgb_row' = rgb_row
        /\ rgb_panel' = [rgb_panel EXCEPT !.addr = rgb_row]
    BY <1>5 DEF RgbAddress, RgbStep
  <2>2. rgb_row \in 0 .. RgbRows - 1
    BY DEF RgbNumbers
  <2>3. rgb_panel' \in RgbPanels
    BY <2>1, <2>2, Zenon DEF RgbPanels
  <2>4. rgb_panel'.addr = rgb_row /\ rgb_panel'.oe = rgb_panel.oe /\ rgb_panel'.sto = rgb_panel.sto
    BY <2>1, Zenon DEF RgbPanels
  <2>5. ~rgb_panel.sto /\ rgb_panel.oe
    BY <2>1 DEF RgbPinInv
  <2> QED
    BY <2>1, <2>3, <2>4, <2>5 DEF RgbPinInv
<1>6. CASE RgbLatch
  <2>1. rgb_pc = "latch" /\ rgb_pc' = "light" /\ rgb_row' = rgb_row /\ RgbPortA(TRUE, TRUE, FALSE, <<>>)
    BY <1>6, Zenon DEF RgbLatch, RgbStep
  <2>2. rgb_panel' \in RgbPanels /\ rgb_panel'.oe = TRUE /\ rgb_panel'.addr = rgb_panel.addr
    BY <1>2, <2>1, PortAWrites, Zenon
  <2> QED
    BY <2>1, <2>2 DEF RgbPinInv
<1>7. CASE RgbLight
  <2>1. rgb_pc = "light" /\ rgb_pc' = "plan" /\ rgb_row' = rgb_row /\ RgbPortA(FALSE, FALSE, FALSE, <<>>)
    BY <1>7, Zenon DEF RgbLight, RgbStep
  <2>2. rgb_panel' \in RgbPanels /\ rgb_panel'.sto = FALSE /\ rgb_panel'.addr = rgb_panel.addr
    BY <1>2, <2>1, PortAWrites, Zenon
  <2> QED
    BY <2>1, <2>2 DEF RgbPinInv
<1>8. CASE RgbPlan
  <2>1. rgb_pc = "plan" /\ rgb_pc' = "column" /\ rgb_panel' = rgb_panel
    BY <1>8 DEF RgbPlan, RgbStep
  <2> QED
    BY <2>1 DEF RgbPinInv
<1>9. CASE RgbColumn
  <2>1. rgb_pc' = "clock" /\ RgbPortA(FALSE, FALSE, FALSE, <<>>)
    BY <1>9, Zenon DEF RgbColumn, RgbStep
  <2>2. rgb_panel' \in RgbPanels /\ rgb_panel'.sto = FALSE /\ rgb_panel'.clk = FALSE
    BY <1>2, <2>1, PortAWrites, Zenon
  <2> QED
    BY <2>1, <2>2 DEF RgbPinInv
<1>10. CASE RgbShift
  <2>1. rgb_pc' \in {"column", "wait"} /\ RgbPortA(FALSE, FALSE, TRUE, RgbLine(rgb_scanbuf, rgb_row, rgb_bit)[rgb_i])
    BY <1>10 DEF RgbShift
  <2>2. RgbLine(rgb_scanbuf, rgb_row, rgb_bit)[rgb_i] \in RgbCells
    <3>1. RgbLine(rgb_scanbuf, rgb_row, rgb_bit) \in RgbRegisters
      BY LinesAreRegisters, Zenon DEF RgbNumbers
    <3> QED
      BY <3>1, Zenon DEF RgbNumbers, RgbRegisters
  <2>3. rgb_panel' \in RgbPanels /\ rgb_panel'.sto = FALSE
    BY <1>2, <2>1, <2>2, PortAWrites, Zenon
  <2> QED
    BY <2>1, <2>3 DEF RgbPinInv
<1>11. CASE RgbOff
  <2>1. rgb_pc' = "done" /\ rgb_panel' = [rgb_panel EXCEPT !.sto = FALSE, !.oe = TRUE, !.clk = FALSE, !.addr = 0]
    BY <1>11, Zenon DEF RgbOff, RgbStep
  <2>2. 0 \in 0 .. RgbRows - 1
    BY RgbConstants
  <2>3. rgb_panel' \in RgbPanels
    BY <1>2, <2>1, <2>2, Zenon DEF RgbPanels
  <2>4. rgb_panel'.sto = FALSE
    BY <2>1, Zenon DEF RgbPanels
  <2> QED
    BY <2>1, <2>3, <2>4 DEF RgbPinInv
<1> QED
  BY <1>3, <1>4, <1>5, <1>6, <1>7, <1>8, <1>9, <1>10, <1>11 DEF RgbNext, RgbProgram

(* Of the lit row: it follows the plane whose line the panel holds.        *)
RgbFollowed ==
  \/ rgb_panel.latch = RgbNoise
  \/ \E frame \in 0 .. RgbFrames - 1, row \in 0 .. RgbRows - 1, bit \in 0 .. RgbBits - 1 :
        RgbShown(frame, row, bit) /\ (rgb_pc \notin {"row", "latch"} => rgb_panel.addr = row)

(* A step that leaves the place in the scan, the latch and the addressed   *)
(* row leaves what they say of each other.                                 *)
LEMMA RgbStillFollowed ==
  ASSUME RgbFollowed, UNCHANGED <<rgb_row, rgb_bit, rgb_frame>>,
         rgb_panel'.latch = rgb_panel.latch,
         \/ rgb_pc' \in {"row", "latch"}
         \/ rgb_pc' = rgb_pc /\ rgb_panel'.addr = rgb_panel.addr
         \/ rgb_pc \notin {"row", "latch"} /\ rgb_panel'.addr = rgb_panel.addr
  PROVE  RgbFollowed'
<1>1. CASE rgb_panel.latch = RgbNoise
  BY <1>1 DEF RgbFollowed, RgbNoise
<1>2. ASSUME NEW frame \in 0 .. RgbFrames - 1, NEW row \in 0 .. RgbRows - 1, NEW bit \in 0 .. RgbBits - 1,
             RgbShown(frame, row, bit), rgb_pc \notin {"row", "latch"} => rgb_panel.addr = row
      PROVE  RgbFollowed'
  <2>1. RgbShown(frame, row, bit)'
    BY <1>2, Zenon DEF RgbShown, RgbFollows, RgbLine
  <2>2. rgb_pc' \notin {"row", "latch"} => rgb_panel'.addr = row
    BY <1>2
  <2> QED
    BY <2>1, <2>2, Zenon DEF RgbFollowed
<1> QED
  BY <1>1, <1>2, Zenon DEF RgbFollowed

(* Columns 1 to i of a line are the last ones of a register.               *)
RgbHolds(s, line, i) == \A k \in 1 .. i : s[RgbCols - i + k] = line[k]

(* A column that is clocked in takes its place behind those before it; the *)
(* last one completes the line.                                            *)
LEMMA RgbColumnIn ==
  ASSUME NEW line \in RgbRegisters, NEW shift \in RgbRegisters, NEW i \in 1 .. RgbCols,
         \A k \in 1 .. i - 1 : shift[RgbCols - i + 1 + k] = line[k],
         NEW s, s = Append(Tail(shift), line[i])
  PROVE  /\ RgbHolds(s, line, i)
         /\ i = RgbCols => s = line
<1>1. line[i] \in RgbCells
  BY Zenon DEF RgbRegisters
<1>2. s \in RgbRegisters /\ s[RgbCols] = line[i] /\ \A k \in 1 .. RgbCols - 1 : s[k] = shift[k + 1]
  <2>1. shift \in [1 .. RgbCols -> RgbCells] /\ RgbCols \in Nat \ {0}
    BY RgbConstants DEF RgbRegisters
  <2>2. s \in [1 .. RgbCols -> RgbCells] /\ RgbShifted(s, shift, line[i], RgbCols)
    BY <1>1, <2>1, ShiftIn, Zenon
  <2> QED
    BY <2>2, Zenon DEF RgbRegisters, RgbShifted
<1>3. ASSUME NEW k \in 1 .. i
      PROVE  s[RgbCols - i + k] = line[k]
  <2>1. CASE k = i
    <3>1. RgbCols - i + k = RgbCols
      BY <2>1, RgbConstants
    <3> QED
      BY <1>2, <2>1, <3>1, Zenon
  <2>2. CASE k # i
    <3>1. k \in 1 .. i - 1 /\ RgbCols - i + k \in 1 .. RgbCols - 1 /\ (RgbCols - i + k) + 1 = RgbCols - i + 1 + k
      BY <2>2, RgbConstants
    <3>2. s[RgbCols - i + k] = shift[(RgbCols - i + k) + 1]
      BY <1>2, <3>1, Zenon
    <3>3. shift[RgbCols - i + 1 + k] = line[k]
      BY <3>1, Zenon
    <3> QED
      BY <3>1, <3>2, <3>3, Zenon
  <2> QED
    BY <2>1, <2>2
<1>4. ASSUME i = RgbCols
      PROVE  s = line
  <2>1. \A k \in 1 .. RgbCols : s[k] = line[k]
    <3> SUFFICES ASSUME NEW k \in 1 .. RgbCols
                 PROVE  s[k] = line[k]
      OBVIOUS
    <3>1. RgbCols - i + k = k /\ k \in 1 .. i
      BY <1>4, RgbConstants
    <3>2. s[RgbCols - i + k] = line[k]
      BY <1>3, <3>1, Zenon
    <3> QED
      BY <3>1, <3>2, Zenon
  <2>2. s = [k \in 1 .. RgbCols |-> s[k]] /\ line = [k \in 1 .. RgbCols |-> line[k]]
    BY <1>2, Zenon DEF RgbRegisters
  <2>3. [k \in 1 .. RgbCols |-> s[k]] = [k \in 1 .. RgbCols |-> line[k]]
    BY <2>1, Zenon
  <2> QED
    BY <2>2, <2>3, Zenon
<1> QED
  BY <1>3, <1>4 DEF RgbHolds

(* The line that is planned next follows the one that is lit.              *)
LEMMA RgbPlanned ==
  ASSUME NEW frame \in 0 .. RgbFrames - 1, NEW row \in 0 .. RgbRows - 1, NEW bit \in 0 .. RgbBits - 1,
         rgb_panel'.latch = RgbLine(frame, row, bit), rgb_panel'.addr = row,
         rgb_bit' = (bit + 1) % RgbBits,
         rgb_row' = (IF bit = RgbBits - 1 THEN (row + 1) % RgbRows ELSE row),
         rgb_frame' = (IF bit = RgbBits - 1 /\ row = RgbRows - 1 THEN (frame + 1) % RgbFrames ELSE frame)
  PROVE  RgbFollowed'
<1>1. RgbFollows(frame, row, bit)'
  BY DEF RgbFollows
<1>2. RgbShown(frame, row, bit)'
  BY <1>1, Zenon DEF RgbShown, RgbLine
<1> QED
  BY <1>2, Zenon DEF RgbFollowed

(* While a line is sent the addressed row is that of the latched one.      *)
LEMMA RgbLitWhole ==
  ASSUME RgbFollowed, rgb_pc \notin {"row", "latch"},
         rgb_panel'.latch = rgb_panel.latch, rgb_panel'.addr = rgb_panel.addr
  PROVE  LitLineIsWhole'
<1>1. \/ rgb_panel.latch = RgbNoise
      \/ \E frame \in 0 .. RgbFrames - 1, bit \in 0 .. RgbBits - 1 :
            rgb_panel.latch = RgbLine(frame, rgb_panel.addr, bit)
  BY Zenon DEF RgbFollowed, RgbShown
<1> QED
  BY <1>1, Zenon DEF LitLineIsWhole, RgbNoise, RgbLine

(* Every step keeps what the registers hold along the scan, and what a lit *)
(* row shows.                                                              *)
LEMMA RgbScans ==
  ASSUME RgbNumbers, rgb_panel \in RgbPanels, rgb_got_sig \in BOOLEAN, RgbPinInv, RgbScanInv, LitLineIsWhole,
         [RgbNext]_rgbVars
  PROVE  RgbScanInv' /\ LitLineIsWhole'
<1> DEFINE shift == rgb_panel.shift
           latch == rgb_panel.latch
<1>0. /\ FALSE \in BOOLEAN /\ TRUE \in BOOLEAN /\ <<>> \in RgbCells
      /\ RgbNoise' = RgbNoise /\ RgbHere' = RgbLine(rgb_frame', rgb_row', rgb_bit')
  BY DEF RgbCells, RgbNoise, RgbHere, RgbLine
<1>1. rgb_pc \in {"column", "clock", "wait", "display", "row", "latch"} => RgbFollowed
  BY DEF RgbScanInv, RgbFollowed
<1>2. /\ rgb_frame \in 0 .. RgbFrames - 1 /\ rgb_row \in 0 .. RgbRows - 1 /\ rgb_bit \in 0 .. RgbBits - 1
      /\ RgbHere \in RgbRegisters /\ RgbHere # RgbNoise
  BY LinesAreRegisters DEF RgbNumbers, RgbHere
<1>3. CASE RgbSignal \/ RgbTick \/ RgbSet \/ UNCHANGED rgbVars
  <2>1. UNCHANGED <<rgb_pc, rgb_i, rgb_row, rgb_bit, rgb_frame, rgb_scanbuf, rgb_panel>>
    BY <1>3 DEF RgbSignal, RgbTick, RgbSet, RgbMove, rgbVars
  <2> QED
    <3>1. RgbHere' = RgbHere
      BY <2>1, Zenon DEF RgbHere, RgbLine
    <3>2. rgb_panel'.latch = latch /\ rgb_panel'.addr = rgb_panel.addr /\ rgb_pc' = rgb_pc
      BY <2>1, Zenon
    <3>3. RgbFollowed => RgbFollowed'
      BY <2>1, <3>2, RgbStillFollowed
    <3>4. LitLineIsWhole'
      BY <2>1, ZenonT(60) DEF LitLineIsWhole, RgbLine, RgbNoise
    <3>5. RgbScanInv'
      BY <1>0, <1>1, <2>1, <3>1, <3>2, <3>3 DEF RgbScanInv, RgbFollowed
    <3> QED
      BY <3>4, <3>5
<1>4. CASE RgbStart
  <2>1. /\ rgb_pc = "start" /\ rgb_pc' = "display" /\ rgb_panel' = rgb_panel
        /\ UNCHANGED <<rgb_scanbuf, rgb_frame>>
    BY <1>4 DEF RgbStart, RgbStep
  <2>2. shift = RgbNoise /\ latch = RgbNoise
    BY <2>1 DEF RgbScanInv
  <2> QED
    BY <1>0, <2>1, <2>2 DEF RgbScanInv, LitLineIsWhole
<1>5. CASE RgbDark
  <2>1. CASE rgb_got_sig
    <3>1. rgb_pc' = "off" /\ UNCHANGED <<rgb_scanbuf, rgb_frame, rgb_panel>>
      BY <1>5, <2>1 DEF RgbDark
    <3> QED
      BY <1>0, <3>1 DEF RgbScanInv, LitLineIsWhole, RgbLine
  <2>2. CASE ~rgb_got_sig
    <3>1. /\ rgb_pc = "display" /\ rgb_pc' = "row" /\ UNCHANGED <<rgb_scanbuf, rgb_frame, rgb_row, rgb_bit>>
          /\ RgbPortA(FALSE, TRUE, FALSE, <<>>)
      BY <1>5, <2>2, Zenon DEF RgbDark
    <3>2. rgb_panel'.shift = shift /\ rgb_panel'.latch = latch /\ rgb_panel'.oe = TRUE
      BY <1>0, <3>1, PortAWrites, Zenon
    <3>3. RgbFollowed'
      BY <1>1, <3>1, <3>2, RgbStillFollowed
    <3>4. RgbHere' = RgbHere
      BY <3>1, Zenon DEF RgbHere, RgbLine
    <3>5. \/ shift = RgbHere
          \/ shift = RgbNoise /\ latch = RgbNoise
      BY <3>1 DEF RgbScanInv
    <3>6. rgb_scanbuf' = rgb_frame'
      BY <3>1 DEF RgbScanInv
    <3>7. LitLineIsWhole'
      BY <3>2, Zenon DEF LitLineIsWhole
    <3> QED
      BY <1>0, <3>1, <3>2, <3>3, <3>4, <3>5, <3>6, <3>7 DEF RgbScanInv, RgbFollowed
  <2> QED
    BY <2>1, <2>2
<1>6. CASE RgbAddress
  <2>1. /\ rgb_pc = "row" /\ rgb_pc' = "latch" /\ UNCHANGED <<rgb_scanbuf, rgb_frame, rgb_row, rgb_bit>>
        /\ rgb_panel' = [rgb_panel EXCEPT !.addr = rgb_row]
    BY <1>6 DEF RgbAddress, RgbStep
  <2>2. rgb_panel'.shift = shift /\ rgb_panel'.latch = latch /\ rgb_panel'.oe = rgb_panel.oe
    BY <2>1, Zenon DEF RgbPanels
  <2>3. rgb_panel.oe
    BY <2>1 DEF RgbPinInv
  <2>4. RgbFollowed'
    BY <1>1, <2>1, <2>2, RgbStillFollowed
  <2>5. RgbHere' = RgbHere
    BY <2>1, Zenon DEF RgbHere, RgbLine
  <2>6. /\ shift = RgbHere \/ (shift = RgbNoise /\ latch = RgbNoise)
        /\ rgb_scanbuf' = rgb_frame'
    BY <2>1 DEF RgbScanInv
  <2>7. LitLineIsWhole'
    BY <2>2, <2>3, Zenon DEF LitLineIsWhole
  <2> QED
    BY <1>0, <2>1, <2>2, <2>4, <2>5, <2>6, <2>7 DEF RgbScanInv, RgbFollowed
<1>7. CASE RgbLatch
  <2>1. /\ rgb_pc = "latch" /\ rgb_pc' = "light" /\ UNCHANGED <<rgb_scanbuf, rgb_frame, rgb_row, rgb_bit>>
        /\ RgbPortA(TRUE, TRUE, FALSE, <<>>)
    BY <1>7, Zenon DEF RgbLatch, RgbStep
  <2>2. ~rgb_panel.sto
    BY <2>1 DEF RgbPinInv
  <2>3. rgb_panel'.latch = shift /\ rgb_panel'.oe = TRUE
    BY <1>0, <2>1, <2>2, PortAWrites, Zenon
  <2>4. RgbHere' = RgbHere
    BY <2>1, Zenon DEF RgbHere, RgbLine
  <2>5. shift \in {RgbHere, RgbNoise} /\ rgb_scanbuf' = rgb_frame'
    BY <2>1 DEF RgbScanInv
  <2>6. LitLineIsWhole'
    BY <2>3, Zenon DEF LitLineIsWhole
  <2> QED
    BY <1>0, <2>1, <2>3, <2>4, <2>5, <2>6 DEF RgbScanInv
<1>8. CASE RgbLight
  <2>1. /\ rgb_pc = "light" /\ rgb_pc' = "plan" /\ UNCHANGED <<rgb_scanbuf, rgb_frame, rgb_row, rgb_bit>>
        /\ RgbPortA(FALSE, FALSE, FALSE, <<>>)
    BY <1>8, Zenon DEF RgbLight, RgbStep
  <2>2. rgb_panel'.latch = latch /\ rgb_panel'.addr = rgb_panel.addr
    BY <1>0, <2>1, PortAWrites, Zenon
  <2>3. rgb_panel.addr = rgb_row
    BY <2>1 DEF RgbPinInv
  <2>4. RgbHere' = RgbHere
    BY <2>1, Zenon DEF RgbHere, RgbLine
  <2>5. latch \in {RgbHere, RgbNoise} /\ rgb_scanbuf' = rgb_frame'
    BY <2>1 DEF RgbScanInv
  <2>6. LitLineIsWhole'
    <3>1. rgb_panel'.latch # RgbNoise => rgb_panel'.latch = RgbLine(rgb_frame, rgb_panel'.addr, rgb_bit)
      BY <2>2, <2>3, <2>5 DEF RgbHere
    <3> QED
      BY <1>0, <1>2, <3>1, Zenon DEF LitLineIsWhole, RgbLine
  <2> QED
    BY <1>0, <2>1, <2>2, <2>4, <2>5, <2>6 DEF RgbScanInv
<1>9. CASE RgbPlan
  <2>1. /\ rgb_pc = "plan" /\ rgb_pc' = "column" /\ rgb_i' = 1 /\ rgb_panel' = rgb_panel
        /\ rgb_scanbuf' = rgb_frame'
        /\ rgb_bit' = (rgb_bit + 1) % RgbBits
        /\ rgb_row' = IF rgb_bit = RgbBits - 1 THEN (rgb_row + 1) % RgbRows ELSE rgb_row
        /\ rgb_frame' = IF rgb_bit = RgbBits - 1 /\ rgb_row = RgbRows - 1
                        THEN (rgb_frame + 1) % RgbFrames ELSE rgb_frame
    BY <1>9 DEF RgbPlan, RgbStep
  <2>2. latch \in {RgbHere, RgbNoise}
    BY <2>1 DEF RgbScanInv
  <2>3. rgb_panel.addr = rgb_row
    BY <2>1 DEF RgbPinInv
  <2>4. RgbFollowed'
    <3>1. CASE latch = RgbNoise
      BY <1>0, <2>1, <3>1 DEF RgbFollowed
    <3>2. CASE latch = RgbHere
      <4>1. rgb_panel'.latch = RgbLine(rgb_frame, rgb_row, rgb_bit) /\ rgb_panel'.addr = rgb_row
        BY <2>1, <2>3, <3>2 DEF RgbHere
      <4> QED
        BY <1>2, <2>1, <4>1, RgbPlanned, Zenon
    <3> QED
      BY <2>2, <3>1, <3>2
  <2>5. LitLineIsWhole'
    BY <2>1, ZenonT(60) DEF LitLineIsWhole, RgbLine, RgbNoise
  <2>6. \A k \in 1 .. rgb_i' - 1 : rgb_panel'.shift[RgbCols - rgb_i' + 1 + k] = RgbHere'[k]
    BY <2>1
  <2> QED
    BY <1>0, <2>1, <2>4, <2>5, <2>6 DEF RgbScanInv, RgbFollowed
<1>10. CASE RgbColumn
  <2>1. /\ rgb_pc = "column" /\ rgb_pc' = "clock" /\ UNCHANGED <<rgb_scanbuf, rgb_frame, rgb_row, rgb_bit, rgb_i>>
        /\ RgbPortA(FALSE, FALSE, FALSE, <<>>)
    BY <1>10, Zenon DEF RgbColumn, RgbStep
  <2>2. rgb_panel'.shift = shift /\ rgb_panel'.latch = latch /\ rgb_panel'.addr = rgb_panel.addr
    BY <1>0, <2>1, PortAWrites, Zenon
  <2>3. RgbFollowed'
    BY <1>1, <2>1, <2>2, RgbStillFollowed
  <2>4. RgbHere' = RgbHere
    BY <2>1, Zenon DEF RgbHere, RgbLine
  <2>5. /\ \A k \in 1 .. rgb_i - 1 : shift[RgbCols - rgb_i + 1 + k] = RgbHere[k]
        /\ rgb_scanbuf' = rgb_frame'
    BY <2>1 DEF RgbScanInv
  <2>6. LitLineIsWhole'
    BY <1>1, <2>1, <2>2, RgbLitWhole
  <2> QED
    BY <1>0, <2>1, <2>2, <2>3, <2>4, <2>5, <2>6 DEF RgbScanInv, RgbFollowed
<1>11. CASE RgbShift
  <2>1. /\ rgb_pc = "clock" /\ UNCHANGED <<rgb_scanbuf, rgb_frame, rgb_row, rgb_bit>>
        /\ RgbPortA(FALSE, FALSE, TRUE, RgbLine(rgb_scanbuf, rgb_row, rgb_bit)[rgb_i])
        /\ IF rgb_i < RgbCols THEN rgb_i' = rgb_i + 1 /\ rgb_pc' = "column" ELSE rgb_pc' = "wait"
    BY <1>11, Zenon DEF RgbShift
  <2>2. /\ \A k \in 1 .. rgb_i - 1 : shift[RgbCols - rgb_i + 1 + k] = RgbHere[k]
        /\ rgb_scanbuf = rgb_frame /\ rgb_scanbuf' = rgb_frame'
    BY <2>1 DEF RgbScanInv
  <2>3. RgbLine(rgb_scanbuf, rgb_row, rgb_bit)[rgb_i] = RgbHere[rgb_i] /\ RgbHere[rgb_i] \in RgbCells
    BY <1>2, <2>2, Zenon DEF RgbHere, RgbRegisters, RgbNumbers
  <2>4. ~rgb_panel.clk
    BY <2>1 DEF RgbPinInv
  <2>5. /\ rgb_panel'.shift = Append(Tail(shift), RgbHere[rgb_i])
        /\ rgb_panel'.latch = latch /\ rgb_panel'.addr = rgb_panel.addr
    BY <1>0, <2>1, <2>3, <2>4, PortAWrites, Zenon
  <2>6. shift \in RgbRegisters /\ rgb_i \in 1 .. RgbCols
    BY Zenon DEF RgbPanels, RgbNumbers
  <2>7. /\ \A k \in 1 .. rgb_i : rgb_panel'.shift[RgbCols - rgb_i + k] = RgbHere[k]
        /\ rgb_i = RgbCols => rgb_panel'.shift = RgbHere
    <3>1. RgbHolds(rgb_panel'.shift, RgbHere, rgb_i) /\ (rgb_i = RgbCols => rgb_panel'.shift = RgbHere)
      BY <1>2, <2>2, <2>5, <2>6, RgbColumnIn, ZenonT(60)
    <3> QED
      BY <3>1 DEF RgbHolds
  <2>8. RgbFollowed'
    BY <1>1, <2>1, <2>5, RgbStillFollowed
  <2>9. RgbHere' = RgbHere
    BY <2>1, Zenon DEF RgbHere, RgbLine
  <2>10. LitLineIsWhole'
    BY <1>1, <2>1, <2>5, RgbLitWhole
  <2>11. CASE rgb_i < RgbCols
    <3>1. /\ rgb_pc' = "column" /\ rgb_i' - 1 = rgb_i
          /\ \A k \in 1 .. rgb_i : RgbCols - rgb_i' + 1 + k = RgbCols - rgb_i + k
      BY <2>1, <2>6, <2>11, RgbConstants
    <3>2. \A k \in 1 .. rgb_i' - 1 : rgb_panel'.shift[RgbCols - rgb_i' + 1 + k] = RgbHere[k]
      BY <2>7, <2>11, <3>1, Zenon
    <3> QED
      BY <1>0, <2>2, <2>8, <2>9, <2>10, <3>1, <3>2 DEF RgbScanInv, RgbFollowed
  <2>12. CASE ~(rgb_i < RgbCols)
    <3>1. rgb_pc' = "wait" /\ rgb_i = RgbCols
      BY <2>1, <2>6, <2>12, RgbConstants
    <3> QED
      BY <1>0, <2>2, <2>7, <2>8, <2>9, <2>10, <3>1 DEF RgbScanInv, RgbFollowed
  <2> QED
    BY <2>11, <2>12
<1>12. CASE RgbWait
  <2>1. /\ rgb_pc = "wait" /\ rgb_pc' = "display" /\ rgb_panel' = rgb_panel
        /\ UNCHANGED <<rgb_scanbuf, rgb_frame, rgb_row, rgb_bit>>
    BY <1>12 DEF RgbWait, RgbStep
  <2>2. rgb_panel'.latch = latch /\ rgb_panel'.addr = rgb_panel.addr
    BY <2>1, Zenon
  <2>3. RgbFollowed'
    BY <1>1, <2>1, <2>2, RgbStillFollowed
  <2>4. RgbHere' = RgbHere
    BY <2>1, Zenon DEF RgbHere, RgbLine
  <2>5. /\ shift = RgbHere \/ (shift = RgbNoise /\ latch = RgbNoise)
        /\ rgb_scanbuf' = rgb_frame'
    BY <2>1 DEF RgbScanInv
  <2>6. LitLineIsWhole'
    BY <2>1, ZenonT(60) DEF LitLineIsWhole, RgbLine, RgbNoise
  <2> QED
    BY <1>0, <2>1, <2>3, <2>4, <2>5, <2>6 DEF RgbScanInv, RgbFollowed
<1>13. CASE RgbOff
  <2>1. /\ rgb_pc' = "done" /\ UNCHANGED <<rgb_scanbuf, rgb_frame>>
        /\ rgb_panel' = [rgb_panel EXCEPT !.sto = FALSE, !.oe = TRUE, !.clk = FALSE, !.addr = 0]
    BY <1>13, Zenon DEF RgbOff, RgbStep
  <2>2. rgb_panel'.oe = TRUE
    BY <2>1, Zenon DEF RgbPanels
  <2>3. LitLineIsWhole' /\ rgb_scanbuf' = rgb_frame'
    BY <2>1, <2>2, Zenon DEF LitLineIsWhole, RgbScanInv
  <2> QED
    BY <2>1, <2>3 DEF RgbScanInv
<1> QED
  BY <1>3, <1>4, <1>5, <1>6, <1>7, <1>8, <1>9, <1>10, <1>11, <1>12, <1>13 DEF RgbNext, RgbProgram

(* The scan starts with the invariant and keeps it.                        *)
LEMMA RgbInvariant == RgbSpec => []RgbInv
<1>1. RgbInit => RgbInv
  <2> SUFFICES ASSUME RgbInit
               PROVE  RgbInv
    OBVIOUS
  <2> USE RgbConstants DEF RgbInit
  <2>1. 0 \in 0 .. RgbRows - 1 /\ RgbNoise \in RgbRegisters /\ FALSE \in BOOLEAN
    <3>1. <<>> \in RgbCells
      BY DEF RgbCells
    <3> QED
      BY <3>1 DEF RgbNoise, RgbRegisters
  <2>2. rgb_panel = [clk |-> FALSE, sto |-> FALSE, oe |-> FALSE, addr |-> 0, shift |-> RgbNoise, latch |-> RgbNoise]
    BY DEF RgbInit
  <2>3. rgb_panel \in RgbPanels
    <3> HIDE DEF RgbInit
    <3> QED
      BY <2>1, <2>2, Zenon DEF RgbPanels
  <2>4. rgb_panel.sto = FALSE /\ rgb_panel.shift = RgbNoise /\ rgb_panel.latch = RgbNoise
    BY <2>2
  <2>5. RgbNumbers
    BY DEF RgbNumbers
  <2>6. RgbScanInv /\ RgbPinInv /\ LitLineIsWhole
    BY <2>4 DEF RgbScanInv, RgbPinInv, LitLineIsWhole
  <2>7. RgbTimeInv
    <3>1. rgb_next \in Int /\ rgb_next = rgb_now /\ rgb_ahead = 0
      BY DEF RgbInts
    <3>2. rgb_next - rgb_now - rgb_ahead = 0 * RgbRange
      BY <3>1
    <3> QED
      BY <3>1, <3>2 DEF RgbTimeInv
  <2>8. rgb_got_sig \in BOOLEAN
    BY <2>1, Zenon
  <2> QED
    BY <2>3, <2>5, <2>6, <2>7, <2>8 DEF RgbInv
<1>2. RgbInv /\ [RgbNext]_rgbVars => RgbInv'
  <2> SUFFICES ASSUME RgbInv, [RgbNext]_rgbVars
               PROVE  RgbInv'
    OBVIOUS
  <2>1. rgb_got_sig' \in BOOLEAN
    <3>1. rgb_got_sig' = rgb_got_sig \/ rgb_got_sig' = TRUE
      BY DEF RgbNext, RgbProgram, RgbStart, RgbDark, RgbAddress, RgbLatch, RgbLight, RgbPlan, RgbColumn, RgbShift,
             RgbWait, RgbOff, RgbSignal, RgbTick, RgbSet, RgbMove, rgbClock, rgbVars
    <3> QED
      BY <3>1, Zenon DEF RgbInv
  <2> QED
    BY <2>1, RgbCounters, RgbTimes, RgbPins, RgbScans DEF RgbInv
<1> QED
  BY <1>1, <1>2, PTL DEF RgbSpec

(* The driver's counters, ints and registers stay in their types, for any  *)
(* panel, number of bit planes and width of the int.                       *)
THEOREM RgbTypeCorrect == RgbSpec => []RgbTypeOK
<1>1. RgbInv => RgbTypeOK
  <2> SUFFICES ASSUME RgbInv
               PROVE  RgbTypeOK
    OBVIOUS
  <2>1. rgb_panel.addr \in 0 .. RgbRows - 1 /\ rgb_panel.shift \in RgbRegisters /\ rgb_panel.latch \in RgbRegisters
    BY Zenon DEF RgbInv, RgbPanels
  <2>2. \A r \in RgbRegisters : Len(r) = RgbCols
    BY RgbConstants DEF RgbRegisters
  <2>3. Len(rgb_panel.shift) = RgbCols /\ Len(rgb_panel.latch) = RgbCols
    BY <2>1, <2>2, Zenon
  <2>4. rgb_got_sig \in BOOLEAN /\ RgbNumbers
    BY Zenon DEF RgbInv
  <2>5. {rgb_frame, rgb_scanbuf} \subseteq 0 .. RgbFrames - 1 /\ {rgb_next, rgb_now} \subseteq RgbInts
    BY <2>4 DEF RgbNumbers
  <2> QED
    BY <2>1, <2>3, <2>4, <2>5, Zenon DEF RgbTypeOK, RgbNumbers
<1> QED
  BY <1>1, RgbInvariant, PTL

(* A lit row shows one whole line, of that row.                            *)
THEOREM LitLinesAreWhole == RgbSpec => []LitLineIsWhole
<1>1. RgbInv => LitLineIsWhole
  BY DEF RgbInv
<1> QED
  BY <1>1, RgbInvariant, PTL

(* The lines are latched in the order of the scan, none twice and none     *)
(* left out, and each is lit for the time of its own bit.                  *)
THEOREM RgbScansInOrder == RgbSpec => ScansInOrder
<1> DEFINE latch == rgb_panel.latch
           InOrder == RgbPlace(rgb_panel'.latch[1]) = (RgbPlace(latch[1]) + 1) % (RgbFrames * RgbRows * RgbBits)
           OwnTime == RgbInt(rgb_next' - rgb_next) = RgbOn(latch[1][3])
           Ordered == latch # RgbNoise => /\ rgb_panel'.latch # latch => InOrder
                                          /\ rgb_pc = "plan" /\ rgb_next' # rgb_next => OwnTime
<1>1. ASSUME RgbInv, [RgbNext]_rgbVars
      PROVE  Ordered
  <2> SUFFICES ASSUME latch # RgbNoise
               PROVE  /\ rgb_panel'.latch # latch => InOrder
                      /\ rgb_pc = "plan" /\ rgb_next' # rgb_next => OwnTime
    OBVIOUS
  <2>1. RgbNumbers /\ rgb_panel \in RgbPanels /\ FALSE \in BOOLEAN /\ TRUE \in BOOLEAN /\ <<>> \in RgbCells
    BY <1>1, Zenon DEF RgbInv, RgbCells
  <2>2. CASE RgbLatch
    <3>1. rgb_pc = "latch" /\ rgb_pc # "plan" /\ RgbPortA(TRUE, TRUE, FALSE, <<>>)
      BY <2>2, Zenon DEF RgbLatch, RgbStep
    <3>2. ~rgb_panel.sto /\ rgb_panel.shift = RgbHere
      BY <1>1, <3>1 DEF RgbInv, RgbPinInv, RgbScanInv
    <3>3. rgb_panel'.latch = RgbHere
      BY <2>1, <3>1, <3>2, PortAWrites, Zenon
    <3>4. PICK frame \in 0 .. RgbFrames - 1, row \in 0 .. RgbRows - 1, bit \in 0 .. RgbBits - 1 :
             RgbShown(frame, row, bit)
      BY <1>1, <3>1 DEF RgbInv, RgbScanInv
    <3>5. latch[1] = <<frame, row, bit, 1>>
      BY <3>4, LinesAreRegisters, Zenon DEF RgbShown
    <3>6. rgb_panel'.latch[1] = <<rgb_frame, rgb_row, rgb_bit, 1>>
      BY <2>1, <3>3, LinesAreRegisters, Zenon DEF RgbHere, RgbNumbers
    <3>7. InOrder
      BY <2>1, <3>4, <3>5, <3>6, PlaceFollows, Zenon DEF RgbShown
    <3> QED
      BY <3>1, <3>7
  <2>3. CASE RgbPlan
    <3>1. rgb_pc = "plan" /\ rgb_panel' = rgb_panel /\ rgb_next' = RgbInt(rgb_next + RgbOn(rgb_bit))
      BY <2>3 DEF RgbPlan, RgbStep
    <3>2. latch = RgbHere
      BY <1>1, <3>1 DEF RgbInv, RgbScanInv
    <3>3. latch[1] = <<rgb_frame, rgb_row, rgb_bit, 1>>
      BY <2>1, <3>2, LinesAreRegisters, Zenon DEF RgbHere, RgbNumbers
    <3>4. latch[1][3] = rgb_bit
      BY <3>3
    <3>5. RgbOn(rgb_bit) \in Int /\ RgbOn(rgb_bit) \in RgbInts /\ rgb_next \in Int
      BY <2>1, RgbConstants, RgbScheduleAssumption DEF RgbNumbers, RgbInts
    <3>6. RgbInt(rgb_next' - rgb_next) = RgbOn(rgb_bit)
      <4>1. PICK k \in Int : RgbInt(rgb_next + RgbOn(rgb_bit)) = (rgb_next + RgbOn(rgb_bit)) - k * RgbRange
        BY <3>5, IntHolds
      <4>2. k * RgbRange \in Int /\ (-k) * RgbRange = -(k * RgbRange) /\ -k \in Int
        BY RgbConstants
      <4>3. rgb_next' - rgb_next \in Int /\ (rgb_next' - rgb_next) - RgbOn(rgb_bit) = (-k) * RgbRange
        BY <3>1, <3>5, <4>1, <4>2
      <4> QED
        BY ONLY <3>5, <4>2, <4>3, IntComesBack
    <3> QED
      BY <3>1, <3>4, <3>6
  <2>4. CASE ~RgbLatch /\ ~RgbPlan
    <3>1. CASE RgbStart \/ RgbWait \/ RgbSignal \/ RgbTick \/ RgbSet \/ UNCHANGED rgbVars
      <4>1. rgb_panel' = rgb_panel /\ (rgb_pc = "plan" => rgb_next' = rgb_next)
        BY <3>1 DEF RgbStart, RgbWait, RgbSignal, RgbTick, RgbSet, RgbMove, rgbVars, RgbStep
      <4> QED
        BY <4>1
    <3>2. CASE RgbDark \/ RgbLight \/ RgbColumn
      <4>1. rgb_next' = rgb_next /\ (rgb_panel' = rgb_panel \/ \E oe \in BOOLEAN : RgbPortA(FALSE, oe, FALSE, <<>>))
        BY <3>2, <2>1, Zenon DEF RgbDark, RgbLight, RgbColumn
      <4>2. rgb_panel'.latch = latch
        BY <2>1, <4>1, PortAWrites, Zenon
      <4> QED
        BY <4>1, <4>2
    <3>3. CASE RgbShift
      <4>1. /\ rgb_next' = rgb_next
            /\ RgbPortA(FALSE, FALSE, TRUE, RgbLine(rgb_scanbuf, rgb_row, rgb_bit)[rgb_i])
        BY <3>3, Zenon DEF RgbShift
      <4>2. RgbLine(rgb_scanbuf, rgb_row, rgb_bit) \in RgbRegisters
        BY <2>1, LinesAreRegisters, Zenon DEF RgbNumbers
      <4>3. RgbLine(rgb_scanbuf, rgb_row, rgb_bit)[rgb_i] \in RgbCells
        BY <2>1, <4>2, Zenon DEF RgbNumbers, RgbRegisters
      <4>4. rgb_panel'.latch = latch
        BY <2>1, <4>1, <4>3, PortAWrites, Zenon
      <4> QED
        BY <4>1, <4>4
    <3>4. CASE RgbAddress
      <4>1. rgb_next' = rgb_next /\ rgb_panel' = [rgb_panel EXCEPT !.addr = rgb_row]
        BY <3>4 DEF RgbAddress
      <4>2. rgb_panel'.latch = latch
        BY <2>1, <4>1, Zenon DEF RgbPanels
      <4> QED
        BY <4>1, <4>2
    <3>5. CASE RgbOff
      <4>1. /\ rgb_next' = rgb_next
            /\ rgb_panel' = [rgb_panel EXCEPT !.sto = FALSE, !.oe = TRUE, !.clk = FALSE, !.addr = 0]
        BY <3>5, Zenon DEF RgbOff
      <4>2. rgb_panel'.latch = latch
        BY <2>1, <4>1, Zenon DEF RgbPanels
      <4> QED
        BY <4>1, <4>2
    <3> QED
      BY <1>1, <2>4, <3>1, <3>2, <3>3, <3>4, <3>5 DEF RgbNext, RgbProgram
  <2> QED
    BY <2>2, <2>3, <2>4
<1> QED
  BY <1>1, RgbInvariant, PTL DEF RgbSpec, ScansInOrder

(* A line is over when its time is over, while the difference of the two   *)
(* ints that are compared is an int; wherever they have wrapped before.    *)
THEOREM RgbWaitsForItsTime == RgbSpec => []WaitsForItsTime
<1>1. RgbInv => WaitsForItsTime
  <2> SUFFICES ASSUME RgbInv, rgb_next - rgb_now \in RgbInts
               PROVE  RgbTimeIsUp <=> rgb_ahead <= 0
    BY DEF WaitsForItsTime
  <2> DEFINE d == rgb_next - rgb_now
  <2>1. PICK q \in Int : rgb_next - rgb_now - rgb_ahead = q * RgbRange
    BY DEF RgbInv, RgbTimeInv
  <2>2. rgb_next \in Int /\ rgb_now \in Int /\ rgb_ahead \in Int
    BY RgbConstants DEF RgbInv, RgbNumbers, RgbInts
  <2>3. rgb_ahead \in RgbInts
    BY <2>2, RgbConstants DEF RgbInv, RgbTimeInv, RgbInts
  <2>4. d \in Int /\ d = rgb_ahead
    BY <2>1, <2>2, <2>3, IntsAreTheSame
  <2>5. RgbInt(d) = d
    <3>1. d - d = 0 * RgbRange
      BY <2>2, RgbConstants
    <3> QED
      BY <2>4, <3>1, IntComesBack
  <2> QED
    BY <2>2, <2>4, <2>5 DEF RgbTimeIsUp
<1> QED
  BY <1>1, RgbInvariant, PTL

-----------------------------------------------------------------------------
(* Camera: for any table of tracks, any unit, any fade, any frame times and*)
(* a clock that is set back any number of times.                           *)

(* The start and the end that are kept are those of a track of the table;  *)
(* before the first frame they are those of the first one.                 *)
PlaceInv ==
  /\ cam_track \in 1 .. Len(CamTracks)
  /\ cam_start = CamStarts[cam_track]
  /\ \/ cam_next = CamStarts[cam_track + 1]
     \/ /\ cam_next = CamNever /\ cam_track = 1
        /\ cam_now = 0 /\ cam_tick = 0 /\ cam_last = 0 /\ cam_gap = 0

(* The blurred clock is behind the real one by no more than the longest    *)
(* frame so far, and is in the track that is shown.                        *)
BlurInv ==
  cam_gap <= CamLen =>
    /\ cam_tick <= cam_last /\ cam_last - cam_tick <= cam_gap
    /\ cam_alive /\ cam_next # CamNever => cam_start <= cam_tick /\ cam_tick < cam_next

CamInv == CamTypeOK /\ PlaceInv /\ BlurInv

(* A track takes a unit at least, and its end is where the next one starts.*)
LEMMA TrackTakesAUnit ==
  ASSUME NEW k \in 1 .. Len(CamTracks)
  PROVE  /\ CamStarts[k] \in Nat /\ CamStarts[k + 1] \in Nat
         /\ CamStarts[k] <= CamRunLength /\ CamStarts[k + 1] <= CamRunLength
         /\ CamStarts[k + 1] = CamStarts[k] + CamLength(k) * CamLen
         /\ CamStarts[k + 1] >= CamStarts[k] + CamLen
<1>1. CamTracks[k] \in Nat \ {0} /\ CamLen \in Nat \ {0} /\ DOMAIN CamTracks = 1 .. Len(CamTracks)
  BY CamAssumption
<1>2. k \in 1 .. Len(CamTracks) + 1 /\ k + 1 \in 1 .. Len(CamTracks) + 1
  BY CamAssumption
<1>3. /\ CamStarts[k] \in Nat /\ CamStarts[k + 1] \in Nat
      /\ CamStarts[k] <= CamRunLength /\ CamStarts[k + 1] <= CamRunLength
  <2>1. CamRun * CamLen \in Nat /\ CamRunLength = CamRun * CamLen
    BY CamAssumption DEF CamRunLength
  <2>2. CamStarts[k] \in 0 .. CamRun * CamLen /\ CamStarts[k + 1] \in 0 .. CamRun * CamLen
    BY <1>2, CamAssumption
  <2> QED
    BY <2>1, <2>2
<1>4. CamStarts[k + 1] = CamStarts[k] + CamTracks[k] * CamLen
  BY CamAssumption
<1>5. CamTracks[k] * CamLen >= CamLen
  <2>1. \A n, l \in Nat \ {0} : n * l >= l
    OBVIOUS
  <2> QED
    BY <1>1, <2>1
<1>6. CamLength(k) = CamTracks[k]
  BY <1>1 DEF CamLength
<1> QED
  BY <1>1, <1>3, <1>4, <1>5, <1>6

(* The run is as long as the table, and is not over before it begins.      *)
LEMMA RunIsTheTable ==
  /\ CamRunLength \in Nat /\ CamRunLength = CamRun * CamLen
  /\ CamRunLength = CamStarts[Len(CamTracks) + 1]
  /\ Len(CamTracks) \in Nat \ {0} /\ CamStarts[1] = 0
  /\ CamMax \in Nat /\ CamLen \in Nat \ {0} /\ CamFadeLen \in 1 .. CamLen /\ CamBacks \in Nat
  /\ CamNever \in Nat /\ CamNever > CamRunLength /\ CamNever > CamMax
<1>1. Len(CamTracks) \in Nat \ {0}
  BY CamAssumption
<1>2. CamStarts[Len(CamTracks) + 1] \in Nat
  BY <1>1, CamAssumption
<1> QED
  BY <1>1, <1>2, CamAssumption DEF CamRunLength, CamNever

(* A clock that was before a track's end goes no further past it than it   *)
(* goes; the provers want such facts about numbers, not variables.         *)
LEMMA PastTheEnd ==
  ASSUME NEW t \in Int, NEW u \in Int, NEW n \in Int, NEW g \in Int, NEW l \in Int, t < n, u - t <= g
  PROVE  /\ g < l => u - n < l
         /\ g <= l => u < n + l
OBVIOUS

(* What halving does to the distance.                                      *)
LEMMA HalfWay ==
  ASSUME NEW t \in Int, NEW l \in Int, NEW n \in Int, NEW u \in Int, NEW g \in Int, NEW h \in Int,
         t <= l, l - t <= g, 0 <= n - l, n - l <= h, g <= h, 2 * u <= t + n, t + n <= 2 * u + 1
  PROVE  t <= u /\ u - t <= h /\ u <= n /\ n - u <= h
OBVIOUS

(* Comparing through a third number.                                       *)
LEMMA LessThroughEqual ==
  ASSUME NEW a \in Int, NEW b \in Int, NEW c \in Int, b <= c
  PROVE  a <= b => a <= c
OBVIOUS

(* The nearer of two ends.                                                 *)
LEMMA NearerEnd ==
  ASSUME NEW a \in Int, NEW b \in Int, NEW f \in Int, a < f
  PROVE  (IF a < b THEN a ELSE b) < f
OBVIOUS

(* Half of the way to the time is between the two. *)
LEMMA BlurIsBetween ==
  ASSUME cam_tick \in Int, cam_now \in Int
  PROVE  /\ CamBlur \in Int
         /\ 2 * CamBlur <= cam_tick + cam_now /\ cam_tick + cam_now <= 2 * CamBlur + 1
BY DEF CamBlur

(* The demo starts at the first track, with no frame drawn. *)
LEMMA CamInitInv == CamInit => CamInv
<1> SUFFICES ASSUME CamInit PROVE CamInv
  OBVIOUS
<1>1. 1 \in 1 .. Len(CamTracks)
  BY RunIsTheTable
<1> QED
  BY <1>1, RunIsTheTable DEF CamInit, CamInv, CamTypeOK, PlaceInv, BlurInv

(* A frame goes at most one track further, and never past the last one: a  *)
(* blurred clock behind the end of the last track ends the demo instead.   *)
LEMMA FrameKeepsPlace ==
  ASSUME CamInv, CamFrame
  PROVE  CamTypeOK' /\ PlaceInv'
<1> USE DEF CamInv
<1>1. cam_tick' \in Int /\ cam_tick' <= CamMax
  BY BlurIsBetween, RunIsTheTable DEF CamFrame, CamTypeOK
<1>2. /\ cam_last' = cam_now /\ cam_gap' \in 0 .. CamLen + 1
      /\ cam_now' = cam_now /\ cam_backs' = cam_backs
  BY RunIsTheTable DEF CamFrame, CamCounted, CamTypeOK
<1>3. CASE cam_tick' >= CamRunLength
  <2>1. cam_next # CamNever
    <3>1. ~(cam_tick = 0 /\ cam_now = 0)
      <4>1. CamStarts[Len(CamTracks) + 1] >= CamStarts[Len(CamTracks)] + CamLen
        BY TrackTakesAUnit, RunIsTheTable
      <4>2. CamStarts[Len(CamTracks)] \in Nat
        BY TrackTakesAUnit, RunIsTheTable
      <4>3. CamRunLength > 0
        BY <4>1, <4>2, RunIsTheTable
      <4>4. CamBlur > 0
        <5>1. CamBlur >= CamRunLength /\ CamBlur \in Int
          BY <1>3, BlurIsBetween DEF CamFrame, CamTypeOK
        <5> QED
          BY <4>3, <5>1, RunIsTheTable
      <4> QED
        BY <4>4, BlurIsBetween
    <3> QED
      BY <3>1, TrackTakesAUnit, RunIsTheTable DEF PlaceInv
  <2>2. UNCHANGED <<cam_track, cam_start, cam_next>> /\ cam_alive' = FALSE
    <3>1. cam_tick' >= CamRun * CamLen
      BY <1>3, RunIsTheTable
    <3> QED
      BY <3>1 DEF CamFrame
  <2> QED
    BY <1>1, <1>2, <2>1, <2>2 DEF CamTypeOK, PlaceInv
<1>4. CASE cam_tick' < CamRunLength
  <2>1. CamTrack(cam_tick') /\ cam_alive' = cam_alive
    <3>1. ~(cam_tick' >= CamRun * CamLen)
      BY <1>1, <1>4, RunIsTheTable
    <3> QED
      BY <3>1 DEF CamFrame
  <2>2. cam_track' \in 1 .. Len(CamTracks) /\ cam_start' = CamStarts[cam_track'] /\ cam_start' <= CamRunLength
    <3>1. CASE cam_next <= cam_tick'
      <4>1. cam_next = CamStarts[cam_track + 1] /\ cam_track # Len(CamTracks)
        BY <1>1, <1>4, <3>1, RunIsTheTable DEF PlaceInv, CamTypeOK
      <4>2. cam_track' = cam_track + 1 /\ cam_start' = cam_next
        BY <2>1, <3>1 DEF CamTrack
      <4> QED
        BY <1>1, <1>4, <3>1, <4>1, <4>2, RunIsTheTable DEF PlaceInv, CamTypeOK
    <3>2. CASE ~(cam_next <= cam_tick')
      BY <2>1, <3>2 DEF CamTrack, PlaceInv, CamTypeOK
    <3> QED
      BY <3>1, <3>2
  <2>3. cam_next' = CamStarts[cam_track' + 1] /\ cam_next' \in Nat /\ cam_start' \in Nat
    BY <2>1, <2>2, TrackTakesAUnit DEF CamTrack
  <2> QED
    BY <1>1, <1>2, <2>1, <2>2, <2>3, RunIsTheTable DEF CamTypeOK, PlaceInv
<1> QED
  BY <1>1, <1>3, <1>4, RunIsTheTable

(* What the new frame's blurred clock is, while frames are short.          *)
LEMMA ShortFrame ==
  ASSUME CamInv, CamFrame, cam_gap' <= CamLen
  PROVE  /\ cam_gap <= cam_gap' /\ cam_tick <= cam_tick' /\ cam_tick' - cam_tick <= cam_gap'
         /\ cam_tick' <= cam_last' /\ cam_last' - cam_tick' <= cam_gap'
<1> USE DEF CamInv
<1>1. /\ cam_tick \in Int /\ cam_now \in Int /\ cam_last \in Int
      /\ cam_gap \in Int /\ CamLen \in Int
  BY RunIsTheTable DEF CamTypeOK
<1>2. /\ 0 <= cam_now - cam_last /\ cam_now - cam_last <= cam_gap' /\ cam_gap <= cam_gap'
      /\ cam_gap' \in Int /\ cam_last' = cam_now
  BY <1>1, RunIsTheTable DEF CamFrame, CamCounted, CamTypeOK
<1>3. cam_tick <= cam_last /\ cam_last - cam_tick <= cam_gap
  BY <1>1, <1>2, RunIsTheTable DEF BlurInv
<1>4. /\ cam_tick' \in Int
      /\ 2 * cam_tick' <= cam_tick + cam_now /\ cam_tick + cam_now <= 2 * cam_tick' + 1
  BY <1>1, BlurIsBetween DEF CamFrame
<1>5. cam_last' = cam_now /\ cam_now \in Int
  BY <1>1, <1>2
<1>6. /\ cam_tick <= cam_tick' /\ cam_tick' - cam_tick <= cam_gap'
      /\ cam_tick' <= cam_now /\ cam_now - cam_tick' <= cam_gap'
  <2> SUFFICES ASSUME NEW t \in Int, NEW l \in Int, NEW n \in Int, NEW u \in Int,
                      NEW g \in Int, NEW h \in Int, t = cam_tick, l = cam_last, n = cam_now,
                      u = cam_tick', g = cam_gap, h = cam_gap'
               PROVE  t <= u /\ u - t <= h /\ u <= n /\ n - u <= h
    BY <1>1, <1>2, <1>4
  <2>1. /\ t <= l /\ l - t <= g /\ 0 <= n - l /\ n - l <= h /\ g <= h
        /\ 2 * u <= t + n /\ t + n <= 2 * u + 1
    BY <1>2, <1>3, <1>4
  <2> QED
    BY ONLY <2>1, t \in Int, l \in Int, n \in Int, u \in Int, g \in Int, h \in Int, HalfWay
<1> QED
  BY <1>2, <1>5, <1>6

(* While frames are short, the new blurred clock is in the new track.      *)
LEMMA FrameKeepsBlur ==
  ASSUME CamInv, CamFrame
  PROVE  BlurInv'
<1> SUFFICES ASSUME cam_gap' <= CamLen, cam_alive', cam_next' # CamNever
             PROVE  cam_start' <= cam_tick' /\ cam_tick' < cam_next'
  BY ShortFrame DEF BlurInv
<1>1. /\ cam_gap <= cam_gap' /\ cam_tick <= cam_tick' /\ cam_tick' - cam_tick <= cam_gap'
  BY ShortFrame
<1>2. /\ cam_tick \in Int /\ cam_gap \in Int /\ cam_start \in Int /\ cam_next \in Int
      /\ cam_tick' \in Int /\ cam_gap' \in Int /\ cam_start' \in Int /\ cam_next' \in Int
      /\ CamLen \in Int
  BY FrameKeepsPlace, RunIsTheTable DEF CamInv, CamTypeOK
<1>3. CamTrack(cam_tick') /\ cam_alive
  BY DEF CamFrame
<1>4. cam_next' >= cam_start' + CamLen
  <2>1. cam_track' \in 1 .. Len(CamTracks) /\ cam_start' = CamStarts[cam_track']
    BY FrameKeepsPlace DEF PlaceInv
  <2>2. cam_next' = cam_start' + CamLength(cam_track') * CamLen
    BY <1>3 DEF CamTrack
  <2> QED
    BY <2>1, <2>2, TrackTakesAUnit
<1>5. CASE cam_next = CamNever
  <2>1. cam_tick = 0 /\ cam_now = 0 /\ cam_track = 1 /\ cam_start = 0
    <3>1. CamStarts[cam_track + 1] # CamNever
      BY TrackTakesAUnit, RunIsTheTable DEF CamInv, PlaceInv
    <3> QED
      BY <1>5, <3>1, RunIsTheTable DEF CamInv, PlaceInv
  <2>2. cam_tick' = 0
    BY <1>2, <2>1, BlurIsBetween DEF CamFrame
  <2>3. cam_start' = 0
    BY <1>3, <1>5, <2>1, <2>2, RunIsTheTable DEF CamTrack
  <2> QED
    BY <1>2, <1>4, <2>2, <2>3, RunIsTheTable
<1>6. CASE cam_next # CamNever
  <2>1. cam_start <= cam_tick /\ cam_tick < cam_next
    BY <1>1, <1>2, <1>3, <1>6 DEF CamInv, BlurInv
  <2>2. CASE cam_next <= cam_tick'
    <3>1. cam_start' = cam_next
      BY <1>3, <2>2 DEF CamTrack
    <3>2. cam_tick' < cam_next + CamLen
      BY ONLY <1>1, <1>2, <2>1, PastTheEnd, cam_gap' <= CamLen
    <3> QED
      BY <1>2, <1>4, <2>2, <3>1, <3>2
  <2>3. CASE ~(cam_next <= cam_tick')
    <3>1. cam_start' = cam_start /\ cam_track' = cam_track
      BY <1>3, <2>3 DEF CamTrack
    <3>2. cam_next' = cam_next
      <4>1. cam_track \in 1 .. Len(CamTracks) /\ cam_next = CamStarts[cam_track + 1]
        BY <1>6 DEF CamInv, PlaceInv
      <4>2. cam_next' = cam_start + CamLength(cam_track) * CamLen
        BY <1>3, <3>1 DEF CamTrack
      <4> QED
        BY <4>1, <4>2, TrackTakesAUnit DEF CamInv, PlaceInv
    <3> QED
      BY <1>1, <1>2, <2>1, <2>3, <3>1, <3>2
  <2> QED
    BY <2>2, <2>3
<1> QED
  BY <1>5, <1>6

(* What is not a frame leaves the camera where it is. *)
LEMMA CamNextInv ==
  ASSUME CamInv, [CamNext]_camVars
  PROVE  CamInv'
<1>1. CASE CamFrame
  BY <1>1, FrameKeepsPlace, FrameKeepsBlur DEF CamInv
<1>2. CASE CamQuit
  BY <1>2 DEF CamQuit, CamInv, CamTypeOK, PlaceInv, BlurInv
<1>3. CASE CamClock
  BY <1>3, RunIsTheTable DEF CamClock, CamInv, CamTypeOK, PlaceInv, BlurInv, camView
<1>4. CASE CamSetBack
  BY <1>4, RunIsTheTable DEF CamSetBack, CamInv, CamTypeOK, PlaceInv, BlurInv, camView
<1>5. CASE UNCHANGED camVars
  BY <1>5 DEF camVars, CamInv, CamTypeOK, PlaceInv, BlurInv
<1> QED
  BY <1>1, <1>2, <1>3, <1>4, <1>5 DEF CamNext

(* Place and blur belong together from the first frame to the last.        *)
THEOREM CamInvariant == CamSpec => []CamInv
BY CamInitInv, CamNextInv, PTL DEF CamSpec

(* The camera's variables keep their types. *)
THEOREM CamTypeCorrect == CamSpec => []CamTypeOK
BY CamInvariant, PTL DEF CamInv

(* sCamTracks is never read past its end: camTrack() steps on by one track *)
(* a frame, and appRender() ends the demo before a step past the last one, *)
(* for any table, frame times and settings of the clock.                   *)
THEOREM TableIsNotLeft == CamSpec => []CameraInTable
<1>1. CamInv => CameraInTable
  BY CamAssumption DEF CamInv, PlaceInv, CameraInTable
<1> QED
  BY <1>1, CamInvariant, PTL

(* With no frame longer than a unit, what is shown is the track the time   *)
(* is in, although a frame never goes more than one track further.         *)
THEOREM TrackIsOfTheTick == CamSpec => []TrackOfTheTick
<1>1. CamInv => TrackOfTheTick
  BY DEF CamInv, BlurInv, TrackOfTheTick
<1> QED
  BY <1>1, CamInvariant, PTL

(* The camera jumps only in frames that are faded, for any table and any   *)
(* length of the fade up to a unit.                                        *)
THEOREM JumpsAreFaded == CamSpec => ChangesUnderFade
<1>1. ASSUME CamInv, CamInv', [CamNext]_camVars, cam_track' # cam_track, cam_gap' < CamFadeLen
      PROVE  CamFade' < CamFadeLen
  <2>1. CamFrame
    BY <1>1 DEF CamNext, CamQuit, CamClock, CamSetBack, camVars, camView
  <2>2. cam_tick' \in Int /\ cam_next' \in Int /\ cam_start' \in Int /\ cam_gap' \in Int
        /\ cam_tick \in Int /\ cam_gap \in Int /\ cam_next \in Int
        /\ CamLen \in Int /\ CamFadeLen \in Int /\ CamFadeLen <= CamLen
    BY <1>1, RunIsTheTable DEF CamInv, CamTypeOK
  <2>3. cam_gap' <= CamLen
    BY <1>1, <2>2
  <2>4. cam_gap <= CamLen /\ cam_tick <= cam_tick' /\ cam_tick' - cam_tick <= cam_gap'
    <3>1. cam_gap <= cam_gap' /\ cam_tick <= cam_tick' /\ cam_tick' - cam_tick <= cam_gap'
      BY <1>1, <2>1, <2>3, ShortFrame
    <3> QED
      BY ONLY <2>2, <2>3, <3>1, LessThroughEqual
  <2>5. CamTrack(cam_tick') /\ cam_alive /\ cam_next <= cam_tick' /\ cam_start' = cam_next
    BY <1>1, <2>1 DEF CamFrame, CamTrack
  <2>6. cam_next # CamNever
    BY <1>1, <2>2, <2>5, RunIsTheTable DEF CamInv, CamTypeOK
  <2>7. cam_tick < cam_next
    BY <1>1, <2>4, <2>5, <2>6 DEF CamInv, BlurInv
  <2>8. cam_tick' - cam_start' < CamFadeLen
    <3>1. cam_tick' - cam_next < CamFadeLen
      BY ONLY <1>1, <2>2, <2>4, <2>7, PastTheEnd
    <3> QED
      BY <2>5, <3>1
  <2>9. cam_tick' - cam_start' \in Int /\ cam_next' - cam_tick' \in Int
    BY <2>2
  <2> QED
    BY ONLY <2>2, <2>8, <2>9, NearerEnd DEF CamFade
<1> QED
  BY <1>1, CamInvariant, PTL DEF ChangesUnderFade, CamSpec

-----------------------------------------------------------------------------
(* All of them together: whichever program runs keeps its types, and the   *)
(* ones that do not run keep theirs.                                       *)
THEOREM DevicesTypeCorrect == DevSpec => []DevTypeOK
<1>1. DevInit => Init /\ RgbInit /\ ParkInit /\ DogInit /\ CamInit
  BY DEF DevInit
<1>2. [DevNext]_allVars => /\ [Next]_vars /\ [RgbNext]_rgbVars /\ [ParkNext]_parkVars
                           /\ [DogNext]_dogVars /\ [CamNext]_camVars
  <2> SUFFICES ASSUME [DevNext]_allVars
               PROVE  /\ [Next]_vars /\ [RgbNext]_rgbVars /\ [ParkNext]_parkVars
                      /\ [DogNext]_dogVars /\ [CamNext]_camVars
    OBVIOUS
  <2>1. CASE UNCHANGED allVars
    BY <2>1 DEF allVars
  <2>2. CASE DevNext
    BY <2>2, Zenon DEF DevNext, RunPcm, RunRgb, RunPark, RunDog, RunCam
  <2> QED
    BY <2>1, <2>2
<1>3. DevSpec => /\ Init /\ [][Next]_vars
                 /\ RgbSpec
                 /\ ParkInit /\ [][ParkNext]_parkVars
                 /\ DogInit /\ [][DogNext]_dogVars
                 /\ CamSpec
  BY <1>1, <1>2, PTL DEF DevSpec, RgbSpec, CamSpec
<1>4. ParkInv => ParkTypeOK
  BY DEF ParkInv
<1>5. DogInv => DogTypeOK
  BY DEF DogInv
<1>6. PcmInv => TypeOK
  BY DEF PcmInv
<1>7. TypeOK /\ RgbTypeOK /\ ParkTypeOK /\ DogTypeOK /\ CamTypeOK => DevTypeOK
  BY DEF DevTypeOK
<1> QED
  BY <1>3, <1>4, <1>5, <1>6, <1>7, PcmInvariant, RgbTypeCorrect, ParkInvariant, DogInvariant, CamTypeCorrect, PTL
=============================================================================

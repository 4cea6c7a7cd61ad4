----------------------------- MODULE Watchdog -----------------------------
(***************************************************************************)
(* The players that watch themselves, python-gst/test.py and test_gtk.py:  *)
(* once a second they look at the last sample of the sink, and quit when   *)
(* it has not changed for Limit checks.  test.py plays from its start and  *)
(* has no signal watch on the bus, so its on_message is never called;      *)
(* test_gtk.py plays when its button says so.  GLib and GStreamer are      *)
(* external: a timeout source fires once per second, a pipeline that is    *)
(* set to NULL has no last sample.                                         *)
(***************************************************************************)
EXTENDS Integers

CONSTANTS
  DogLimit,      (* checks without a new sample that are tolerated (60)    *)
  DogStarts      (* bound: how often Start is clicked                      *)

ASSUME DogAssumption == DogLimit \in Nat \ {0} /\ DogStarts \in Nat \ {0}

VARIABLES
  dog_gtk,         (* test_gtk.py, or test.py                              *)
  dog_label,       (* the button: "Start" or "Stop"                        *)
  dog_chains,      (* timeout sources that call check()                    *)
  dog_due,         (* those that fire in this second still                 *)
  dog_last,        (* last_pts is the pts of the sample that is there      *)
  dog_sample,      (* the sink has a last sample                           *)
  dog_not_running,
  dog_stream,      (* "null", "playing", or "over": EOS or an error        *)
  dog_quit,        (* the main loop is left with this status, or "no"      *)
  dog_seconds,     (* seconds without a new sample (history)               *)
  dog_overlap,     (* Start came before the old source had seen the stop   *)
  dog_starts

dogVars == <<dog_gtk, dog_label, dog_chains, dog_due, dog_last, dog_sample,
             dog_not_running, dog_stream, dog_quit, dog_seconds, dog_overlap, dog_starts>>
dogHistory == <<dog_seconds, dog_overlap, dog_starts>>

DogTypeOK ==
  /\ dog_gtk \in BOOLEAN /\ dog_label \in {"Start", "Stop"}
  /\ dog_chains \in 0 .. DogStarts /\ dog_due \in 0 .. dog_chains
  /\ dog_last \in BOOLEAN /\ dog_sample \in BOOLEAN
  /\ dog_not_running \in 0 .. DogLimit + 1
  /\ dog_stream \in {"null", "playing", "over"} /\ dog_quit \in {"no", "stalled"}
  /\ dog_seconds \in 0 .. DogLimit + 2 /\ dog_overlap \in BOOLEAN
  /\ dog_starts \in 0 .. DogStarts

\* test.py starts playing, and its check, in its constructor.
DogInit ==
  /\ dog_gtk \in BOOLEAN
  /\ dog_label = (IF dog_gtk THEN "Start" ELSE "Stop")
  /\ dog_chains = (IF dog_gtk THEN 0 ELSE 1) /\ dog_due = 0
  /\ dog_stream = (IF dog_gtk THEN "null" ELSE "playing")
  /\ dog_last = FALSE /\ dog_sample = FALSE /\ dog_not_running = 0
  /\ dog_quit = "no" /\ dog_seconds = 0 /\ dog_overlap = FALSE
  /\ dog_starts = (IF dog_gtk THEN 0 ELSE 1)

DogRuns == dog_quit = "no"

\* start_stop: there is no branch for a button that says "Stop".
DogClick ==
  /\ DogRuns /\ dog_gtk /\ dog_label = "Start" /\ dog_starts < DogStarts
  /\ dog_label' = "Stop" /\ dog_stream' = "playing"
  /\ dog_last' = FALSE /\ dog_not_running' = 0
  /\ dog_chains' = dog_chains + 1 /\ dog_starts' = dog_starts + 1
  /\ dog_seconds' = 0 /\ dog_overlap' = (dog_overlap \/ dog_chains > 0)
  /\ UNCHANGED <<dog_gtk, dog_due, dog_sample, dog_quit>>

\* Mutant: a new sample does not reset the count.
DogLookNoReset ==
  /\ dog_last' = TRUE /\ dog_not_running' = dog_not_running + 1
  /\ dog_quit' = IF dog_not_running' > DogLimit THEN "stalled" ELSE "no"

\* One look at the last sample: its pts is the last one, or a new one.
DogLook ==
  /\ dog_last' = TRUE
  /\ dog_not_running' = IF dog_last THEN dog_not_running + 1 ELSE 0
  /\ dog_quit' = IF dog_not_running' > DogLimit THEN "stalled" ELSE "no"

\* Mutant: the next check is only asked for when there is a sample.
DogAgainSampled == dog_label = "Stop" /\ dog_sample

\* A source fires once; the check asks for the next one, in test_gtk.py only
\* while the button says Stop.
DogAgain == dog_label = "Stop"

\* timeout_check, check
DogCheck ==
  /\ DogRuns /\ dog_due > 0 /\ dog_due' = dog_due - 1
  /\ dog_chains' = IF DogAgain THEN dog_chains ELSE dog_chains - 1
  /\ IF dog_label = "Stop" /\ dog_sample THEN DogLook
     ELSE UNCHANGED <<dog_last, dog_not_running, dog_quit>>
  /\ UNCHANGED <<dog_gtk, dog_label, dog_sample, dog_stream, dogHistory>>

\* on_message: EOS or ERROR.  Without a signal watch nobody is told.
DogMessage ==
  /\ DogRuns /\ dog_stream = "over" /\ dog_gtk
  /\ dog_stream' = "null" /\ dog_label' = "Start" /\ dog_sample' = FALSE /\ dog_last' = FALSE
  /\ UNCHANGED <<dog_gtk, dog_chains, dog_due, dog_not_running, dog_quit, dogHistory>>

(***************************************************************************)
(* The pipeline and the time                                               *)
(***************************************************************************)
DogSample ==
  /\ DogRuns /\ dog_stream = "playing" /\ dog_sample' = TRUE /\ dog_last' = FALSE
  /\ dog_seconds' = 0
  /\ UNCHANGED <<dog_gtk, dog_label, dog_chains, dog_due, dog_not_running, dog_stream,
                 dog_quit, dog_overlap, dog_starts>>

DogOver ==
  /\ DogRuns /\ dog_stream = "playing" /\ dog_stream' = "over"
  /\ UNCHANGED <<dog_gtk, dog_label, dog_chains, dog_due, dog_last, dog_sample,
                 dog_not_running, dog_quit, dogHistory>>

\* The sources of a second have all fired before those of the next do.
DogSecond ==
  /\ DogRuns /\ dog_due = 0 /\ dog_due' = dog_chains
  /\ dog_seconds' = IF dog_seconds > DogLimit + 1 THEN dog_seconds ELSE dog_seconds + 1
  /\ UNCHANGED <<dog_gtk, dog_label, dog_chains, dog_last, dog_sample, dog_not_running,
                 dog_stream, dog_quit, dog_overlap, dog_starts>>

DogNext == DogClick \/ DogCheck \/ DogMessage \/ DogSample \/ DogOver \/ DogSecond

\* The main loop runs its timers and handles the messages.
DogSpec == DogInit /\ [][DogNext]_dogVars /\ WF_dogVars(DogCheck) /\ WF_dogVars(DogSecond) /\ WF_dogVars(DogMessage)

(***************************************************************************)
(* Properties                                                              *)
(***************************************************************************)
\* A watchdog that quits has seen the stream stand still for more than the
\* limit in seconds, as it prints ("not running while seconds", test_gtk.py:84),
\* unless a second source was started beside an old one.
QuitsAfterTheLimit ==
  (dog_quit = "stalled" /\ ~dog_overlap) => dog_seconds > DogLimit

\* A stream that stands still on a sample is noticed, also when its end was
\* not: the checks go on, and the program quits.
StallIsNoticed ==
  <>[](dog_sample /\ dog_label = "Stop" /\ dog_stream # "null") =>
     <>(dog_quit = "stalled") \/ []<>(dog_seconds = 0)

=============================================================================

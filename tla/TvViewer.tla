----------------------------- MODULE TvViewer -----------------------------
(***************************************************************************)
(* tv/tv.py and tv/ch.py: keys step through a list of channels, and the    *)
(* channel's pipeline puts a decoder behind the first audio and the first  *)
(* video pad of the demultiplexer and links it to a pad of playsink.       *)
(* GStreamer is external: it adds and removes pads while the pipeline      *)
(* plays and while it is being stopped, and when set_state(NULL) returns   *)
(* the decoders' pads and then the demultiplexer's have all been removed.  *)
(***************************************************************************)
EXTENDS Integers, Sequences, FiniteSets

CONSTANTS
  TvAv,        (* {"audio", "video"}                                        *)
  TvIds,       (* numbers of the streams of one kind                        *)
  TvChannels,  (* ch.channels, sorted                                       *)
  TvShort      (* those that lack a property start() needs                  *)

\* Two channels that are equal would be one to ch.next.
ASSUME TvAssumption ==
  /\ IsFiniteSet(TvAv) /\ IsFiniteSet(TvIds) /\ TvAv # {} /\ TvIds # {}
  /\ Len(TvChannels) \in Nat \ {0} /\ DOMAIN TvChannels = 1 .. Len(TvChannels)
  /\ \A i, j \in DOMAIN TvChannels : TvChannels[i] = TvChannels[j] => i = j

TvNone == "none"

VARIABLES
  tv_state,        (* "null", "playing", "stopping" in set_state(NULL)      *)
  tv_again,        (* start() follows stop(): the channel is changed        *)
  tv_label,
  tv_pads,         (* pads of the demultiplexer                             *)
  tv_num,          (* demux_stream_num                                      *)
  tv_elements,     (* the pads with a queue and a decoder behind them       *)
  tv_dec,          (* those whose decoder has a source pad                  *)
  tv_playsink,     (* playsink_pads                                         *)
  tv_ch            (* chinfo                                                *)

tvVars == <<tv_state, tv_again, tv_label, tv_pads, tv_num, tv_elements, tv_dec, tv_playsink,
            tv_ch>>
tvPipe == <<tv_state, tv_again, tv_label, tv_ch>>
tvStreams == <<tv_pads, tv_num, tv_elements, tv_dec, tv_playsink>>

TvAll == {TvChannels[i] : i \in DOMAIN TvChannels}

TvPads == TvAv \X TvIds
TvOf(av, pads) == {p \in pads : p[1] = av}

TvTypeOK ==
  /\ tv_state \in {"null", "playing", "stopping"}
  /\ tv_again \in BOOLEAN /\ tv_label \in {"Start", "Stop"}
  /\ tv_pads \subseteq TvPads /\ tv_num \in [TvAv -> 0 .. 1]
  /\ tv_elements \subseteq tv_pads /\ tv_dec \subseteq tv_elements
  /\ tv_playsink \subseteq TvAv
  /\ tv_ch \in {TvNone} \cup TvAll

TvInit ==
  /\ tv_state = "null" /\ tv_again = FALSE /\ tv_label = "Start"
  /\ tv_pads = {} /\ tv_num = [av \in TvAv |-> 0]
  /\ tv_elements = {} /\ tv_dec = {} /\ tv_playsink = {}
  /\ tv_ch = TvNone

(***************************************************************************)
(* ch.py: next and prev, of no channel and past the ends of the list       *)
(***************************************************************************)
TvIndex(ch) == CHOOSE i \in DOMAIN TvChannels : TvChannels[i] = ch

TvChNext(ch) ==
  IF ch = TvNone THEN TvChannels[1]
  ELSE LET i == TvIndex(ch) + 1 IN TvChannels[IF i > Len(TvChannels) THEN 1 ELSE i]
TvChPrev(ch) ==
  IF ch = TvNone \/ TvIndex(ch) = 1 THEN TvChannels[Len(TvChannels)]
  ELSE TvChannels[TvIndex(ch) - 1]

(***************************************************************************)
(* start, stop, on_key_press and on_message, in the main loop              *)
(***************************************************************************)
\* start: the label is set first, and a property that is not there raises.
TvPlay(ch) ==
  /\ tv_ch' = ch
  /\ tv_label' = "Stop"
  /\ tv_state' = (IF ch \in TvShort THEN "null" ELSE "playing")

TvStart ==
  /\ tv_state = "null" /\ tv_label = "Start"
  /\ TvPlay(IF tv_ch = TvNone THEN TvChNext(TvNone) ELSE tv_ch)
  /\ UNCHANGED <<tv_again, tvStreams>>

\* The button; the end of the stream and an error do the same while it plays.
TvStop ==
  /\ tv_label = "Stop" /\ tv_state \in {"null", "playing"}
  /\ tv_label' = "Start" /\ tv_state' = "stopping" /\ tv_again' = FALSE
  /\ UNCHANGED <<tvStreams, tv_ch>>

\* Down, and Up: the channel is stepped first, then stop and start.
TvKey ==
  /\ tv_state \in {"null", "playing"}
  /\ tv_ch' \in {TvChNext(tv_ch), TvChPrev(tv_ch)}
  /\ tv_label' = "Start" /\ tv_state' = "stopping" /\ tv_again' = TRUE
  /\ UNCHANGED tvStreams

\* set_state(NULL) returns when everything has been taken down.
TvStopped ==
  /\ tv_state = "stopping" /\ tv_pads = {} /\ tv_dec = {} /\ tv_again' = FALSE
  /\ IF tv_again THEN TvPlay(tv_ch) ELSE tv_state' = "null" /\ UNCHANGED <<tv_label, tv_ch>>
  /\ UNCHANGED tvStreams

(***************************************************************************)
(* demux_pad_added: a second stream of a kind is skipped.  A streaming     *)
(* thread may still add a pad while set_state(NULL) stops the others.      *)
(***************************************************************************)
\* Mutant: the number is not looked at.
TvDemuxPadAddedAll ==
  /\ tv_state \in {"playing", "stopping"}
  /\ \E p \in TvPads \ tv_pads :
       /\ tv_pads' = tv_pads \cup {p}
       /\ tv_num' = [tv_num EXCEPT ![p[1]] = @ + 1]
       /\ tv_elements' = tv_elements \cup {p}
  /\ UNCHANGED <<tvPipe, tv_dec, tv_playsink>>

TvDemuxPadAdded ==
  /\ tv_state \in {"playing", "stopping"}
  /\ \E p \in TvPads \ tv_pads :
       /\ tv_pads' = tv_pads \cup {p}
       /\ IF tv_num[p[1]] > 0 THEN UNCHANGED <<tv_num, tv_elements>>
          ELSE /\ tv_num' = [tv_num EXCEPT ![p[1]] = @ + 1]
               /\ tv_elements' = tv_elements \cup {p}
  /\ UNCHANGED <<tvPipe, tv_dec, tv_playsink>>

\* Mutant: the pad is released and its key is kept.
TvReleaseKeeps(dec) ==
  /\ tv_dec' = tv_dec \ dec
  /\ UNCHANGED tv_playsink

\* dec_pad_removed, also called from where a decoder is set to NULL
TvRelease(dec) ==
  /\ tv_dec' = tv_dec \ dec
  /\ tv_playsink' = tv_playsink \ {p[1] : p \in dec}

\* Mutant: the stream is not counted down.
TvDemuxPadRemovedCounted ==
  /\ tv_state = "playing" \/ (tv_state = "stopping" /\ tv_dec = {})
  /\ \E p \in tv_pads :
       /\ tv_pads' = tv_pads \ {p} /\ tv_elements' = tv_elements \ {p}
       /\ TvRelease({p} \cap tv_dec)
  /\ UNCHANGED <<tvPipe, tv_num>>

\* demux_pad_removed: a pad that was skipped has no elements.  Decoders lose
\* their pads first when the whole pipeline is stopped.
TvDemuxPadRemoved ==
  /\ tv_state = "playing" \/ (tv_state = "stopping" /\ tv_dec = {})
  /\ \E p \in tv_pads :
       /\ tv_pads' = tv_pads \ {p}
       /\ IF p \in tv_elements
          THEN /\ tv_elements' = tv_elements \ {p}
               /\ tv_num' = [tv_num EXCEPT ![p[1]] = @ - 1]
               /\ TvRelease({p} \cap tv_dec)
          ELSE UNCHANGED <<tv_elements, tv_num, tv_dec, tv_playsink>>
  /\ UNCHANGED tvPipe

TvDecPadAdded ==
  /\ tv_state \in {"playing", "stopping"}
  /\ \E p \in tv_elements \ tv_dec :
       /\ tv_dec' = tv_dec \cup {p} /\ tv_playsink' = tv_playsink \cup {p[1]}
  /\ UNCHANGED <<tvPipe, tv_pads, tv_num, tv_elements>>

TvDecPadRemoved ==
  /\ tv_state \in {"playing", "stopping"}
  /\ \E p \in tv_dec : TvRelease({p})
  /\ UNCHANGED <<tvPipe, tv_pads, tv_num, tv_elements>>

TvNext == TvStart \/ TvStop \/ TvKey \/ TvStopped \/ TvDemuxPadAdded \/ TvDemuxPadRemoved
       \/ TvDecPadAdded \/ TvDecPadRemoved

TvSpec == TvInit /\ [][TvNext]_tvVars

(***************************************************************************)
(* Properties                                                              *)
(***************************************************************************)
\* One decoder of a kind is in the pipeline at most, as their names must be
\* distinct, and demux_stream_num counts it however pads come and go.
OneDecoderOfAKind ==
  \A av \in TvAv : Cardinality(TvOf(av, tv_elements)) = tv_num[av] /\ tv_num[av] <= 1

\* playsink has a requested pad of a kind exactly while a decoder feeds it, so
\* the key that is released is always there and none is left over.
PlaysinkIsFed == tv_playsink = {p[1] : p \in tv_dec}

=============================================================================

---------------------------- MODULE DesktopProofs ----------------------------
(***************************************************************************)
(* What is proved of the TV viewer, the window, the shared memory and the  *)
(* tar lister, for every value of their constants.                         *)
(***************************************************************************)
EXTENDS MCDesktop, SequenceLemmas

-----------------------------------------------------------------------------
(* TvViewer: of a kind there is at most one stream with elements, which is *)
(* what its number counts, and playsink's pads are of decoders.            *)
TvInv ==
  /\ TvTypeOK
  /\ \A p, q \in tv_elements : p[1] = q[1] => p = q
  /\ \A av \in TvAv : tv_num[av] = IF \E p \in tv_elements : p[1] = av THEN 1 ELSE 0
  /\ PlaysinkIsFed

(* Stepping through the list stays in it.                                  *)
LEMMA TvChannelsStep ==
  ASSUME NEW ch \in {TvNone} \cup TvAll
  PROVE  TvChNext(ch) \in TvAll /\ TvChPrev(ch) \in TvAll
<1>1. \A i \in 1 .. Len(TvChannels) : TvChannels[i] \in TvAll
  BY TvAssumption DEF TvAll
<1>2. CASE ch = TvNone
  BY <1>1, <1>2, TvAssumption DEF TvChNext, TvChPrev
<1>3. CASE ch # TvNone
  <2>1. TvIndex(ch) \in DOMAIN TvChannels
    BY <1>3 DEF TvIndex, TvAll
  <2>2. TvIndex(ch) \in 1 .. Len(TvChannels) /\ Len(TvChannels) \in Nat
    BY <2>1, TvAssumption
  <2> HIDE DEF TvAll
  <2>3. TvChNext(ch) \in TvAll
    BY <1>1, <1>3, <2>2 DEF TvChNext
  <2>4. TvChPrev(ch) \in TvAll
    BY <1>1, <1>3, <2>2 DEF TvChPrev
  <2> QED
    BY <2>3, <2>4
<1> QED
  BY <1>2, <1>3

(* Keys, the button and the main loop: the streams stay as they are.       *)
LEMMA TvKeys ==
  ASSUME TvInv, TvStart \/ TvStop \/ TvKey \/ TvStopped
  PROVE  TvInv'
<1>1. UNCHANGED tvStreams
  BY DEF TvStart, TvStop, TvKey, TvStopped
<1>2. tv_ch' \in {TvNone} \cup TvAll
  <2>1. tv_ch \in {TvNone} \cup TvAll /\ TvNone \in {TvNone} \cup TvAll
    BY DEF TvInv, TvTypeOK
  <2>2. TvChNext(TvNone) \in TvAll /\ TvChNext(tv_ch) \in TvAll /\ TvChPrev(tv_ch) \in TvAll
    BY <2>1, TvChannelsStep
  <2> HIDE DEF TvAll
  <2> QED
    BY <2>1, <2>2 DEF TvStart, TvStop, TvKey, TvStopped, TvPlay
<1>3. tv_state' \in {"null", "playing", "stopping"} /\ tv_label' \in {"Start", "Stop"}
  BY DEF TvStart, TvStop, TvKey, TvStopped, TvPlay, TvInv, TvTypeOK
<1>4. tv_again' \in BOOLEAN
  BY Zenon DEF TvStart, TvStop, TvKey, TvStopped, TvInv, TvTypeOK
<1> QED
  BY <1>1, <1>2, <1>3, <1>4, Zenon DEF TvInv, TvTypeOK, PlaysinkIsFed, tvStreams

(* The demultiplexer adds a pad: the first of its kind gets the elements.  *)
LEMMA TvAdds ==
  ASSUME TvInv, TvDemuxPadAdded
  PROVE  TvInv'
<1>1. UNCHANGED <<tvPipe, tv_dec, tv_playsink>>
  BY DEF TvDemuxPadAdded
<1>2. PICK p \in TvPads \ tv_pads :
         /\ tv_pads' = tv_pads \cup {p}
         /\ IF tv_num[p[1]] > 0 THEN UNCHANGED <<tv_num, tv_elements>>
            ELSE tv_num' = [tv_num EXCEPT ![p[1]] = @ + 1] /\ tv_elements' = tv_elements \cup {p}
  BY DEF TvDemuxPadAdded
<1>3. p[1] \in TvAv
  BY DEF TvPads
<1>4. CASE tv_num[p[1]] > 0
  <2>1. UNCHANGED <<tv_num, tv_elements>> /\ tv_pads' \subseteq TvPads /\ tv_elements \subseteq tv_pads'
    BY <1>2, <1>4 DEF TvInv, TvTypeOK
  <2> QED
    BY <1>1, <2>1, Zenon DEF TvInv, TvTypeOK, PlaysinkIsFed, tvPipe
<1>5. CASE ~(tv_num[p[1]] > 0)
  <2>1. tv_num' = [tv_num EXCEPT ![p[1]] = @ + 1] /\ tv_elements' = tv_elements \cup {p}
    BY <1>2, <1>5
  <2>2. tv_num[p[1]] = 0 /\ \A q \in tv_elements : q[1] # p[1]
    BY <1>3, <1>5 DEF TvInv
  <2>3. /\ \A av \in TvAv : tv_num'[av] = IF \E q \in tv_elements' : q[1] = av THEN 1 ELSE 0
        /\ tv_num' \in [TvAv -> 0 .. 1]
    BY <1>3, <2>1, <2>2 DEF TvInv, TvTypeOK
  <2>4. \A q, r \in tv_elements' : q[1] = r[1] => q = r
    BY <2>1, <2>2 DEF TvInv
  <2>5. tv_pads' \subseteq TvPads /\ tv_elements' \subseteq tv_pads' /\ tv_dec' \subseteq tv_elements'
    BY <1>1, <1>2, <2>1 DEF TvInv, TvTypeOK
  <2> QED
    BY <1>1, <2>3, <2>4, <2>5, Zenon DEF TvInv, TvTypeOK, PlaysinkIsFed, tvPipe
<1> QED
  BY <1>4, <1>5

(* A decoder that is released takes playsink's pad of its kind with it,    *)
(* which no other one feeds.                                               *)
LEMMA TvReleases ==
  ASSUME TvInv, NEW dec \in SUBSET tv_dec, TvRelease(dec)
  PROVE  PlaysinkIsFed' /\ tv_playsink' \subseteq TvAv
<1>1. tv_dec' = tv_dec \ dec /\ tv_playsink' = tv_playsink \ {p[1] : p \in dec}
  BY DEF TvRelease
<1>2. \A p, q \in tv_dec : p[1] = q[1] => p = q
  BY DEF TvInv, TvTypeOK
<1>3. tv_playsink = {p[1] : p \in tv_dec} /\ tv_playsink \subseteq TvAv
  BY DEF TvInv, TvTypeOK, PlaysinkIsFed
<1> QED
  BY <1>1, <1>2, <1>3 DEF PlaysinkIsFed

(* The demultiplexer removes a pad, with the elements it has.              *)
LEMMA TvRemoves ==
  ASSUME TvInv, TvDemuxPadRemoved
  PROVE  TvInv'
<1>1. UNCHANGED tvPipe
  BY DEF TvDemuxPadRemoved
<1>2. PICK p \in tv_pads :
         /\ tv_pads' = tv_pads \ {p}
         /\ IF p \in tv_elements
            THEN /\ tv_elements' = tv_elements \ {p}
                 /\ tv_num' = [tv_num EXCEPT ![p[1]] = @ - 1]
                 /\ TvRelease({p} \cap tv_dec)
            ELSE UNCHANGED <<tv_elements, tv_num, tv_dec, tv_playsink>>
  BY DEF TvDemuxPadRemoved
<1>3. p[1] \in TvAv
  BY DEF TvPads, TvInv, TvTypeOK
<1>4. CASE p \notin tv_elements
  <2>1. /\ UNCHANGED <<tv_elements, tv_num, tv_dec, tv_playsink>>
        /\ tv_pads' \subseteq TvPads /\ tv_elements \subseteq tv_pads'
    BY <1>2, <1>4 DEF TvInv, TvTypeOK
  <2> QED
    BY <1>1, <2>1, Zenon DEF TvInv, TvTypeOK, PlaysinkIsFed, tvPipe
<1>5. CASE p \in tv_elements
  <2>1. /\ tv_elements' = tv_elements \ {p}
        /\ tv_num' = [tv_num EXCEPT ![p[1]] = @ - 1]
        /\ TvRelease({p} \cap tv_dec)
    BY <1>2, <1>5
  <2>2. tv_num[p[1]] = 1 /\ \A q \in tv_elements' : q[1] # p[1]
    BY <1>3, <1>5, <2>1 DEF TvInv
  <2>3. /\ \A av \in TvAv : tv_num'[av] = IF \E q \in tv_elements' : q[1] = av THEN 1 ELSE 0
        /\ tv_num' \in [TvAv -> 0 .. 1]
    BY <1>3, <2>1, <2>2 DEF TvInv, TvTypeOK
  <2>4. \A q, r \in tv_elements' : q[1] = r[1] => q = r
    BY <2>1 DEF TvInv
  <2>5. PlaysinkIsFed' /\ tv_playsink' \subseteq TvAv
    BY <2>1, TvReleases
  <2>6. tv_pads' \subseteq TvPads /\ tv_elements' \subseteq tv_pads' /\ tv_dec' \subseteq tv_elements'
    BY <1>2, <2>1 DEF TvInv, TvTypeOK, TvRelease
  <2> QED
    BY <1>1, <2>3, <2>4, <2>5, <2>6, Zenon DEF TvInv, TvTypeOK, tvPipe
<1> QED
  BY <1>4, <1>5

(* A decoder adds and removes its pad.                                     *)
LEMMA TvDecodes ==
  ASSUME TvInv, TvDecPadAdded \/ TvDecPadRemoved
  PROVE  TvInv'
<1>1. UNCHANGED <<tvPipe, tv_pads, tv_num, tv_elements>>
  BY DEF TvDecPadAdded, TvDecPadRemoved
<1>2. CASE TvDecPadAdded
  <2>1. PICK p \in tv_elements \ tv_dec :
           tv_dec' = tv_dec \cup {p} /\ tv_playsink' = tv_playsink \cup {p[1]}
    BY <1>2 DEF TvDecPadAdded
  <2>2. p[1] \in TvAv
    BY DEF TvPads, TvInv, TvTypeOK
  <2>3. PlaysinkIsFed'
    BY <2>1 DEF TvInv, PlaysinkIsFed
  <2>4. tv_playsink' \subseteq TvAv /\ tv_dec' \subseteq tv_elements
    BY <2>1, <2>2 DEF TvInv, TvTypeOK
  <2> QED
    BY <1>1, <2>3, <2>4, Zenon DEF TvInv, TvTypeOK, tvPipe
<1>3. CASE TvDecPadRemoved
  <2>1. PICK p \in tv_dec : TvRelease({p})
    BY <1>3 DEF TvDecPadRemoved
  <2>2. {p} \in SUBSET tv_dec
    OBVIOUS
  <2>3. PlaysinkIsFed' /\ tv_playsink' \subseteq TvAv
    BY <2>1, <2>2, TvReleases
  <2>4. tv_dec' \subseteq tv_elements
    BY <2>1 DEF TvInv, TvTypeOK, TvRelease
  <2> QED
    BY <1>1, <2>3, <2>4, Zenon DEF TvInv, TvTypeOK, tvPipe
<1> QED
  BY <1>2, <1>3

(* All of it holds from the start, and no step breaks it.                  *)
LEMMA TvInvariant == TvInit /\ [][TvNext]_tvVars => []TvInv
<1>1. TvInit => TvInv
  <2> SUFFICES ASSUME TvInit
               PROVE  TvInv
    OBVIOUS
  <2>1. tv_again \in BOOLEAN
    BY Zenon DEF TvInit
  <2> QED
    BY <2>1 DEF TvInit, TvInv, TvTypeOK, PlaysinkIsFed
<1>2. TvInv /\ [TvNext]_tvVars => TvInv'
  <2> SUFFICES ASSUME TvInv, [TvNext]_tvVars
               PROVE  TvInv'
    OBVIOUS
  <2>1. CASE UNCHANGED tvVars
    BY <2>1, Zenon DEF TvInv, TvTypeOK, PlaysinkIsFed, tvVars
  <2> QED
    BY <2>1, TvKeys, TvAdds, TvRemoves, TvDecodes DEF TvNext
<1> QED
  BY <1>1, <1>2, PTL

(* However pads come and go there is one decoder of a kind at most, which  *)
(* its number counts.                                                      *)
THEOREM DecodersAreCounted == TvSpec => []OneDecoderOfAKind
<1>1. TvInv => OneDecoderOfAKind
  <2> SUFFICES ASSUME TvInv, NEW av \in TvAv
               PROVE  Cardinality(TvOf(av, tv_elements)) = tv_num[av] /\ tv_num[av] <= 1
    BY DEF OneDecoderOfAKind
  <2>1. CASE \E p \in tv_elements : p[1] = av
    <3>1. PICK p \in tv_elements : p[1] = av
      BY <2>1
    <3>2. TvOf(av, tv_elements) = {p}
      BY <3>1 DEF TvInv, TvOf
    <3>3. Cardinality({p}) = 1
      BY FS_Singleton, Zenon
    <3>4. tv_num[av] = 1
      BY <2>1 DEF TvInv
    <3> QED
      BY <3>2, <3>3, <3>4
  <2>2. CASE ~ \E p \in tv_elements : p[1] = av
    <3>1. TvOf(av, tv_elements) = {}
      BY <2>2 DEF TvOf
    <3> QED
      BY <2>2, <3>1, FS_EmptySet DEF TvInv
  <2> QED
    BY <2>1, <2>2
<1> QED
  BY <1>1, TvInvariant, PTL DEF TvSpec

(* playsink has a pad of a kind exactly while a decoder feeds it.          *)
THEOREM PlaysinkPadsAreFed == TvSpec => []PlaysinkIsFed
<1>1. TvInv => PlaysinkIsFed
  BY DEF TvInv
<1> QED
  BY <1>1, TvInvariant, PTL DEF TvSpec

-----------------------------------------------------------------------------
(* Window: a ping that has no answer is on its way to the program, or its  *)
(* pong on the way back.                                                   *)
WinInv ==
  /\ WinTypeOK
  /\ win_waiting = Occurs(win_socket, WinPing) + Occurs(win_queue, WinPing) + Occurs(win_out, "pong")
  /\ win_waiting <= win_sent

WinStates == {"connect", "registry", "surface", "shell", "native", "egl", "result", "dispatch", "draw",
              "swap", "exit"}
WinOut == {"toplevel", "pong"}
WinIn == {WinPing} \cup WinSizes

(* What is counted are numbers.                                            *)
LEMMA WinNumbers ==
  ASSUME WinInv
  PROVE  /\ win_out \in Seq(WinOut) /\ win_socket \in Seq(WinIn) /\ win_queue \in Seq(WinIn)
         /\ Occurs(win_socket, WinPing) \in Nat /\ Occurs(win_queue, WinPing) \in Nat
         /\ Occurs(win_out, "pong") \in Nat /\ win_waiting \in Nat /\ win_sent \in 0 .. WinEvents
         /\ WinEvents \in Nat
<1>1. /\ win_out \in Seq(WinOut) /\ win_socket \in Seq(WinIn) /\ win_queue \in Seq(WinIn)
      /\ win_waiting \in 0 .. WinEvents /\ win_sent \in 0 .. WinEvents
  BY DEF WinInv, WinTypeOK, WinOut, WinIn
<1>2. /\ Occurs(win_socket, WinPing) \in Nat /\ Occurs(win_queue, WinPing) \in Nat /\ Occurs(win_out, "pong") \in Nat
  BY <1>1, OccursIsNumber
<1> QED
  BY <1>1, <1>2, WinAssumption

(* Setting up: nothing of what is counted changes.                         *)
LEMMA WinSetsUp ==
  ASSUME WinInv, WinConnect \/ WinRegistry \/ WinSurface \/ WinShell \/ WinNative \/ WinResult \/ WinDraw
  PROVE  WinInv'
<1>1. UNCHANGED <<win_app, win_toplevel, win_shown, win_waiting, win_asked, win_sent, win_socket, win_queue,
                  win_context, win_size>>
  BY DEF WinConnect, WinRegistry, WinSurface, WinShell, WinNative, WinResult, WinDraw, WinStep, winServer,
         winQueues, winWindow
<1>2. win_pc' \in WinStates
  BY DEF WinConnect, WinRegistry, WinSurface, WinShell, WinNative, WinResult, WinDraw, WinStep, WinStates
<1>3. win_native' \in {WinNone} \cup WinSizes
  <2>1. win_native \in {WinNone} \cup WinSizes /\ WinDefault \in WinSizes
    BY WinAssumption DEF WinInv, WinTypeOK
  <2> QED
    BY <2>1 DEF WinConnect, WinRegistry, WinSurface, WinShell, WinNative, WinResult, WinDraw, winWindow
<1>4. win_out' \in Seq(WinOut) /\ Occurs(win_out', "pong") = Occurs(win_out, "pong")
  <2>1. win_out' = win_out \/ win_out' = Append(win_out, "toplevel")
    BY DEF WinConnect, WinRegistry, WinSurface, WinShell, WinNative, WinResult, WinDraw, winQueues
  <2>2. win_out \in Seq(WinOut) /\ "toplevel" \in WinOut /\ Occurs(win_out, "pong") \in Nat
    BY WinNumbers DEF WinOut
  <2>3. Occurs(Append(win_out, "toplevel"), "pong") = Occurs(win_out, "pong") + IF "toplevel" = "pong" THEN 1 ELSE 0
    BY <2>2, OccursInAppend
  <2>4. Append(win_out, "toplevel") \in Seq(WinOut)
    BY <2>2
  <2>5. Occurs(Append(win_out, "toplevel"), "pong") = Occurs(win_out, "pong")
    <3>1. "toplevel" # "pong"
      OBVIOUS
    <3>2. (IF "toplevel" = "pong" THEN 1 ELSE 0) = 0 /\ \A n \in Nat : n + 0 = n
      BY <3>1
    <3> QED
      BY <2>2, <2>3, <3>2, Zenon
  <2> QED
    BY <2>1, <2>2, <2>4, <2>5, Zenon
<1>5. WinTypeOK'
  BY <1>1, <1>2, <1>3, <1>4, Zenon DEF WinInv, WinTypeOK, WinStates, WinOut
<1> QED
  BY <1>1, <1>4, <1>5, Zenon DEF WinInv

(* The library takes what has arrived, and delivers the pongs.             *)
LEMMA WinTransfers ==
  ASSUME WinInv, WinTransfer, UNCHANGED win_sent
  PROVE  /\ win_out' \in Seq(WinOut) /\ win_socket' \in Seq(WinIn) /\ win_queue' \in Seq(WinIn)
         /\ win_toplevel' \in BOOLEAN /\ win_waiting' \in 0 .. WinEvents
         /\ win_waiting' = Occurs(win_socket', WinPing) + Occurs(win_queue', WinPing) + Occurs(win_out', "pong")
         /\ win_waiting' <= win_sent'
<1>1. /\ win_out' = <<>> /\ win_socket' = <<>> /\ win_queue' = win_queue \o win_socket
      /\ win_waiting' = win_waiting - Cardinality({i \in DOMAIN win_out : win_out[i] = "pong"})
  BY DEF WinTransfer
<1>2. win_toplevel' \in BOOLEAN
  BY Zenon DEF WinTransfer
<1>3. /\ win_out \in Seq(WinOut) /\ win_socket \in Seq(WinIn) /\ win_queue \in Seq(WinIn)
      /\ Occurs(win_socket, WinPing) \in Nat /\ Occurs(win_queue, WinPing) \in Nat
      /\ Occurs(win_out, "pong") \in Nat /\ win_waiting \in Nat /\ win_sent \in 0 .. WinEvents /\ WinEvents \in Nat
  BY WinNumbers
<1>4. win_waiting' = win_waiting - Occurs(win_out, "pong")
  <2>1. DOMAIN win_out = 1 .. Len(win_out)
    BY <1>3
  <2> QED
    BY <1>1, <2>1, Zenon DEF Occurs
<1>5. win_queue' \in Seq(WinIn)
  BY <1>1, <1>3
<1>6. Occurs(win_queue \o win_socket, WinPing) = Occurs(win_queue, WinPing) + Occurs(win_socket, WinPing)
  BY <1>3, OccursInBoth
<1>7. Occurs(<<>>, WinPing) = 0 /\ Occurs(<<>>, "pong") = 0
  BY OccursInNone
<1>8. win_waiting = Occurs(win_socket, WinPing) + Occurs(win_queue, WinPing) + Occurs(win_out, "pong")
  BY DEF WinInv
<1>9. win_waiting <= win_sent
  BY DEF WinInv
<1>10. /\ Occurs(win_queue', WinPing) = Occurs(win_queue, WinPing) + Occurs(win_socket, WinPing)
       /\ Occurs(win_socket', WinPing) = 0 /\ Occurs(win_out', "pong") = 0
  BY <1>1, <1>6, <1>7, Zenon
<1>11. win_waiting' = Occurs(win_socket', WinPing) + Occurs(win_queue', WinPing) + Occurs(win_out', "pong")
  BY <1>3, <1>4, <1>8, <1>10
<1>12. win_waiting' \in 0 .. WinEvents /\ win_waiting' <= win_sent
  BY <1>3, <1>4, <1>8, <1>9, SMTT(30)
<1>13. win_out' \in Seq(WinOut) /\ win_socket' \in Seq(WinIn)
  BY <1>1
<1> QED
  BY <1>2, <1>5, <1>11, <1>12, <1>13

(* So does a transfer that the EGL library makes.                          *)
LEMMA WinGoesOn ==
  ASSUME WinInv, WinEgl \/ WinSwap
  PROVE  WinInv'
<1>1. UNCHANGED <<win_app, win_native, win_size, win_asked, win_sent>> /\ win_pc' \in WinStates
  BY DEF WinEgl, WinSwap, WinStates
<1>2. win_context' \in BOOLEAN
  <2>1. CASE WinEgl
    BY <2>1, Zenon DEF WinEgl
  <2>2. CASE WinSwap
    BY <2>2, Zenon DEF WinSwap, WinInv, WinTypeOK
  <2> QED
    BY <2>1, <2>2
<1>3. win_shown' \in {WinNone} \cup WinSizes
  BY DEF WinEgl, WinSwap, WinInv, WinTypeOK
<1>4. WinTransfer \/ UNCHANGED <<win_out, win_socket, win_queue, win_toplevel, win_waiting>>
  BY Zenon DEF WinEgl, WinSwap, winQueues
<1>5. CASE WinTransfer
  <2>1. WinTypeOK'
    BY <1>1, <1>2, <1>3, <1>5, WinTransfers, Zenon DEF WinInv, WinTypeOK, WinStates, WinOut, WinIn
  <2>2. (win_waiting = Occurs(win_socket, WinPing) + Occurs(win_queue, WinPing) + Occurs(win_out, "pong"))'
        /\ (win_waiting <= win_sent)'
    BY <1>1, <1>5, WinTransfers
  <2> QED
    BY <2>1, <2>2 DEF WinInv
<1>6. CASE UNCHANGED <<win_out, win_socket, win_queue, win_toplevel, win_waiting>>
  <2>1. WinTypeOK'
    BY <1>1, <1>2, <1>3, <1>6, Zenon DEF WinInv, WinTypeOK, WinStates
  <2> QED
    BY <1>1, <1>6, <2>1 DEF WinInv
<1> QED
  BY <1>4, <1>5, <1>6

(* A ping is taken from the queue, and its pong is written.                *)
LEMMA WinDispatches ==
  ASSUME WinInv, WinDispatch
  PROVE  WinInv'
<1>1. UNCHANGED <<win_app, win_context, win_toplevel, win_shown, win_waiting, win_asked, win_sent, win_socket>>
  BY DEF WinDispatch, winServer, winQueues
<1>2. win_pc' \in WinStates
  BY DEF WinDispatch, WinStates
<1>3. /\ win_out \in Seq(WinOut) /\ win_socket \in Seq(WinIn) /\ win_queue \in Seq(WinIn)
      /\ Occurs(win_socket, WinPing) \in Nat /\ Occurs(win_queue, WinPing) \in Nat
      /\ Occurs(win_out, "pong") \in Nat /\ win_waiting \in Nat /\ win_sent \in 0 .. WinEvents /\ WinEvents \in Nat
  BY WinNumbers
<1>4. /\ win_native \in {WinNone} \cup WinSizes /\ win_size \in WinSizes
      /\ win_waiting = Occurs(win_socket, WinPing) + Occurs(win_queue, WinPing) + Occurs(win_out, "pong")
      /\ win_waiting <= win_sent
  BY DEF WinInv, WinTypeOK
<1>5. CASE win_queue = <<>>
  <2>1. UNCHANGED <<win_out, win_queue, win_native, win_size>>
    BY <1>5 DEF WinDispatch, winQueues
  <2>2. WinTypeOK'
    BY <1>1, <1>2, <2>1, Zenon DEF WinInv, WinTypeOK, WinStates
  <2> QED
    BY <1>1, <1>4, <2>1, <2>2, Zenon DEF WinInv
<1>6. CASE win_queue # <<>>
  <2>1. win_queue' = Tail(win_queue) /\ Head(win_queue) \in WinIn /\ win_queue' \in Seq(WinIn)
    <3>1. win_queue' = Tail(win_queue)
      BY <1>6, Zenon DEF WinDispatch
    <3> QED
      BY <1>3, <1>6, <3>1, HeadTailProperties
  <2>2. Occurs(win_queue, WinPing) = Occurs(win_queue', WinPing) + IF Head(win_queue) = WinPing THEN 1 ELSE 0
    BY <1>3, <1>6, <2>1, OccursInTail
  <2>3. Occurs(win_queue', WinPing) \in Nat
    BY <2>1, OccursIsNumber
  <2>4. CASE Head(win_queue) = WinPing
    <3>1. win_out' = Append(win_out, "pong") /\ UNCHANGED <<win_native, win_size>>
      BY <1>6, <2>4 DEF WinDispatch
    <3>2. "pong" \in WinOut
      BY DEF WinOut
    <3>3. Occurs(win_out', "pong") = Occurs(win_out, "pong") + IF "pong" = "pong" THEN 1 ELSE 0
      BY <1>3, <3>1, <3>2, OccursInAppend
    <3>4. win_out' \in Seq(WinOut)
      BY <1>3, <3>1, <3>2
    <3>5. WinTypeOK'
      BY <1>1, <1>2, <2>1, <3>1, <3>4, Zenon DEF WinInv, WinTypeOK, WinStates, WinOut, WinIn
    <3>6. Occurs(win_queue, WinPing) = Occurs(win_queue', WinPing) + 1 /\ Occurs(win_out', "pong") = Occurs(win_out, "pong") + 1
      BY <2>2, <2>4, <3>3
    <3>7. win_waiting = Occurs(win_socket, WinPing) + Occurs(win_queue', WinPing) + Occurs(win_out', "pong")
      BY <1>3, <1>4, <2>3, <3>6
    <3> QED
      BY <1>1, <1>4, <3>5, <3>7, Zenon DEF WinInv
  <2>5. CASE Head(win_queue) # WinPing
    <3>1. win_out' = win_out /\ win_native' = Head(win_queue) /\ (win_size' = Head(win_queue) \/ win_size' = win_size)
      BY <1>6, <2>5 DEF WinDispatch, WinConfigure
    <3>2. Head(win_queue) \in WinSizes
      BY <2>1, <2>5 DEF WinIn
    <3>3. win_native' \in {WinNone} \cup WinSizes /\ win_size' \in WinSizes
      BY <1>4, <3>1, <3>2
    <3>4. WinTypeOK'
      BY <1>1, <1>2, <2>1, <3>1, <3>3, Zenon DEF WinInv, WinTypeOK, WinStates, WinOut, WinIn
    <3>5. Occurs(win_queue, WinPing) = Occurs(win_queue', WinPing)
      BY <2>2, <2>3, <2>5
    <3> QED
      BY <1>1, <1>4, <3>1, <3>4, <3>5, Zenon DEF WinInv
  <2> QED
    BY <2>4, <2>5
<1> QED
  BY <1>5, <1>6

(* The compositor sends a ping, or a size, which is no ping.               *)
LEMMA WinSends ==
  ASSUME WinInv, WinSend
  PROVE  WinInv'
<1>1. UNCHANGED <<win_app, win_pc, win_out, win_toplevel, win_queue, win_native, win_context, win_size, win_shown>>
  BY DEF WinSend, winWindow
<1>2. /\ win_out \in Seq(WinOut) /\ win_socket \in Seq(WinIn) /\ win_queue \in Seq(WinIn)
      /\ Occurs(win_socket, WinPing) \in Nat /\ Occurs(win_queue, WinPing) \in Nat
      /\ Occurs(win_out, "pong") \in Nat /\ win_waiting \in Nat /\ win_sent \in 0 .. WinEvents /\ WinEvents \in Nat
  BY WinNumbers
<1>3. /\ win_waiting = Occurs(win_socket, WinPing) + Occurs(win_queue, WinPing) + Occurs(win_out, "pong")
      /\ win_waiting <= win_sent
  BY DEF WinInv
<1>4. win_sent' = win_sent + 1 /\ win_sent' \in 0 .. WinEvents
  BY <1>2 DEF WinSend
<1>5. PICK e \in WinIn : /\ win_socket' = Append(win_socket, e)
                         /\ win_waiting' = win_waiting + IF e = WinPing THEN 1 ELSE 0
                         /\ win_asked' \in {win_asked} \cup WinSizes
  <2>1. CASE win_socket' = Append(win_socket, WinPing) /\ win_waiting' = win_waiting + 1 /\ UNCHANGED win_asked
    BY <2>1 DEF WinIn
  <2>2. CASE \E size \in WinSizes : win_socket' = Append(win_socket, size) /\ win_asked' = size /\ UNCHANGED win_waiting
    <3>1. PICK size \in WinSizes : win_socket' = Append(win_socket, size) /\ win_asked' = size /\ UNCHANGED win_waiting
      BY <2>2
    <3>2. size # WinPing /\ size \in WinIn
      BY WinAssumption DEF WinIn
    <3>3. win_waiting' = win_waiting + IF size = WinPing THEN 1 ELSE 0
      BY <1>2, <3>1, <3>2
    <3> QED
      BY <3>1, <3>2, <3>3
  <2> QED
    BY <2>1, <2>2 DEF WinSend
<1>6. Occurs(win_socket', WinPing) = Occurs(win_socket, WinPing) + IF e = WinPing THEN 1 ELSE 0
  BY <1>2, <1>5, OccursInAppend
<1>7. win_socket' \in Seq(WinIn)
  BY <1>2, <1>5
<1>8. /\ win_waiting' = Occurs(win_socket', WinPing) + Occurs(win_queue, WinPing) + Occurs(win_out, "pong")
      /\ win_waiting' <= win_sent'
  <2>1. CASE e = WinPing
    <3>1. win_waiting' = win_waiting + 1 /\ Occurs(win_socket', WinPing) = Occurs(win_socket, WinPing) + 1
      BY <1>5, <1>6, <2>1
    <3> QED
      BY <1>2, <1>3, <1>4, <3>1, SMTT(30)
  <2>2. CASE e # WinPing
    <3>1. win_waiting' = win_waiting /\ Occurs(win_socket', WinPing) = Occurs(win_socket, WinPing)
      BY <1>2, <1>5, <1>6, <2>2
    <3> QED
      BY <1>2, <1>3, <1>4, <3>1
  <2> QED
    BY <2>1, <2>2
<1>9. win_waiting' \in 0 .. WinEvents
  <2>1. win_waiting' \in Nat
    BY <1>2, <1>5
  <2> QED
    BY <1>2, <1>4, <1>8, <2>1
<1>10. win_asked' \in {WinNone} \cup WinSizes
  BY <1>5 DEF WinInv, WinTypeOK
<1>11. WinTypeOK'
  BY <1>1, <1>4, <1>7, <1>9, <1>10, Zenon DEF WinInv, WinTypeOK, WinIn
<1> QED
  BY <1>1, <1>8, <1>11, Zenon DEF WinInv

(* The pings are accounted for in every state.                             *)
LEMMA WinInvariant == WinInit /\ [][WinNext]_winVars => []WinInv
<1>1. WinInit => WinInv
  <2> SUFFICES ASSUME WinInit
               PROVE  WinInv
    OBVIOUS
  <2>1. /\ win_pc = "connect" /\ win_out = <<>> /\ win_socket = <<>> /\ win_queue = <<>>
        /\ win_native = WinNone /\ win_size = WinDefault /\ win_shown = WinNone /\ win_waiting = 0
        /\ win_asked = WinNone /\ win_sent = 0
    BY DEF WinInit
  <2>2. win_app \in BOOLEAN /\ win_toplevel \in BOOLEAN /\ win_context \in BOOLEAN
    BY Zenon DEF WinInit
  <2>3. /\ win_out \in Seq({"toplevel", "pong"}) /\ win_socket \in Seq({WinPing} \cup WinSizes)
        /\ win_queue \in Seq({WinPing} \cup WinSizes) /\ win_waiting \in 0 .. WinEvents /\ win_sent \in 0 .. WinEvents
        /\ win_size \in WinSizes
    BY <2>1, WinAssumption
  <2>4. WinTypeOK
    BY <2>1, <2>2, <2>3 DEF WinTypeOK
  <2>5. Occurs(<<>>, WinPing) = 0 /\ Occurs(<<>>, "pong") = 0
    BY OccursInNone
  <2> QED
    BY <2>1, <2>4, <2>5 DEF WinInv
<1>2. WinInv /\ [WinNext]_winVars => WinInv'
  <2> SUFFICES ASSUME WinInv, [WinNext]_winVars
               PROVE  WinInv'
    OBVIOUS
  <2>1. CASE WinNext
    BY <2>1, WinSetsUp, WinGoesOn, WinDispatches, WinSends, Zenon DEF WinNext, WinProgram
  <2>2. CASE UNCHANGED winVars
    BY <2>2 DEF WinInv, WinTypeOK, winVars
  <2> QED
    BY <2>1, <2>2
<1> QED
  BY <1>1, <1>2, PTL

(* The types of the window; the number of the compositor's pings without   *)
(* an answer is never below 0: none is answered twice.                     *)
THEOREM WinTypeCorrect == WinSpec => []WinTypeOK
<1>1. WinInv => WinTypeOK
  BY DEF WinInv
<1> QED
  BY <1>1, WinInvariant, PTL DEF WinSpec

-----------------------------------------------------------------------------
(* Shm: how far a process that makes a memory is, and what its memory then *)
(* holds; a reader has a memory that holds what it did when it was opened, *)
(* and has not read before it exits.                                       *)
ShmStands(p) ==
  /\ shm_pc[p] = "start" => shm_memory[p] = ShmNothing /\ shm_found[p] = ShmNothing
  /\ shm_pc[p] \in {"size", "map", "write", "writing", "remove", "stat", "attach"} => shm_of[p] = p
  /\ shm_pc[p] = "size" => shm_memory[p] = ShmNothing
  /\ shm_pc[p] \in {"map", "stat", "attach", "write"} => shm_memory[p] <= ShmZeros
  /\ shm_pc[p] = "writing" => shm_memory[p] <= ShmPart
  /\ shm_pc[p] = "look" => shm_of[p] \in ShmProcs
  /\ shm_pc[p] # "exit" => shm_read[p] = -1
  /\ shm_found[p] > ShmNothing =>
       shm_of[p] \in ShmProcs /\ shm_found[p] <= shm_memory[shm_of[p]]

(* What NeverSeesLess says of one process.                                 *)
ShmSeesAll(p) ==
  p \notin shm_failed /\ shm_pc[p] = "exit" /\ shm_read[p] # -1 /\ shm_found[p] > ShmNothing =>
     shm_read[p] >= shm_found[p]

ShmInv == ShmTypeOK /\ \A p \in ShmProcs : ShmStands(p) /\ ShmSeesAll(p)

(* A step of p leaves what is known of the others, if it takes nothing     *)
(* from any memory and writes to no other's.                               *)
LEMMA ShmFrame ==
  ASSUME ShmInv, NEW p \in ShmProcs, ShmTypeOK',
         \A q \in ShmProcs \ {p} : /\ shm_pc'[q] = shm_pc[q] /\ shm_of'[q] = shm_of[q]
                                   /\ shm_found'[q] = shm_found[q] /\ shm_read'[q] = shm_read[q]
                                   /\ shm_memory'[q] = shm_memory[q],
         shm_memory[p] <= shm_memory'[p], shm_failed \subseteq shm_failed',
         ShmStands(p)', ShmSeesAll(p)'
  PROVE  ShmInv'
<1> SUFFICES ASSUME NEW q \in ShmProcs \ {p}
             PROVE  ShmStands(q)' /\ ShmSeesAll(q)'
  BY DEF ShmInv
<1>1. \A r \in ShmProcs : shm_memory[r] <= shm_memory'[r] /\ shm_memory[r] \in Int /\ shm_memory'[r] \in Int
  BY DEF ShmInv, ShmTypeOK, ShmNothing, ShmWhole
<1>2. ShmStands(q) /\ ShmSeesAll(q)
  BY DEF ShmInv
<1>3. shm_found[q] \in Int
  BY DEF ShmInv, ShmTypeOK, ShmNothing, ShmWhole
<1>4. ShmStands(q)'
  BY <1>1, <1>2, <1>3 DEF ShmStands
<1>5. ShmSeesAll(q)'
  BY <1>2 DEF ShmSeesAll
<1> QED
  BY <1>4, <1>5

(* A call that fails leaves everything, and the process is not looked at   *)
(* any more.                                                               *)
LEMMA ShmFails ==
  ASSUME ShmInv, NEW p \in ShmProcs, NEW from, ShmFail(p, from)
  PROVE  ShmInv'
<1>1. /\ shm_pc' = [shm_pc EXCEPT ![p] = "exit"] /\ shm_failed' = shm_failed \cup {p}
      /\ UNCHANGED <<shm_name, shm_memory, shm_segments, shm_of, shm_found, shm_read>>
  BY DEF ShmFail, ShmGo
<1>2. ShmTypeOK'
  BY <1>1 DEF ShmInv, ShmTypeOK
<1>3. ShmStands(p)' /\ ShmSeesAll(p)'
  <2>1. shm_pc'[p] = "exit" /\ p \in shm_failed'
    BY <1>1 DEF ShmInv, ShmTypeOK
  <2>2. ShmStands(p)
    BY DEF ShmInv
  <2> QED
    BY <1>1, <2>1, <2>2 DEF ShmStands, ShmSeesAll
<1>4. shm_memory[p] <= shm_memory'[p]
  BY <1>1 DEF ShmInv, ShmTypeOK, ShmNothing, ShmWhole
<1> QED
  BY <1>1, <1>2, <1>3, <1>4, ShmFrame DEF ShmInv, ShmTypeOK

(* Process p makes a memory, its own, and what it holds only grows.        *)
LEMMA ShmMakes ==
  ASSUME ShmInv, NEW p \in ShmProcs,
         ShmCreate(p) \/ ShmTruncate(p) \/ ShmMap(p) \/ ShmWrite(p) \/ ShmGet(p) \/ ShmAttach(p) \/ ShmRemove(p)
  PROVE  ShmInv'
<1> DEFINE Kept == \A q \in ShmProcs \ {p} :
                      /\ shm_pc'[q] = shm_pc[q] /\ shm_of'[q] = shm_of[q]
                      /\ shm_found'[q] = shm_found[q] /\ shm_read'[q] = shm_read[q]
                      /\ shm_memory'[q] = shm_memory[q]
           Grown == shm_memory[p] <= shm_memory'[p] /\ shm_failed \subseteq shm_failed'
<1> USE ShmAssumption DEF ShmInv, ShmTypeOK, ShmNothing, ShmZeros, ShmPart, ShmWhole, ShmNo, ShmGo
<1>0. ShmStands(p) /\ ShmSeesAll(p)
  OBVIOUS
<1>1. CASE ShmCreate(p) /\ ~ShmFail(p, "start")
  <2>1. ShmTypeOK'
    <3>1. /\ shm_pc' = [shm_pc EXCEPT ![p] = "size"] /\ shm_name' = p
          /\ shm_of' = [shm_of EXCEPT ![p] = p] /\ shm_found' = [shm_found EXCEPT ![p] = shm_memory[p]]
          /\ UNCHANGED <<shm_memory, shm_segments, shm_read, shm_failed>>
      BY <1>1 DEF ShmCreate, ShmHold
    <3>2. shm_pc' \in [ShmProcs -> {"start", "size", "map", "write", "writing", "remove", "look",
                                   "stat", "attach", "exit"}]
      BY <3>1
    <3> QED
      BY <3>1, <3>2
  <2>2. Kept /\ Grown
    BY <1>1 DEF ShmCreate, ShmHold
  <2>3. ShmStands(p)' /\ ShmSeesAll(p)'
    BY <1>0, <1>1 DEF ShmCreate, ShmHold, ShmStands, ShmSeesAll
  <2> QED
    BY <2>1, <2>2, <2>3, ShmFrame
<1>2. CASE ShmTruncate(p) /\ ~ShmFail(p, "size")
  <2>1. ShmTypeOK'
    <3>1. /\ shm_pc' = [shm_pc EXCEPT ![p] = "map"] /\ shm_memory' = [shm_memory EXCEPT ![p] = ShmZeros]
          /\ UNCHANGED <<shm_name, shm_segments, shm_of, shm_found, shm_read, shm_failed>>
      BY <1>0, <1>2 DEF ShmTruncate, ShmFill, ShmStands
    <3>2. shm_pc' \in [ShmProcs -> {"start", "size", "map", "write", "writing", "remove", "look",
                                   "stat", "attach", "exit"}]
      BY <3>1
    <3> QED
      BY <3>1, <3>2
  <2>2. Kept /\ Grown
    BY <1>0, <1>2 DEF ShmTruncate, ShmFill, ShmStands
  <2>3. ShmStands(p)' /\ ShmSeesAll(p)'
    BY <1>0, <1>2 DEF ShmTruncate, ShmFill, ShmStands, ShmSeesAll
  <2> QED
    BY <2>1, <2>2, <2>3, ShmFrame
<1>3. CASE ShmMap(p) /\ ~ShmFail(p, "map")
  <2>1. ShmTypeOK'
    <3>1. /\ shm_pc' = [shm_pc EXCEPT ![p] = "write"]
          /\ shm_name' = shm_name /\ UNCHANGED <<shm_memory, shm_segments, shm_of, shm_found, shm_read, shm_failed>>
      BY <1>3 DEF ShmMap
    <3>2. shm_pc' \in [ShmProcs -> {"start", "size", "map", "write", "writing", "remove", "look",
                                   "stat", "attach", "exit"}]
      BY <3>1
    <3> QED
      BY <3>1, <3>2
  <2>2. Kept /\ Grown
    BY <1>3 DEF ShmMap
  <2>3. ShmStands(p)' /\ ShmSeesAll(p)'
    BY <1>0, <1>3 DEF ShmMap, ShmStands, ShmSeesAll
  <2> QED
    BY <2>1, <2>2, <2>3, ShmFrame
<1>4. CASE ShmWrite(p)
  <2>1. ShmTypeOK'
    BY <1>0, <1>4 DEF ShmWrite, ShmFill, ShmStands
  <2>2. Kept /\ Grown
    BY <1>0, <1>4 DEF ShmWrite, ShmFill, ShmStands
  <2>3. ShmStands(p)' /\ ShmSeesAll(p)'
    BY <1>0, <1>4 DEF ShmWrite, ShmFill, ShmStands, ShmSeesAll
  <2> QED
    BY <2>1, <2>2, <2>3, ShmFrame
<1>5. CASE ShmGet(p) /\ ~ShmFail(p, "start")
  <2>1. ShmTypeOK'
    <3>1. /\ shm_pc' = [shm_pc EXCEPT ![p] = "stat"] /\ shm_memory' = [shm_memory EXCEPT ![p] = ShmZeros]
          /\ shm_segments' = shm_segments \cup {p} /\ shm_of' = [shm_of EXCEPT ![p] = p]
          /\ UNCHANGED <<shm_name, shm_found, shm_read, shm_failed>>
      BY <1>0, <1>5 DEF ShmGet, ShmStands
    <3>2. shm_pc' \in [ShmProcs -> {"start", "size", "map", "write", "writing", "remove", "look",
                                   "stat", "attach", "exit"}]
      BY <3>1
    <3> QED
      BY <3>1, <3>2
  <2>2. Kept /\ Grown
    BY <1>0, <1>5 DEF ShmGet, ShmStands
  <2>3. ShmStands(p)' /\ ShmSeesAll(p)'
    BY <1>0, <1>5 DEF ShmGet, ShmStands, ShmSeesAll
  <2> QED
    BY <2>1, <2>2, <2>3, ShmFrame
<1>6. CASE ShmAttach(p) /\ ~ShmFail(p, "stat") /\ ~ShmFail(p, "attach")
  <2>1. ShmTypeOK'
    <3>1. /\ shm_pc' = [shm_pc EXCEPT ![p] = "attach"] \/ shm_pc' = [shm_pc EXCEPT ![p] = "write"]
          /\ shm_name' = shm_name /\ UNCHANGED <<shm_memory, shm_segments, shm_of, shm_found, shm_read, shm_failed>>
      BY <1>6 DEF ShmAttach
    <3>2. shm_pc' \in [ShmProcs -> {"start", "size", "map", "write", "writing", "remove", "look",
                                   "stat", "attach", "exit"}]
      BY <3>1
    <3> QED
      BY <3>1, <3>2
  <2>2. Kept /\ Grown
    BY <1>6 DEF ShmAttach
  <2>3. ShmStands(p)' /\ ShmSeesAll(p)'
    BY <1>0, <1>6 DEF ShmAttach, ShmStands, ShmSeesAll
  <2> QED
    BY <2>1, <2>2, <2>3, ShmFrame
<1>7. CASE ShmRemove(p)
  <2>1. ShmTypeOK'
    BY <1>7 DEF ShmRemove
  <2>2. Kept /\ Grown
    BY <1>7 DEF ShmRemove
  <2>3. ShmStands(p)' /\ ShmSeesAll(p)'
    BY <1>0, <1>7 DEF ShmRemove, ShmStands, ShmSeesAll
  <2> QED
    BY <2>1, <2>2, <2>3, ShmFrame
<1> HIDE DEF ShmInv
<1> QED
  BY <1>1, <1>2, <1>3, <1>4, <1>5, <1>6, <1>7, ShmFails

(* Process p opens, reads or removes the memory of another.                *)
LEMMA ShmReads ==
  ASSUME ShmInv, NEW p \in ShmProcs,
         \/ ShmOpen(p) \/ ShmLook(p) \/ ShmUnlink(p)
         \/ \E maker \in ShmProcs : ShmAttachToRead(p, maker)
  PROVE  ShmInv'
<1> DEFINE Kept == \A q \in ShmProcs \ {p} :
                      /\ shm_pc'[q] = shm_pc[q] /\ shm_of'[q] = shm_of[q]
                      /\ shm_found'[q] = shm_found[q] /\ shm_read'[q] = shm_read[q]
                      /\ shm_memory'[q] = shm_memory[q]
           Grown == shm_memory[p] <= shm_memory'[p] /\ shm_failed \subseteq shm_failed'
<1> USE ShmAssumption DEF ShmInv, ShmTypeOK, ShmNothing, ShmZeros, ShmPart, ShmWhole, ShmNo, ShmGo
<1>0. ShmStands(p) /\ ShmSeesAll(p)
  OBVIOUS
<1>1. CASE ShmOpen(p) /\ ~ShmFail(p, "start")
  <2>1. ShmTypeOK'
    <3>1. /\ shm_pc' = [shm_pc EXCEPT ![p] = "look"] /\ shm_of' = [shm_of EXCEPT ![p] = shm_name]
          /\ shm_found' = [shm_found EXCEPT ![p] = shm_memory[shm_name]] /\ shm_name \in ShmProcs
          /\ UNCHANGED <<shm_name, shm_memory, shm_segments, shm_read, shm_failed>>
      BY <1>1 DEF ShmOpen, ShmHold
    <3>2. shm_pc' \in [ShmProcs -> {"start", "size", "map", "write", "writing", "remove", "look",
                                   "stat", "attach", "exit"}]
      BY <3>1
    <3> QED
      BY <3>1, <3>2
  <2>2. Kept /\ Grown
    BY <1>1 DEF ShmOpen, ShmHold
  <2>3. ShmStands(p)' /\ ShmSeesAll(p)'
    BY <1>0, <1>1 DEF ShmOpen, ShmHold, ShmStands, ShmSeesAll
  <2> QED
    BY <2>1, <2>2, <2>3, ShmFrame
<1>2. CASE ShmLook(p) /\ ~ShmFail(p, "look")
  <2>1. ShmTypeOK'
    <3>1. /\ shm_pc' = [shm_pc EXCEPT ![p] = "exit"] /\ shm_of[p] \in ShmProcs
          /\ \E what \in {-2, shm_memory[shm_of[p]]} : shm_read' = [shm_read EXCEPT ![p] = what]
          /\ UNCHANGED <<shm_name, shm_memory, shm_segments, shm_of, shm_found, shm_failed>>
      BY <1>0, <1>2 DEF ShmLook, ShmStands
    <3>2. shm_pc' \in [ShmProcs -> {"start", "size", "map", "write", "writing", "remove", "look",
                                   "stat", "attach", "exit"}]
      BY <3>1
    <3>3. \A q \in ShmProcs : shm_memory[q] \in -2 .. 3
      OBVIOUS
    <3>4. shm_read' \in [ShmProcs -> -2 .. 3]
      <4>1. shm_memory[shm_of[p]] \in -2 .. 3
        BY <3>1, <3>3, Zenon
      <4>2. -2 \in -2 .. 3
        OBVIOUS
      <4> QED
        BY <3>1, <4>1, <4>2
    <3> QED
      BY <3>1, <3>2, <3>4
  <2>2. Kept /\ Grown
    BY <1>2 DEF ShmLook
  <2>3. ShmStands(p)' /\ ShmSeesAll(p)'
    BY <1>0, <1>2 DEF ShmLook, ShmStands, ShmSeesAll
  <2> QED
    BY <2>1, <2>2, <2>3, ShmFrame
<1>3. CASE ShmUnlink(p) /\ ~ShmFail(p, "start")
  <2>1. ShmTypeOK'
    <3>1. /\ shm_pc' = [shm_pc EXCEPT ![p] = "exit"]
          /\ shm_name' = ShmNo /\ UNCHANGED <<shm_memory, shm_segments, shm_of, shm_found, shm_read, shm_failed>>
      BY <1>3 DEF ShmUnlink
    <3>2. shm_pc' \in [ShmProcs -> {"start", "size", "map", "write", "writing", "remove", "look",
                                   "stat", "attach", "exit"}]
      BY <3>1
    <3> QED
      BY <3>1, <3>2
  <2>2. Kept /\ Grown
    BY <1>3 DEF ShmUnlink
  <2>3. ShmStands(p)' /\ ShmSeesAll(p)'
    BY <1>0, <1>3 DEF ShmUnlink, ShmStands, ShmSeesAll
  <2> QED
    BY <2>1, <2>2, <2>3, ShmFrame
<1>4. ASSUME NEW maker \in ShmProcs, ShmAttachToRead(p, maker)
      PROVE  ShmInv'
  <2>1. ShmTypeOK'
    <3>1. CASE ShmGo(p, "start", "look")
      <4>1. /\ shm_pc' = [shm_pc EXCEPT ![p] = "look"] /\ shm_of' = [shm_of EXCEPT ![p] = maker]
            /\ shm_found' = [shm_found EXCEPT ![p] = shm_memory[maker]]
            /\ UNCHANGED <<shm_name, shm_memory, shm_segments, shm_read, shm_failed>>
        BY <1>4, <3>1 DEF ShmAttachToRead, ShmHold
      <4>2. shm_pc' \in [ShmProcs -> {"start", "size", "map", "write", "writing", "remove", "look",
                                   "stat", "attach", "exit"}]
        BY <4>1
      <4> QED
        BY <4>1, <4>2
    <3>2. CASE ShmGo(p, "start", "exit")
      <4>1. /\ shm_pc' = [shm_pc EXCEPT ![p] = "exit"] /\ shm_read' = [shm_read EXCEPT ![p] = -2]
            /\ shm_failed' = shm_failed \cup {p}
            /\ UNCHANGED <<shm_name, shm_memory, shm_segments, shm_of, shm_found>>
        BY <1>4, <3>2 DEF ShmAttachToRead
      <4>2. shm_pc' \in [ShmProcs -> {"start", "size", "map", "write", "writing", "remove", "look",
                                   "stat", "attach", "exit"}]
        BY <4>1
      <4> QED
        BY <4>1, <4>2
    <3> QED
      BY <1>4, <3>1, <3>2 DEF ShmAttachToRead
  <2>2. Kept /\ Grown
    BY <1>4 DEF ShmAttachToRead, ShmHold
  <2>3. ShmStands(p)' /\ ShmSeesAll(p)'
    BY <1>0, <1>4 DEF ShmAttachToRead, ShmHold, ShmStands, ShmSeesAll
  <2> QED
    BY <2>1, <2>2, <2>3, ShmFrame
<1> HIDE DEF ShmInv
<1> QED
  BY <1>1, <1>2, <1>3, <1>4, ShmFails

(* All of it holds from the start, and no step breaks it.                  *)
LEMMA ShmInvariant == ShmSpec => []ShmInv
<1>1. ShmInit => ShmInv
  BY ShmAssumption DEF ShmInit, ShmInv, ShmTypeOK, ShmStands, ShmSeesAll, ShmNothing, ShmZeros, ShmPart, ShmWhole, ShmNo
<1>2. ShmInv /\ [ShmNext]_shmVars => ShmInv'
  <2> SUFFICES ASSUME ShmInv, [ShmNext]_shmVars
               PROVE  ShmInv'
    OBVIOUS
  <2>1. CASE UNCHANGED shmVars
    BY <2>1 DEF ShmInv, ShmTypeOK, ShmStands, ShmSeesAll, shmVars
  <2> QED
    BY <2>1, ShmMakes, ShmReads DEF ShmNext
<1> QED
  BY <1>1, <1>2, PTL DEF ShmSpec

(* A reader never sees less of the message than there was when it opened   *)
(* the memory, whoever else writes to it or removes it.                    *)
THEOREM ReadersSeeNoLess == ShmSpec => []NeverSeesLess
<1>1. ShmInv => NeverSeesLess
  BY DEF ShmInv, ShmSeesAll, NeverSeesLess
<1> QED
  BY <1>1, ShmInvariant, PTL

-----------------------------------------------------------------------------
(* Tar: the constants, one by one; padding goes up to whole blocks.        *)
LEMMA TarConstants ==
  /\ TarBlock \in Nat \ {0} /\ TarWord \in Nat \ {0} /\ TarCut \in Nat \ {0} /\ TarMembers \in Nat \ {0}
  /\ TarWord \div 2 \in Nat /\ TarWord = 2 * (TarWord \div 2)
<1>1. TarBlock \in Nat \ {0} /\ TarWord \in Nat \ {0} /\ TarCut \in Nat \ {0} /\ TarMembers \in Nat \ {0}
  BY TarAssumption
<1>2. TarWord = 2 * (TarWord \div 2)
  <2>1. TarWord % (2 * TarBlock) = 0
    BY TarAssumption
  <2>2. PICK q \in Int : TarWord = q * (2 * TarBlock)
    <3>1. \A w, b \in Nat \ {0} : w % b = 0 => w \div b \in Int /\ w = (w \div b) * b
      OBVIOUS
    <3>2. 2 * TarBlock \in Nat \ {0}
      BY <1>1
    <3> DEFINE b == 2 * TarBlock
    <3> HIDE DEF b
    <3>3. b \in Nat \ {0} /\ TarWord % b = 0
      BY <2>1, <3>2 DEF b
    <3>4. TarWord \div b \in Int /\ TarWord = (TarWord \div b) * b
      BY <1>1, <3>1, <3>3, Zenon
    <3> QED
      BY <3>4, Zenon DEF b
  <2>3. TarWord = 2 * (q * TarBlock)
    BY <1>1, <2>2
  <2>4. q * TarBlock \in Int
    BY <1>1
  <2> QED
    BY <2>3, <2>4
<1> QED
  BY <1>1, <1>2

(* A size, and what its blocks are.                                        *)
LEMMA TarPadding ==
  ASSUME NEW s \in TarSizes
  PROVE  /\ s \in Nat /\ TarBlocks(s) \in Nat
         /\ TarBlocks(s) = (s + TarBlock - 1) - ((s + TarBlock - 1) % TarBlock)
         /\ s <= TarBlocks(s)
<1>1. s \in Nat
  BY TarAssumption
<1>3. \A a \in Nat : /\ (a \div TarBlock) * TarBlock = a - (a % TarBlock) /\ (a \div TarBlock) * TarBlock \in Nat
                     /\ a % TarBlock >= 0 /\ a % TarBlock < TarBlock
  BY TarConstants
<1>4. s + TarBlock - 1 \in Nat
  BY <1>1, TarConstants
<1>5. /\ TarBlocks(s) = (s + TarBlock - 1) - ((s + TarBlock - 1) % TarBlock) /\ TarBlocks(s) \in Nat
      /\ (s + TarBlock - 1) % TarBlock \in Int /\ (s + TarBlock - 1) % TarBlock < TarBlock
  <2> DEFINE a == s + TarBlock - 1
  <2>1. a \in Nat
    BY <1>4
  <2>2. TarBlocks(s) = (a \div TarBlock) * TarBlock
    BY Zenon DEF TarBlocks
  <2> HIDE DEF a
  <2>3. a % TarBlock \in Int
    BY <2>1, TarConstants
  <2>4. TarBlocks(s) = a - (a % TarBlock) /\ TarBlocks(s) \in Nat /\ a % TarBlock \in Int /\ a % TarBlock < TarBlock
    BY <1>3, <2>1, <2>2, <2>3, Zenon
  <2> QED
    BY <2>4, Zenon DEF a
<1>6. s <= TarBlocks(s)
  BY <1>1, <1>4, <1>5, TarConstants
<1> QED
  BY <1>1, <1>5, <1>6

(* The archives are lists of members.                                      *)
LEMMA TarIsList ==
  ASSUME NEW archive \in TarArchives
  PROVE  /\ Len(archive) \in 0 .. TarMembers /\ Len(archive) \in Nat /\ DOMAIN archive = 1 .. Len(archive)
         /\ \A i \in 1 .. Len(archive) : archive[i].long \in BOOLEAN /\ archive[i].size \in TarSizes
<1>1. PICK n \in 0 .. TarMembers : archive \in [1 .. n -> [long : BOOLEAN, size : TarSizes]]
  BY DEF TarArchives
<1>2. Len(archive) = n /\ DOMAIN archive = 1 .. n /\ n \in Nat
  BY <1>1, TarConstants
<1>3. \A i \in 1 .. n : archive[i] \in [long : BOOLEAN, size : TarSizes]
  BY <1>1, Zenon
<1>4. \A i \in 1 .. n : archive[i].long \in BOOLEAN /\ archive[i].size \in TarSizes
  BY <1>3, Zenon
<1> QED
  BY <1>1, <1>2, <1>4

(* Where the members are: the recursion that TarAt is defined by has a     *)
(* solution, built member by member.                                       *)
TarGrows(at, archive, m) ==
  /\ at \in [1 .. m -> Nat] /\ at[1] = 0
  /\ \A i \in 1 .. m : i > 1 => at[i] = at[i - 1] + TarBlock + TarBlocks(archive[i - 1].size)

(* TarAt is that solution.                                                 *)
LEMMA TarLaidOut ==
  ASSUME NEW archive \in TarArchives
  PROVE  TarGrows(TarAt(archive), archive, Len(archive) + 1)
<1> DEFINE n == Len(archive) + 1
           size(i) == archive[i - 1].size
           Body(f) == [i \in 1 .. n |-> IF i = 1 THEN 0 ELSE f[i - 1] + TarBlock + TarBlocks(size(i))]
           T == {m \in 1 .. n : \E f : TarGrows(f, archive, m)}
<1>1. n \in Nat /\ n >= 1 /\ \A i \in 1 .. n : i > 1 => TarBlocks(size(i)) \in Nat
  BY TarIsList, TarPadding
<1>2. TarBlock \in Nat
  BY TarConstants
<1>3. 1 \in T
  <2>1. TarGrows([i \in 1 .. 1 |-> 0], archive, 1)
    BY DEF TarGrows
  <2> QED
    BY <1>1, <2>1
<1>4. ASSUME NEW m \in T, m < n
      PROVE  m + 1 \in T
  <2>1. PICK f : TarGrows(f, archive, m)
    OBVIOUS
  <2> DEFINE g == [i \in 1 .. m + 1 |-> IF i <= m THEN f[i] ELSE f[m] + TarBlock + TarBlocks(size(m + 1))]
  <2>2. m \in Nat /\ m >= 1 /\ m + 1 \in 1 .. n
    BY <1>1, <1>4
  <2>3. f \in [1 .. m -> Nat] /\ f[1] = 0 /\ f[m] \in Nat
    BY <2>1, <2>2 DEF TarGrows
  <2>4. TarBlocks(size(m + 1)) \in Nat
    <3> HIDE DEF size
    <3>1. m + 1 > 1
      BY <2>2
    <3> QED
      BY <1>1, <2>2, <3>1, Zenon
  <2>5. \A i \in 1 .. m : i > 1 => f[i] = f[i - 1] + TarBlock + TarBlocks(size(i))
    BY <2>1 DEF TarGrows
  <2> HIDE DEF size
  <2>6. g \in [1 .. m + 1 -> Nat] /\ g[1] = 0
    BY <1>2, <2>2, <2>3, <2>4
  <2>7. ASSUME NEW i \in 1 .. m + 1, i > 1
        PROVE  g[i] = g[i - 1] + TarBlock + TarBlocks(size(i))
    <3>1. CASE i <= m
      <4>1. g[i] = f[i] /\ g[i - 1] = f[i - 1]
        BY <2>2, <2>7, <3>1
      <4> QED
        BY <2>5, <2>7, <3>1, <4>1
    <3>2. CASE i = m + 1
      BY <2>2, <2>7, <3>2
    <3> QED
      BY <2>2, <2>7, <3>1, <3>2
  <2> HIDE DEF g
  <2>8. TarGrows(g, archive, m + 1)
    BY <2>6, <2>7 DEF TarGrows, size
  <2> QED
    BY <2>2, <2>8
<1>5. n \in T
  <2>1. T \in SUBSET Nat /\ n \in Nat /\ n \in 1 .. n
    BY <1>1
  <2> HIDE DEF T
  <2>2. 1 .. n \subseteq T
    BY <1>3, <1>4, <2>1, CountingUp, Zenon
  <2> QED
    BY <2>1, <2>2
<1>6. PICK f : TarGrows(f, archive, n)
  BY <1>5
<1>7. f = Body(f)
  <2>1. f \in [1 .. n -> Nat] /\ f[1] = 0 /\ \A i \in 1 .. n : i > 1 => f[i] = f[i - 1] + TarBlock + TarBlocks(size(i))
    BY <1>6 DEF TarGrows
  <2> HIDE DEF size
  <2>2. \A i \in 1 .. n : f[i] = Body(f)[i]
    BY <1>1, <2>1
  <2> QED
    BY <2>1, <2>2
<1>8. TarAt(archive) = Body(TarAt(archive))
  <2>1. TarAt(archive) = CHOOSE at : at = Body(at)
    BY DEF TarAt
  <2> HIDE DEF Body
  <2> QED
    BY <1>7, <2>1, Zenon
<1> DEFINE at == TarAt(archive)
<1>9. /\ DOMAIN at = 1 .. n /\ at = [i \in 1 .. n |-> at[i]] /\ at[1] = 0
      /\ \A i \in 1 .. n : i > 1 => at[i] = at[i - 1] + TarBlock + TarBlocks(size(i))
  <2> HIDE DEF at, size
  <2>1. at = Body(at)
    BY <1>8, Zenon DEF at
  <2>2. DOMAIN at = 1 .. n /\ \A i \in 1 .. n : at[i] = IF i = 1 THEN 0 ELSE at[i - 1] + TarBlock + TarBlocks(size(i))
    BY <2>1
  <2>3. at = [i \in 1 .. n |-> at[i]]
    BY <2>1, <2>2, Zenon
  <2>4. at[1] = 0
    BY <1>1, <2>2
  <2>5. ASSUME NEW i \in 1 .. n, i > 1
        PROVE  at[i] = at[i - 1] + TarBlock + TarBlocks(size(i))
    <3>1. i # 1
      BY <1>1, <2>5
    <3> QED
      BY <2>2, <3>1, Zenon
  <2> QED
    BY <2>2, <2>3, <2>4, <2>5, Zenon
<1> HIDE DEF at
<1>10. 1 .. n \subseteq {m \in 1 .. n : at[m] \in Nat}
  <2> DEFINE N == {m \in 1 .. n : at[m] \in Nat}
  <2>1. N \in SUBSET Nat /\ n \in Nat /\ 1 \in N
    BY <1>1, <1>9
  <2>2. ASSUME NEW m \in N, m < n
        PROVE  m + 1 \in N
    <3> HIDE DEF size
    <3>1. m + 1 \in 1 .. n /\ m + 1 > 1 /\ (m + 1) - 1 = m /\ at[m] \in Nat
      BY <1>1, <2>2
    <3>2. at[m + 1] = at[(m + 1) - 1] + TarBlock + TarBlocks(size(m + 1)) /\ TarBlocks(size(m + 1)) \in Nat
      BY <1>1, <1>9, <3>1, Zenon
    <3> QED
      BY <1>2, <3>1, <3>2
  <2> HIDE DEF N
  <2>3. 1 .. n \subseteq N
    BY <2>1, <2>2, CountingUp, Zenon
  <2> QED
    BY <2>3 DEF N
<1>11. at \in [1 .. n -> Nat]
  BY <1>9, <1>10
<1> QED
  BY <1>9, <1>11 DEF TarGrows, at

(* Headers follow one another by a block at least.                         *)
TarSpread(at, archive) ==
  /\ at \in [1 .. Len(archive) + 1 -> Nat] /\ at[1] = 0
  /\ \A i \in 1 .. Len(archive) : at[i + 1] = at[i] + TarBlock + TarBlocks(archive[i].size)
  /\ \A i, j \in 1 .. Len(archive) + 1 : i < j => at[i] + TarBlock <= at[j]

(* The members of every archive are so.                                    *)
LEMMA TarIsSpread ==
  ASSUME NEW archive \in TarArchives
  PROVE  TarSpread(TarAt(archive), archive)
<1> DEFINE n == Len(archive) + 1
           at == TarAt(archive)
<1>1. Len(archive) \in Nat /\ n \in Nat /\ n >= 1 /\ TarBlock \in Nat /\ TarBlock > 0
  BY TarIsList, TarConstants
<1>2. TarGrows(at, archive, n)
  BY TarLaidOut
<1>3. at \in [1 .. n -> Nat] /\ at[1] = 0
  BY <1>2 DEF TarGrows
<1>4. \A i \in 1 .. n : i > 1 => at[i] = at[i - 1] + TarBlock + TarBlocks(archive[i - 1].size)
  BY <1>2, Zenon DEF TarGrows
<1> HIDE DEF at
<1>5. ASSUME NEW i \in 1 .. Len(archive)
      PROVE  at[i + 1] = at[i] + TarBlock + TarBlocks(archive[i].size)
  <2>1. i + 1 \in 1 .. n /\ i + 1 > 1 /\ (i + 1) - 1 = i
    BY <1>1
  <2>2. at[i + 1] = at[(i + 1) - 1] + TarBlock + TarBlocks(archive[(i + 1) - 1].size)
    BY <1>4, <2>1, Zenon
  <2> QED
    BY <2>1, <2>2, Zenon
<1>6. ASSUME NEW i \in 1 .. Len(archive)
      PROVE  at[i] \in Nat /\ at[i + 1] \in Nat /\ at[i] + TarBlock <= at[i + 1]
  <2>1. TarBlocks(archive[i].size) \in Nat
    BY TarIsList, TarPadding
  <2>2. at[i] \in Nat /\ at[i + 1] \in Nat
    BY <1>1, <1>3
  <2> QED
    BY <1>1, <1>5, <2>1, <2>2
<1>7. ASSUME NEW i \in 1 .. n, NEW j \in 1 .. n, i < j
      PROVE  at[i] + TarBlock <= at[j]
  <2> DEFINE T == {m \in 1 .. n : \A k \in 1 .. n : k < m => at[k] + TarBlock <= at[m]}
  <2>1. T \in SUBSET Nat /\ 1 \in T
    BY <1>1
  <2>2. ASSUME NEW m \in T, m < n
        PROVE  m + 1 \in T
    <3>1. m \in 1 .. Len(archive) /\ m + 1 \in 1 .. n
      BY <1>1, <2>2
    <3>2. at[m] \in Nat /\ at[m + 1] \in Nat /\ at[m] + TarBlock <= at[m + 1]
      BY <1>6, <3>1
    <3>3. ASSUME NEW k \in 1 .. n, k < m + 1
          PROVE  at[k] + TarBlock <= at[m + 1]
      <4>1. at[k] \in Nat
        BY <1>3
      <4>2. CASE k = m
        BY <3>2, <4>2
      <4>3. CASE k < m
        BY <1>1, <2>2, <3>2, <4>1, <4>3, SMTT(30)
      <4>4. k = m \/ k < m
        BY <3>1, <3>3
      <4> QED
        BY <4>2, <4>3, <4>4
    <3> QED
      BY <3>1, <3>3
  <2> HIDE DEF T
  <2>3. 1 .. n \subseteq T
    BY <1>1, <2>1, <2>2, CountingUp, Zenon
  <2>4. j \in T
    BY <2>3
  <2> QED
    BY <1>7, <2>4 DEF T
<1> QED
  BY <1>3, <1>5, <1>7 DEF TarSpread, at

(* From one header the program goes to the next: nothing wraps.            *)
LEMMA TarGoesOn ==
  ASSUME NEW s \in TarSizes, tar_offs \in Nat, tar_offs + TarBlock + TarBlocks(s) < TarWord \div 2
  PROVE  TarAdvance(TarOctal(s)) = tar_offs + TarBlock + TarBlocks(s)
<1> DEFINE half == TarWord \div 2
           next == tar_offs + TarBlock + TarBlocks(s)
           sum == s + TarBlock - 1
<1>1. /\ TarBlock \in Nat /\ TarBlock > 0 /\ half \in Nat /\ TarWord \in Nat /\ TarWord = 2 * half /\ s \in Nat
      /\ TarBlocks(s) \in Nat /\ s <= TarBlocks(s)
  BY TarConstants, TarPadding
<1>2. TarBlocks(s) = sum - (sum % TarBlock)
  BY TarPadding
<1>3. \A n \in Nat : n < TarWord => n % TarWord = n
  BY <1>1
<1>4. s < TarWord /\ sum \in Nat /\ sum < TarWord /\ next \in Nat /\ next < half /\ next < TarWord
  BY <1>1
<1>5. TarOctal(s) = s /\ sum % TarWord = sum /\ next % TarWord = next
  BY <1>1, <1>3, <1>4 DEF TarOctal
<1>6. TarAdvance(s) = TarSigned(next)
  <2>1. TarAdvance(s) = TarSigned(tar_offs + TarBlock + ((sum % TarWord) - ((sum % TarWord) % TarBlock)))
    BY DEF TarAdvance
  <2> QED
    BY <1>2, <1>5, <2>1
<1>7. TarSigned(next) = next
  <2> HIDE DEF next
  <2> QED
    BY <1>4, <1>5 DEF TarSigned
<1> QED
  BY <1>5, <1>6, <1>7

-----------------------------------------------------------------------------
(* The long name before a member, 0 for none.                              *)
TarNamed(i) == IF i > 1 /\ tar_archive[i - 1].long THEN i - 1 ELSE 0

(* The program is at a header, or at the end: those before it are in the   *)
(* file and have been listed.                                              *)
TarReads(i) ==
  LET at == TarAt(tar_archive)
  IN /\ i \in 1 .. Len(tar_archive) + 1 /\ tar_offs = at[i] /\ tar_name = TarNamed(i)
     /\ \A j \in 1 .. i - 1 : at[j] + TarBlock <= tar_size
     /\ tar_out \in Seq(Nat \X Nat) /\ Len(tar_out) < i
     /\ \A j \in 1 .. i - 1 : tar_archive[j].long \/ \E k \in 1 .. Len(tar_out) : tar_out[k][1] = j
     /\ \A k \in 1 .. Len(tar_out) :
          /\ tar_out[k][1] \in 1 .. i - 1 /\ ~tar_archive[tar_out[k][1]].long
          /\ tar_out[k][2] = TarNamed(tar_out[k][1])
          /\ k > 1 => tar_out[k - 1][1] < tar_out[k][1]

(* What the program keeps while it reads a file that fits: it is at a      *)
(* header or at the end, and stops where the rest of the headers is not in *)
(* the file.                                                               *)
TarInv ==
  /\ tar_archive \in TarArchives /\ TarFits
  /\ tar_file \in Nat /\ tar_size = tar_file
  /\ tar_file <= TarAt(tar_archive)[Len(tar_archive) + 1] + 2 * TarBlock
  /\ tar_pc \in {"run", "end", "size"}
  /\ \E i \in 1 .. Len(tar_archive) + 1 :
       /\ TarReads(i)
       /\ tar_pc # "run" => \A j \in i .. Len(tar_archive) : TarAt(tar_archive)[j] + TarBlock > tar_size

(* The program begins at the first header.                                 *)
LEMMA TarStarts == TarInit /\ TarFits => TarInv
<1> SUFFICES ASSUME TarInit, TarFits
             PROVE  TarInv
  OBVIOUS
<1>1. /\ tar_archive \in TarArchives /\ tar_offs = 0 /\ tar_name = 0 /\ tar_out = <<>> /\ tar_pc = "run"
      /\ tar_file \in 0 .. TarAt(tar_archive)[Len(tar_archive) + 1] + 2 * TarBlock
  BY DEF TarInit
<1>2. TarAt(tar_archive)[1] = 0 /\ Len(tar_archive) \in Nat
  BY <1>1, TarIsSpread, TarIsList DEF TarSpread
<1>3. TarReads(1)
  BY <1>1, <1>2 DEF TarReads, TarNamed
<1>4. tar_size = tar_file
  <2>1. tar_file \in Nat /\ tar_file < TarWord \div 2
    BY <1>1 DEF TarFits
  <2>2. tar_file % TarWord = tar_file
    BY <2>1, TarConstants
  <2> QED
    BY <2>1, <2>2 DEF TarInit, TarSigned
<1> QED
  BY <1>1, <1>2, <1>3, <1>4 DEF TarInv

(* Where a header ends that is in such a file, an int counts.              *)
LEMMA TarCounts ==
  ASSUME TarInv, NEW i \in 1 .. Len(tar_archive), TarAt(tar_archive)[i] + TarBlock <= tar_size
  PROVE  TarAt(tar_archive)[i + 1] < TarWord \div 2
<1>1. i \in DOMAIN tar_archive
  BY TarIsList, Zenon DEF TarInv
<1> QED
  BY <1>1, Zenon DEF TarInv, TarFits

(* What is left of the file is an int at each header, and at the end.      *)
LEMMA TarLeft ==
  ASSUME TarInv, NEW h \in 1 .. Len(tar_archive) + 1, TarReads(h)
  PROVE  /\ tar_offs \in 0 .. (TarWord \div 2) - 1 /\ tar_size - tar_offs \in TarInts
         /\ TarMore <=> tar_size - tar_offs >= TarBlock
         /\ TarOver <=> tar_size - tar_offs < TarBlock
<1> DEFINE at == TarAt(tar_archive)
<1>1. Len(tar_archive) \in Nat /\ at \in [1 .. Len(tar_archive) + 1 -> Nat] /\ at[1] = 0
  BY TarIsList, TarIsSpread DEF TarInv, TarSpread
<1>2. tar_offs = at[h] /\ \A j \in 1 .. h - 1 : at[j] + TarBlock <= tar_size
  BY DEF TarReads
<1>3. TarWord \div 2 \in Nat /\ TarWord \div 2 > 0
  BY TarConstants
<1>4. at[h] \in Nat /\ at[h] < TarWord \div 2
  <2>1. CASE h = 1
    BY <1>1, <1>3, <2>1
  <2>2. CASE h # 1
    <3>1. h - 1 \in 1 .. Len(tar_archive) /\ h - 1 \in 1 .. h - 1 /\ (h - 1) + 1 = h
      BY <1>1, <2>2
    <3>2. at[h - 1] + TarBlock <= tar_size
      BY <1>2, <3>1, Zenon
    <3> HIDE DEF at
    <3>3. at[(h - 1) + 1] < TarWord \div 2
      BY <3>1, <3>2, TarCounts, Zenon DEF at
    <3> QED
      BY <1>1, <3>1, <3>3
  <2> QED
    BY <2>1, <2>2
<1>5. tar_size \in Nat /\ tar_size < TarWord \div 2
  BY DEF TarInv, TarFits
<1>6. tar_offs \in 0 .. (TarWord \div 2) - 1
  BY <1>2, <1>3, <1>4
<1>7. tar_size - tar_offs \in TarInts
  BY <1>3, <1>5, <1>6 DEF TarInts
<1> QED
  BY <1>6, <1>7 DEF TarMore, TarOver

(* A header is listed, or its name kept.                                   *)
LEMMA TarHeaders ==
  ASSUME TarInv, tar_pc = "run", TarMore, NEW i \in 1 .. TarMembers, TarHeader(i), UNCHANGED <<tar_archive, tar_file, tar_size>>
  PROVE  TarInv'
<1> DEFINE at == TarAt(tar_archive)
           n == Len(tar_archive)
<1>1. PICK h \in 1 .. n + 1 : TarReads(h)
  BY DEF TarInv
<1>2. /\ tar_archive \in TarArchives /\ n \in Nat /\ DOMAIN tar_archive = 1 .. n /\ TarSpread(at, tar_archive)
      /\ \A j \in 1 .. n : tar_archive[j].long \in BOOLEAN /\ tar_archive[j].size \in TarSizes
  BY TarIsSpread, TarIsList DEF TarInv
<1> HIDE DEF at
<1>3. /\ at \in [1 .. n + 1 -> Nat]
      /\ \A j, k \in 1 .. n + 1 : j < k => at[j] + TarBlock <= at[k]
      /\ TarBlock \in Nat /\ TarBlock > 0 /\ TarWord \div 2 \in Nat
  BY <1>2, TarConstants DEF TarSpread
<1>0. \A j \in 1 .. n + 1 : at[j] \in Nat
  BY <1>3, Zenon
<1>4. tar_offs = at[h] /\ tar_offs = at[i] /\ i \in 1 .. n /\ i \in 1 .. n + 1
  BY <1>1, <1>2 DEF TarReads, TarHeader, at
<1>5. i = h
  <2>1. at[i] \in Nat /\ at[h] \in Nat /\ at[i] = at[h]
    BY <1>0, <1>4, Zenon
  <2>2. (i < h => at[i] + TarBlock <= at[h]) /\ (h < i => at[h] + TarBlock <= at[i])
    BY <1>3, <1>4, Zenon
  <2> QED
    BY <1>2, <1>3, <1>4, <2>1, <2>2
<1>7. tar_size \in Nat /\ at[i] + TarBlock <= tar_size
  <2>1. tar_size \in Nat
    BY DEF TarInv
  <2>2. at[i] \in Nat /\ tar_size - at[i] >= TarBlock
    <3>1. tar_size - tar_offs >= TarBlock
      BY <1>1, TarLeft
    <3> QED
      BY <1>0, <1>4, <3>1
  <2> QED
    BY <1>3, <2>1, <2>2
<1>6. tar_offs' = at[i + 1]
  <2>1. at[i + 1] = at[i] + TarBlock + TarBlocks(tar_archive[i].size)
    BY <1>2, <1>4 DEF TarSpread
  <2>2. at[i] \in Nat
    BY <1>0, <1>4, Zenon
  <2>3. at[i + 1] < TarWord \div 2
    BY <1>4, <1>7, TarCounts, Zenon DEF at
  <2>4. tar_archive[i].size \in TarSizes
    BY <1>2, <1>4
  <2> QED
    BY <1>4, <2>1, <2>2, <2>3, <2>4, TarGoesOn DEF TarHeader
<1>8. tar_archive' = tar_archive /\ tar_file' = tar_file /\ tar_size' = tar_size /\ tar_pc' = tar_pc
  BY DEF TarHeader
<1>9. /\ tar_out \in Seq(Nat \X Nat) /\ Len(tar_out) < i /\ tar_name = TarNamed(i) /\ i + 1 \in 1 .. n + 1
      /\ Len(tar_out) \in Nat /\ i \in Nat /\ (i + 1) - 1 = i
  BY <1>1, <1>2, <1>4, <1>5 DEF TarReads
<1>10. \A j \in 1 .. i - 1 : at[j] + TarBlock <= tar_size
  BY <1>1, <1>5 DEF TarReads, at
<1>11. \A j \in 1 .. i - 1 : tar_archive[j].long \/ \E k \in 1 .. Len(tar_out) : tar_out[k][1] = j
  BY <1>1, <1>5 DEF TarReads
<1>12. \A k \in 1 .. Len(tar_out) :
          /\ tar_out[k][1] \in 1 .. i - 1 /\ ~tar_archive[tar_out[k][1]].long
          /\ tar_out[k][2] = TarNamed(tar_out[k][1])
          /\ k > 1 => tar_out[k - 1][1] < tar_out[k][1]
  BY <1>1, <1>5 DEF TarReads
<1>13. \A j \in 1 .. i : at[j] + TarBlock <= tar_size
  BY <1>7, <1>9, <1>10
<1>14. TarReads(i + 1)'
  <2> DEFINE At == TarAt(tar_archive')
             Named(j) == IF j > 1 /\ tar_archive[j - 1].long THEN j - 1 ELSE 0
  <2>1. \A j : TarNamed(j) = Named(j) /\ TarNamed(j)' = Named(j)
    BY <1>8 DEF TarNamed
  <2> HIDE DEF Named
  <2>2. SUFFICES /\ tar_name' = Named(i + 1) /\ tar_out' \in Seq(Nat \X Nat) /\ Len(tar_out') < i + 1
                 /\ \A j \in 1 .. i : tar_archive[j].long \/ \E k \in 1 .. Len(tar_out') : tar_out'[k][1] = j
                 /\ \A k \in 1 .. Len(tar_out') :
                      /\ tar_out'[k][1] \in 1 .. i /\ ~tar_archive[tar_out'[k][1]].long
                      /\ tar_out'[k][2] = Named(tar_out'[k][1])
                      /\ k > 1 => tar_out'[k - 1][1] < tar_out'[k][1]
    BY <1>6, <1>8, <1>9, <1>13, <2>1, Zenon DEF TarReads, at
  <2>3. CASE tar_archive[i].long
    <3>1. tar_name' = i /\ tar_out' = tar_out
      BY <2>3 DEF TarHeader
    <3>2. Named(i + 1) = i
      BY <1>4, <1>9, <2>3 DEF Named
    <3>3. \A j \in 1 .. i : tar_archive[j].long \/ \E k \in 1 .. Len(tar_out) : tar_out[k][1] = j
      <4> SUFFICES ASSUME NEW j \in 1 .. i, ~tar_archive[j].long
                   PROVE  \E k \in 1 .. Len(tar_out) : tar_out[k][1] = j
        OBVIOUS
      <4>1. j # i
        BY <2>3, Zenon
      <4>2. j \in 1 .. i - 1
        BY <1>9, <4>1
      <4> QED
        BY <1>11, <4>2, Zenon
    <3>4. \A j \in 1 .. i - 1 : j \in 1 .. i
      BY <1>9
    <3>5. Len(tar_out) < i + 1
      BY <1>9
    <3> QED
      BY <1>9, <1>12, <2>1, <3>1, <3>2, <3>3, <3>4, <3>5, Zenon
  <2>4. CASE ~tar_archive[i].long
    <3> DEFINE o == Append(tar_out, <<i, tar_name>>)
               l == Len(tar_out) + 1
    <3>1. tar_name' = 0 /\ tar_out' = o
      BY <2>4 DEF TarHeader
    <3>2. Named(i + 1) = 0
      BY <1>9, <2>4, Zenon DEF Named
    <3>3. TarNamed(i) \in Nat
      BY <1>9 DEF TarNamed
    <3>4. <<i, tar_name>> \in Nat \X Nat
      BY <1>9, <3>3
    <3>5. /\ o \in Seq(Nat \X Nat) /\ Len(o) = l /\ o[l] = <<i, tar_name>>
          /\ \A k \in 1 .. Len(tar_out) : o[k] = tar_out[k]
      BY <1>9, <3>4, AppendProperties
    <3>6. /\ l \in Nat /\ l < i + 1 /\ l \in 1 .. l /\ l - 1 = Len(tar_out)
          /\ \A k \in 1 .. l : k = l \/ k \in 1 .. Len(tar_out)
          /\ \A k \in 1 .. l : k > 1 => k - 1 \in 1 .. Len(tar_out)
          /\ \A k \in 1 .. Len(tar_out) : k \in 1 .. l
      BY <1>9, SMTT(30)
    <3>7. o[l][1] = i /\ o[l][2] = Named(i)
      BY <1>9, <2>1, <3>5
    <3> HIDE DEF o, l
    <3>8. \A j \in 1 .. i : tar_archive[j].long \/ \E k \in 1 .. l : o[k][1] = j
      <4> SUFFICES ASSUME NEW j \in 1 .. i, ~tar_archive[j].long
                   PROVE  \E k \in 1 .. l : o[k][1] = j
        OBVIOUS
      <4>1. CASE j = i
        BY <3>6, <3>7, <4>1, Zenon
      <4>2. CASE j # i
        <5>1. j \in 1 .. i - 1
          BY <1>9, <4>2
        <5>2. PICK k \in 1 .. Len(tar_out) : tar_out[k][1] = j
          BY <1>11, <5>1, Zenon
        <5>3. k \in 1 .. l /\ o[k] = tar_out[k]
          BY <3>5, <3>6, Zenon
        <5> QED
          BY <5>2, <5>3, Zenon
      <4> QED
        BY <4>1, <4>2
    <3>9. ASSUME NEW k \in 1 .. l
          PROVE  /\ o[k][1] \in 1 .. i /\ ~tar_archive[o[k][1]].long
                 /\ o[k][2] = Named(o[k][1])
                 /\ k > 1 => o[k - 1][1] < o[k][1]
      <4>1. CASE k = l
        <5>1. o[k][1] \in 1 .. i
          BY <1>9, <3>7, <4>1
        <5>2. ~tar_archive[o[k][1]].long /\ o[k][2] = Named(o[k][1])
          BY <2>4, <3>7, <4>1, Zenon
        <5>3. ASSUME k > 1
              PROVE  o[k - 1][1] < o[k][1]
          <6>1. k - 1 \in 1 .. Len(tar_out)
            BY <3>6, <5>3, Zenon
          <6>2. o[k - 1] = tar_out[k - 1] /\ tar_out[k - 1][1] \in 1 .. i - 1
            BY <1>12, <3>5, <6>1, Zenon
          <6>3. tar_out[k - 1][1] < i
            BY <1>9, <6>2
          <6> QED
            BY <3>7, <4>1, <6>2, <6>3, Zenon
        <5> QED
          BY <5>1, <5>2, <5>3, Zenon
      <4>2. CASE k # l
        <5>1. k \in 1 .. Len(tar_out) /\ o[k] = tar_out[k]
          BY <3>5, <3>6, <4>2, Zenon
        <5>2. /\ o[k][1] \in 1 .. i - 1 /\ ~tar_archive[o[k][1]].long /\ o[k][2] = Named(o[k][1])
              /\ k > 1 => tar_out[k - 1][1] < o[k][1]
          BY <1>12, <2>1, <5>1, Zenon
        <5>3. o[k][1] \in 1 .. i
          BY <1>9, <5>2
        <5>4. ASSUME k > 1
              PROVE  o[k - 1][1] < o[k][1]
          <6>1. o[k - 1] = tar_out[k - 1]
            BY <3>5, <3>6, <5>4, Zenon
          <6> QED
            BY <5>2, <5>4, <6>1, Zenon
        <5> QED
          BY <5>2, <5>3, <5>4, Zenon
      <4> QED
        BY <4>1, <4>2
    <3> QED
      BY <3>1, <3>2, <3>5, <3>6, <3>8, <3>9, Zenon
  <2> QED
    BY <2>3, <2>4
<1>15. TarInv'
  <2>1. TarAt(tar_archive)' = TarAt(tar_archive) /\ tar_pc' = "run"
    BY <1>8
  <2>2. /\ tar_archive' \in TarArchives /\ tar_pc' \in {"run", "end", "size"} /\ TarFits'
        /\ (tar_file \in Nat /\ tar_size = tar_file)'
        /\ (tar_file <= TarAt(tar_archive)[Len(tar_archive) + 1] + 2 * TarBlock)'
    BY <1>8, <2>1 DEF TarInv, TarFits
  <2>3. (i + 1 \in 1 .. Len(tar_archive) + 1)'
    BY <1>8, <1>9
  <2> QED
    BY <1>14, <2>1, <2>2, <2>3 DEF TarInv
<1> QED
  BY <1>15

(* The program stops only behind the last header that is in the file.      *)
LEMMA TarStops ==
  ASSUME TarInv, tar_pc = "run", UNCHANGED <<tar_archive, tar_file, tar_size, tar_offs, tar_name, tar_out>>,
         \/ TarMore /\ TarNoHeader
         \/ TarOver /\ tar_pc' = "size"
  PROVE  TarInv'
<1> DEFINE at == TarAt(tar_archive)
           n == Len(tar_archive)
<1>1. PICK h \in 1 .. n + 1 : TarReads(h)
  BY DEF TarInv
<1>2. /\ tar_archive \in TarArchives /\ n \in Nat /\ DOMAIN tar_archive = 1 .. n /\ TarSpread(at, tar_archive)
  BY TarIsSpread, TarIsList DEF TarInv
<1> HIDE DEF at
<1>3. /\ at \in [1 .. n + 1 -> Nat]
      /\ \A j, k \in 1 .. n + 1 : j < k => at[j] + TarBlock <= at[k]
      /\ TarBlock \in Nat /\ TarBlock > 0
  BY <1>2, TarConstants DEF TarSpread
<1>4. tar_offs = at[h] /\ at[h] \in Nat
  BY <1>1, <1>3 DEF TarReads, at
<1>5. tar_size \in Nat
  BY DEF TarInv
<1>6. tar_pc' \in {"end", "size"} /\ \A j \in h .. n : at[j] + TarBlock > tar_size
  <2>1. CASE TarMore /\ TarNoHeader
    <3>1. h = n + 1
      <4>1. \A j \in 1 .. n : at[j] # tar_offs
        BY <1>2, <2>1 DEF TarNoHeader, at
      <4> QED
        BY <1>2, <1>4, <4>1
    <3>2. tar_size - at[h] >= TarBlock
      BY <1>1, <1>4, <2>1, TarLeft
    <3>3. ~(tar_offs < 0 \/ tar_offs + TarBlock > tar_size)
      BY <1>3, <1>4, <1>5, <3>2
    <3>4. tar_offs >= at[n + 1]
      BY <1>4, <3>1
    <3>5. tar_pc' = "end"
      BY <2>1, <3>3, <3>4 DEF TarNoHeader, at
    <3> QED
      BY <1>2, <3>1, <3>5
  <2>2. CASE TarOver /\ tar_pc' = "size"
    <3>1. tar_size - at[h] < TarBlock
      BY <1>1, <1>4, <2>2, TarLeft
    <3>2. ASSUME NEW j \in h .. n
          PROVE  at[j] + TarBlock > tar_size
      <4>1. at[j] \in Nat /\ j \in 1 .. n + 1
        BY <1>2, <1>3
      <4>2. at[h] <= at[j]
        BY <1>2, <1>3, <1>4, <4>1
      <4> QED
        BY <1>3, <1>4, <1>5, <3>1, <4>1, <4>2
    <3> QED
      BY <2>2, <3>2
  <2> QED
    BY <2>1, <2>2
<1>7. TarReads(h)'
  BY <1>1 DEF TarReads, TarNamed
<1>8. tar_archive' = tar_archive /\ tar_file' = tar_file /\ tar_size' = tar_size
  OBVIOUS
<1>9. /\ (tar_archive \in TarArchives)' /\ TarFits' /\ (tar_file \in Nat /\ tar_size = tar_file)'
      /\ (tar_file <= TarAt(tar_archive)[Len(tar_archive) + 1] + 2 * TarBlock)'
      /\ (h \in 1 .. Len(tar_archive) + 1)' /\ tar_pc' \in {"run", "end", "size"}
      /\ (\A j \in h .. Len(tar_archive) : TarAt(tar_archive)[j] + TarBlock > tar_size)'
  BY <1>6, <1>8 DEF TarInv, TarFits, at
<1> QED
  BY <1>7, <1>9 DEF TarInv

(* The archive, and whether it fits, stay as they are.                     *)
TarKept == TarFits => TarInv

(* It is at a header or at the end in every state, if the file fits.       *)
LEMMA TarInvariant == TarSpec => []TarKept
<1>1. TarInit => TarKept
  BY TarStarts DEF TarKept
<1>2. TarKept /\ [TarStep]_tarVars => TarKept'
  <2> SUFFICES ASSUME TarKept, [TarStep]_tarVars, TarFits'
               PROVE  TarInv'
    BY DEF TarKept
  <2>0. TarInv
    <3>1. tar_archive' = tar_archive /\ tar_file' = tar_file
      BY DEF TarStep, tarVars
    <3> QED
      BY <3>1 DEF TarKept, TarFits
  <2>1. CASE TarStep
    <3>1. tar_pc = "run" /\ UNCHANGED <<tar_archive, tar_file, tar_size>>
      BY <2>1 DEF TarStep
    <3>2. CASE TarMore /\ \E i \in 1 .. TarMembers : TarHeader(i)
      BY <2>0, <3>1, <3>2, TarHeaders
    <3>3. CASE TarMore /\ TarNoHeader
      <4>1. UNCHANGED <<tar_offs, tar_name, tar_out>>
        BY <3>3 DEF TarNoHeader
      <4> QED
        BY <2>0, <3>1, <3>3, <4>1, TarStops
    <3>4. CASE TarOver /\ tar_pc' = "size" /\ UNCHANGED <<tar_offs, tar_name, tar_out>>
      BY <2>0, <3>1, <3>4, TarStops
    <3> QED
      BY <2>1, <3>2, <3>3, <3>4 DEF TarStep
  <2>2. CASE UNCHANGED tarVars
    <3>1. /\ tar_archive' = tar_archive /\ tar_file' = tar_file /\ tar_size' = tar_size /\ tar_offs' = tar_offs
          /\ tar_name' = tar_name /\ tar_out' = tar_out /\ tar_pc' = tar_pc
      BY <2>2 DEF tarVars
    <3>2. ASSUME NEW h, TarReads(h)
          PROVE  TarReads(h)'
      BY <3>1, <3>2 DEF TarReads, TarNamed
    <3>3. TarFits'
      OBVIOUS
    <3> QED
      BY <2>0, <3>1, <3>2, <3>3, Zenon DEF TarInv
  <2> QED
    BY <2>1, <2>2
<1> QED
  BY <1>1, <1>2, PTL DEF TarSpec

(* Whatever the file is, what is kept of it has its type.                  *)
TarTypes == TarTypeOK /\ tar_out \in Seq(Nat \X Nat)

(* What is assigned to an int is one.                                      *)
LEMMA TarSignedIsInt == ASSUME NEW n \in Int PROVE TarSigned(n) \in TarInts
<1>1. n % TarWord \in 0 .. TarWord - 1
  BY TarConstants
<1> DEFINE w == n % TarWord
<1> HIDE DEF w
<1>2. w \in 0 .. TarWord - 1 /\ TarSigned(n) = IF w < TarWord \div 2 THEN w ELSE w - TarWord
  BY <1>1 DEF w, TarSigned
<1> QED
  BY <1>2, TarConstants DEF TarInts

(* Every step keeps that.                                                  *)
LEMMA TarTypesKept == TarSpec => []TarTypes
<1>1. TarInit => TarTypes
  <2> SUFFICES ASSUME TarInit
               PROVE  TarTypes
    OBVIOUS
  <2>1. tar_archive \in TarArchives /\ tar_size = TarSigned(tar_file)
    BY DEF TarInit
  <2>2. tar_file \in Nat
    BY DEF TarInit
  <2>3. tar_offs = 0 /\ tar_name = 0 /\ tar_out = <<>> /\ tar_pc = "run"
    BY DEF TarInit
  <2>4. tar_size \in TarInts
    BY <2>1, <2>2, TarSignedIsInt
  <2>5. tar_offs \in TarInts /\ tar_name \in 0 .. Len(tar_archive) /\ Len(tar_out) <= TarLines
    BY <2>1, <2>3, TarConstants, TarIsList, TarAssumption DEF TarInts
  <2> QED
    BY <2>1, <2>2, <2>3, <2>4, <2>5 DEF TarTypes, TarTypeOK
<1>2. TarTypes /\ [TarStep]_tarVars => TarTypes'
  <2> SUFFICES ASSUME TarTypes, [TarStep]_tarVars
               PROVE  TarTypes'
    OBVIOUS
  <2>0. /\ tar_archive \in TarArchives /\ tar_file \in Nat /\ tar_size \in TarInts /\ tar_offs \in TarInts
        /\ tar_name \in 0 .. Len(tar_archive) /\ Len(tar_out) <= TarLines
        /\ tar_pc \in {"run", "end", "bad", "size", "fault"} /\ tar_out \in Seq(Nat \X Nat)
    BY DEF TarTypes, TarTypeOK
  <2>1. ASSUME UNCHANGED <<tar_archive, tar_file, tar_size, tar_offs, tar_name, tar_out>>,
               tar_pc' \in {"run", "end", "bad", "size", "fault"}
        PROVE  TarTypes'
    BY <2>0, <2>1 DEF TarTypes, TarTypeOK
  <2>2. CASE TarStep
    <3>1. UNCHANGED <<tar_archive, tar_file, tar_size>>
      BY <2>2 DEF TarStep
    <3>2. ASSUME NEW i \in 1 .. TarMembers, TarHeader(i)
          PROVE  TarTypes'
      <4>1. /\ i \in DOMAIN tar_archive /\ Len(tar_out) < TarLines /\ tar_pc' = tar_pc
            /\ tar_offs' = TarAdvance(TarOctal(tar_archive[i].size))
        BY <3>2 DEF TarHeader
      <4>2. /\ i \in 1 .. Len(tar_archive) /\ Len(tar_archive) \in Nat /\ tar_name \in Nat /\ i \in Nat
            /\ tar_archive[i].size \in Nat
        BY <2>0, <4>1, TarIsList, TarPadding
      <4>3. \/ tar_name' = i /\ tar_out' = tar_out
            \/ tar_name' = 0 /\ tar_out' = Append(tar_out, <<i, tar_name>>)
        BY <3>2 DEF TarHeader
      <4>4. tar_offs' \in TarInts
        <5>1. TarBlock \in Nat \ {0} /\ TarWord \in Nat \ {0} /\ TarWord \div 2 \in Nat
          BY TarConstants
        <5>2. \A a \in Int, b \in Nat \ {0} : a % b \in Int
          OBVIOUS
        <5> DEFINE size == TarOctal(tar_archive[i].size)
                   sum == (size + TarBlock - 1) % TarWord
        <5>3. size \in Int
          BY <4>2, <5>1 DEF TarOctal
        <5> HIDE DEF size
        <5>4. size + TarBlock - 1 \in Int
          BY <5>1, <5>3
        <5>5. sum \in Int /\ sum % TarBlock \in Int
          BY <5>1, <5>2, <5>4, Zenon
        <5> HIDE DEF sum
        <5>6. tar_offs + TarBlock + (sum - (sum % TarBlock)) \in Int
          <6>1. tar_offs \in Int
            BY <2>0, <5>1 DEF TarInts
          <6> DEFINE rest == sum % TarBlock
          <6>2. rest \in Int
            BY <5>5
          <6> HIDE DEF rest
          <6>3. tar_offs + TarBlock + (sum - rest) \in Int
            BY <5>1, <5>5, <6>1, <6>2
          <6> QED
            BY <6>3 DEF rest
        <5>7. TarAdvance(size) = TarSigned(tar_offs + TarBlock + (sum - (sum % TarBlock)))
          BY DEF TarAdvance, sum
        <5> QED
          BY <4>1, <5>6, <5>7, TarSignedIsInt, Zenon DEF size
      <4>5. tar_name' \in 0 .. Len(tar_archive)
        BY <2>0, <4>2, <4>3
      <4>6. tar_out' \in Seq(Nat \X Nat) /\ Len(tar_out') <= TarLines
        <5>1. <<i, tar_name>> \in Nat \X Nat
          BY <4>2
        <5>2. /\ Append(tar_out, <<i, tar_name>>) \in Seq(Nat \X Nat)
              /\ Len(Append(tar_out, <<i, tar_name>>)) = Len(tar_out) + 1
          BY <2>0, <5>1, AppendProperties
        <5>3. Len(tar_out) \in Nat /\ TarLines \in Nat
          BY <2>0, TarAssumption
        <5>4. CASE tar_out' = tar_out
          BY <2>0, <5>4
        <5>5. CASE tar_out' = Append(tar_out, <<i, tar_name>>)
          <6>1. Len(tar_out) + 1 <= TarLines
            BY <4>1, <5>3
          <6> QED
            BY <5>2, <5>5, <6>1, Zenon
        <5> QED
          BY <4>3, <5>4, <5>5
      <4> QED
        BY <2>0, <3>1, <4>1, <4>4, <4>5, <4>6 DEF TarTypes, TarTypeOK
    <3>3. CASE TarNoHeader
      <4>1. UNCHANGED <<tar_offs, tar_name, tar_out>> /\ tar_pc' \in {"fault", "end", "bad"}
        BY <3>3 DEF TarNoHeader
      <4> QED
        BY <2>1, <3>1, <4>1
    <3>4. CASE tar_pc' = "size" /\ UNCHANGED <<tar_offs, tar_name, tar_out>>
      BY <2>1, <3>1, <3>4
    <3> QED
      BY <2>2, <3>2, <3>3, <3>4 DEF TarStep
  <2>3. CASE UNCHANGED tarVars
    <3>1. UNCHANGED <<tar_archive, tar_file, tar_size, tar_offs, tar_name, tar_out, tar_pc>>
      BY <2>3 DEF tarVars
    <3> QED
      BY <2>0, <2>1, <3>1
  <2> QED
    BY <2>2, <2>3
<1> QED
  BY <1>1, <1>2, PTL DEF TarSpec

(* What the list has is what it should: the members whose header is in the *)
(* file, under their names.                                                *)
LEMMA TarLists == TarKept => ListsTheMembers /\ StaysOnHeaders
<1> SUFFICES ASSUME TarInv
             PROVE  ListsTheMembers /\ StaysOnHeaders
  BY DEF TarKept, ListsTheMembers, StaysOnHeaders
<1> DEFINE at == TarAt(tar_archive)
           n == Len(tar_archive)
<1>1. PICK h \in 1 .. n + 1 : /\ TarReads(h)
                              /\ tar_pc # "run" => \A j \in h .. n : at[j] + TarBlock > tar_size
  BY DEF TarInv
<1>2. /\ tar_archive \in TarArchives /\ n \in Nat /\ DOMAIN tar_archive = 1 .. n /\ TarSpread(at, tar_archive)
      /\ \A j \in 1 .. n : tar_archive[j].long \in BOOLEAN /\ tar_archive[j].size \in TarSizes
  BY TarIsSpread, TarIsList DEF TarInv
<1> HIDE DEF at
<1>3. /\ at \in [1 .. n + 1 -> Nat]
      /\ \A j, k \in 1 .. n + 1 : j < k => at[j] + TarBlock <= at[k]
      /\ \A j \in 1 .. n : at[j + 1] = at[j] + TarBlock + TarBlocks(tar_archive[j].size)
      /\ TarBlock \in Nat /\ TarBlock > 0 /\ TarWord \div 2 \in Nat
  BY <1>2, TarConstants DEF TarSpread
<1>4. /\ tar_offs = at[h] /\ tar_out \in Seq(Nat \X Nat) /\ Len(tar_out) < h /\ tar_name = TarNamed(h)
      /\ Len(tar_out) \in Nat /\ DOMAIN tar_out = 1 .. Len(tar_out) /\ h \in Nat
      /\ \A j \in 1 .. h - 1 : at[j] + TarBlock <= tar_size
      /\ \A j \in 1 .. h - 1 : tar_archive[j].long \/ \E k \in 1 .. Len(tar_out) : tar_out[k][1] = j
  BY <1>1, <1>2 DEF TarReads, at
<1>5. \A k \in 1 .. Len(tar_out) :
          /\ tar_out[k][1] \in 1 .. h - 1 /\ ~tar_archive[tar_out[k][1]].long
          /\ tar_out[k][2] = TarNamed(tar_out[k][1])
          /\ k > 1 => tar_out[k - 1][1] < tar_out[k][1]
  BY <1>1 DEF TarReads
<1>6. tar_size \in Nat /\ tar_file = tar_size
  BY DEF TarInv
<1>8. ListsTheMembers
  <2> SUFFICES ASSUME tar_pc # "run"
               PROVE  /\ {tar_out[k][1] : k \in DOMAIN tar_out}
                           = {i \in DOMAIN tar_archive : ~tar_archive[i].long /\ at[i] + TarBlock <= tar_size}
                      /\ \A k \in DOMAIN tar_out :
                           /\ k > 1 => tar_out[k - 1][1] < tar_out[k][1]
                           /\ tar_out[k][2] = TarNamed(tar_out[k][1])
    BY <1>6, Zenon DEF ListsTheMembers, at, TarNamed
  <2> DEFINE there == {i \in DOMAIN tar_archive : ~tar_archive[i].long /\ at[i] + TarBlock <= tar_size}
  <2>1. ASSUME NEW k \in DOMAIN tar_out
        PROVE  tar_out[k][1] \in there
    <3>1. tar_out[k][1] \in 1 .. h - 1 /\ ~tar_archive[tar_out[k][1]].long
      BY <1>4, <1>5, Zenon
    <3>2. tar_out[k][1] \in 1 .. n
      BY <1>2, <3>1
    <3> QED
      BY <1>2, <1>4, <3>1, <3>2, Zenon
  <2>2. ASSUME NEW i \in there
        PROVE  \E k \in DOMAIN tar_out : tar_out[k][1] = i
    <3>1. i \in 1 .. n /\ ~tar_archive[i].long /\ at[i] + TarBlock <= tar_size
      BY <1>2, Zenon
    <3>2. i \notin h .. n
      <4>1. at[i] \in Nat
        BY <1>2, <1>3, <3>1
      <4>2. ASSUME i \in h .. n
            PROVE  FALSE
        <5>1. at[i] + TarBlock > tar_size
          BY <1>1, <4>2, Zenon
        <5> QED
          BY <1>3, <1>6, <3>1, <4>1, <5>1
      <4> QED
        BY <4>2, Zenon
    <3>3. i \in 1 .. h - 1
      BY <1>2, <1>4, <3>1, <3>2
    <3> QED
      BY <1>4, <3>1, <3>3, Zenon
  <2> HIDE DEF there
  <2>3. {tar_out[k][1] : k \in DOMAIN tar_out} = there
    BY <2>1, <2>2, Zenon
  <2> QED
    BY <1>4, <1>5, <2>3, Zenon DEF there
<1>9. StaysOnHeaders
  <2>1. tar_pc \notin {"fault", "bad"}
    BY DEF TarInv
  <2>2. ASSUME NEW k \in DOMAIN tar_out, NEW i, i = tar_out[k][2], i # 0
        PROVE  at[i] + TarBlock + TarBlocks(tar_archive[i].size) <= tar_size
    <3> DEFINE j == tar_out[k][1]
    <3>1. j \in 1 .. h - 1 /\ i = TarNamed(j)
      BY <1>4, <1>5, <2>2, Zenon
    <3> HIDE DEF j
    <3>2. i = j - 1 /\ i \in 1 .. n /\ i + 1 = j
      BY <1>2, <2>2, <3>1 DEF TarNamed
    <3>3. at[j] = at[i] + TarBlock + TarBlocks(tar_archive[i].size)
      BY <1>3, <3>2, Zenon
    <3>4. at[j] + TarBlock <= tar_size
      BY <1>4, <3>1, Zenon
    <3>5. j \in 1 .. n + 1
      BY <1>2, <3>1
    <3>6. at[j] \in Nat
      BY <1>3, <3>5, Zenon
    <3> QED
      BY <1>3, <1>6, <3>3, <3>4, <3>6
  <2> QED
    BY <1>6, <2>1, <2>2, Zenon DEF StaysOnHeaders, at
<1> QED
  BY <1>8, <1>9

(* Every file that an int can count, cut anywhere: its members are listed, *)
(* in their order and under their own names (ListsTheMembers).             *)
THEOREM MembersAreListed == TarSpec => []ListsTheMembers
<1> QED
  BY TarInvariant, TarLists, PTL

(* Of such a file the program reads no header outside of it, takes no data *)
(* for one, and prints no name that is not in it (StaysOnHeaders).         *)
THEOREM HeadersAreInTheFile == TarSpec => []StaysOnHeaders
<1> QED
  BY TarInvariant, TarLists, PTL

-----------------------------------------------------------------------------
(* All of them together: whichever program runs keeps its types, and the   *)
(* ones that do not run keep theirs.                                       *)
THEOREM DesktopTypeCorrect == Spec => []DeskTypeOK
<1>1. Init => TvInit /\ WinInit /\ ShmInit /\ TarInit
  BY Zenon DEF Init
<1>2. [Next]_vars => [TvNext]_tvVars /\ [WinNext]_winVars /\ [ShmNext]_shmVars /\ [TarStep]_tarVars
  <2> SUFFICES ASSUME [Next]_vars
               PROVE  [TvNext]_tvVars /\ [WinNext]_winVars /\ [ShmNext]_shmVars /\ [TarStep]_tarVars
    OBVIOUS
  <2>1. CASE UNCHANGED vars
    BY <2>1 DEF vars
  <2>2. CASE Next
    BY <2>2, Zenon DEF Next, RunTv, RunWin, RunShm, RunTar
  <2> QED
    BY <2>1, <2>2
<1>3. Spec => /\ TvInit /\ [][TvNext]_tvVars
              /\ WinInit /\ [][WinNext]_winVars
              /\ ShmSpec
              /\ TarSpec
  BY <1>1, <1>2, PTL DEF Spec, ShmSpec, TarSpec
<1>4. TvInv => TvTypeOK
  BY DEF TvInv
<1>5. WinInv => WinTypeOK
  BY DEF WinInv
<1>6. ShmInv => ShmTypeOK
  BY DEF ShmInv
<1>8. TarTypes => TarTypeOK
  BY DEF TarTypes
<1>7. TvTypeOK /\ WinTypeOK /\ ShmTypeOK /\ TarTypeOK => DeskTypeOK
  BY DEF DeskTypeOK
<1> QED
  BY <1>3, <1>4, <1>5, <1>6, <1>7, TvInvariant, WinInvariant, ShmInvariant, TarTypesKept, <1>8, PTL
=============================================================================

------------------------------- MODULE Camera -------------------------------
(***************************************************************************)
(* The camera of the angeles demo (demo.c): every frame moves a blurred    *)
(* clock half of the way to the time that has passed since the first one,  *)
(* shows the camera track that clock is in, and fades at both of its ends. *)
(* The main loops (app-x11.c, app-native.c, app-win32.c, app-wayland.c)    *)
(* give it the time and may end it.                                        *)
(***************************************************************************)
EXTENDS Integers, Sequences

CONSTANTS
  CamTracks,      (* the len of each track of cams.h                        *)
  CamLen,         (* CAMTRACK_LEN                                           *)
  CamRun,         (* RUN_LENGTH is CamRun times CAMTRACK_LEN: 20            *)
  CamStarts,      (* where each track starts, and where the last one ends   *)
  CamFadeLen,     (* the fade takes this long: 1024                         *)
  CamMax,         (* bound: the clock stops here                            *)
  CamBacks        (* bound: times it is set back                            *)

ASSUME CamAssumption ==
  /\ CamTracks \in Seq(Nat \ {0}) /\ CamTracks # <<>> /\ CamLen \in Nat \ {0}
  /\ CamFadeLen \in 1 .. CamLen /\ CamMax \in Nat /\ CamBacks \in Nat /\ CamRun \in Nat
  /\ CamStarts \in [1 .. Len(CamTracks) + 1 -> 0 .. CamRun * CamLen] /\ CamStarts[1] = 0
  /\ \A i \in 1 .. Len(CamTracks) : CamStarts[i + 1] = CamStarts[i] + CamTracks[i] * CamLen
  /\ CamRun * CamLen = CamStarts[Len(CamTracks) + 1]

CamRunLength == CamStarts[Len(CamTracks) + 1]
CamNever == CamRunLength + CamMax + 1      (* 0x7fffffff *)

VARIABLES
  cam_now,        (* tick - sStartTick                                      *)
  cam_tick,       (* sTick                                                  *)
  cam_track,      (* sCurrentCamTrack, from 1                               *)
  cam_start,      (* sCurrentCamTrackStartTick                              *)
  cam_next,       (* sNextCamTrackStartTick                                 *)
  cam_alive,      (* gAppAlive                                              *)
  cam_last,       (* the time of the frame before                           *)
  cam_gap,        (* the longest time between frames, CamLen + 1 for any
                     longer or negative one                                 *)
  cam_backs

camVars == <<cam_now, cam_tick, cam_track, cam_start, cam_next, cam_alive, cam_last, cam_gap,
             cam_backs>>
camView == <<cam_tick, cam_track, cam_start, cam_next, cam_alive, cam_last, cam_gap>>

CamTypeOK ==
  /\ cam_now \in Int /\ cam_now <= CamMax /\ cam_last \in Int /\ cam_last <= CamMax
  /\ cam_tick \in Int /\ cam_tick <= CamMax /\ cam_track \in Nat
  /\ cam_start \in 0 .. CamRunLength /\ cam_next \in Nat
  /\ cam_alive \in BOOLEAN /\ cam_gap \in 0 .. CamLen + 1 /\ cam_backs \in 0 .. CamBacks

CamInit ==
  /\ cam_now = 0 /\ cam_tick = 0 /\ cam_track = 1 /\ cam_start = 0 /\ cam_next = CamNever
  /\ cam_alive = TRUE /\ cam_last = 0 /\ cam_gap = 0 /\ cam_backs = 0

\* len of a track; past the table, whatever is there.
CamLength(track) == IF track \in DOMAIN CamTracks THEN CamTracks[track] ELSE 1

\* Mutant: the end of the track is computed before the track is changed.
CamTrackLate(tick) ==
  /\ IF cam_next <= tick
     THEN cam_track' = cam_track + 1 /\ cam_start' = cam_next
     ELSE UNCHANGED <<cam_track, cam_start>>
  /\ cam_next' = cam_start + CamLength(cam_track) * CamLen

\* Mutant: the next track starts where this one did.
CamTrackKeepsStart(tick) ==
  /\ cam_track' = IF cam_next <= tick THEN cam_track + 1 ELSE cam_track
  /\ UNCHANGED cam_start
  /\ cam_next' = cam_start' + CamLength(cam_track') * CamLen

\* camTrack: at most one track further in each frame.
CamTrack(tick) ==
  /\ IF cam_next <= tick
     THEN cam_track' = cam_track + 1 /\ cam_start' = cam_next
     ELSE UNCHANGED <<cam_track, cam_start>>
  /\ cam_next' = cam_start' + CamLength(cam_track') * CamLen

CamBlur == (cam_tick + cam_now) \div 2

CamCounted ==
  /\ cam_last' = cam_now
  /\ LET gap == cam_now - cam_last
     IN cam_gap' = IF gap < 0 \/ gap > CamLen THEN CamLen + 1
                   ELSE IF gap > cam_gap THEN gap ELSE cam_gap

\* Mutant: the last instant of the run is drawn.
CamFrameLonger ==
  /\ cam_alive
  /\ cam_tick' = CamBlur
  /\ IF cam_tick' > CamRunLength
     THEN cam_alive' = FALSE /\ UNCHANGED <<cam_track, cam_start, cam_next>>
     ELSE CamTrack(cam_tick') /\ UNCHANGED cam_alive
  /\ CamCounted /\ UNCHANGED <<cam_now, cam_backs>>

\* appRender
CamFrame ==
  /\ cam_alive
  /\ cam_tick' = CamBlur
  /\ IF cam_tick' >= CamRun * CamLen
     THEN cam_alive' = FALSE /\ UNCHANGED <<cam_track, cam_start, cam_next>>
     ELSE CamTrack(cam_tick') /\ UNCHANGED cam_alive
  /\ CamCounted /\ UNCHANGED <<cam_now, cam_backs>>

\* A key, or the window is closed.
CamQuit == cam_alive /\ cam_alive' = FALSE
           /\ UNCHANGED <<cam_now, cam_tick, cam_track, cam_start, cam_next, cam_last, cam_gap, cam_backs>>

\* Time is measured from the first frame on, by a clock that can be set.
CamClock ==
  /\ cam_next # CamNever /\ cam_now < CamMax /\ cam_now' = cam_now + 1
  /\ UNCHANGED <<camView, cam_backs>>
CamSetBack ==
  /\ cam_next # CamNever /\ cam_backs < CamBacks /\ cam_backs' = cam_backs + 1
  /\ cam_now' = cam_now - CamLen
  /\ UNCHANGED camView

CamNext == CamFrame \/ CamQuit \/ CamClock \/ CamSetBack

CamSpec == CamInit /\ [][CamNext]_camVars

(***************************************************************************)
(* Properties                                                              *)
(***************************************************************************)
\* sCamTracks is never read past its end, however long a frame takes and
\* however the clock is set: the demo is over before the table is.
CameraInTable == cam_track \in DOMAIN CamTracks

\* While no frame takes longer than a track unit, the track that is shown is the
\* one the clock is in, so that it is drawn between its own two ends.
TrackOfTheTick ==
  (cam_alive /\ cam_next # CamNever /\ cam_gap <= CamLen) =>
    cam_start <= cam_tick /\ cam_tick < cam_next

\* drawFadeQuad: how far the frame is from the nearer end of its track.
CamFade == IF cam_tick - cam_start < cam_next - cam_tick
           THEN cam_tick - cam_start ELSE cam_next - cam_tick

\* The camera changes in the dark: the first frame of a track is faded, while no
\* frame takes as long as a fade.
ChangesUnderFade ==
  [][cam_track' # cam_track /\ cam_gap' < CamFadeLen => CamFade' < CamFadeLen]_camVars

=============================================================================

------------------------------- MODULE Window -------------------------------
(***************************************************************************)
(* The Wayland window of wayland-egl-example/init_window.c and of the      *)
(* angeles demo (app-wayland.c), which set it up alike and differ in what  *)
(* they do when EGL fails and in their main loops.  The compositor and the *)
(* libraries are external: requests are buffered until something flushes   *)
(* them, and the EGL library reads the socket, for everyone, in its round  *)
(* trip and in each swap; events wait in the default queue until the       *)
(* program dispatches them.                                                *)
(***************************************************************************)
EXTENDS Integers, Sequences, FiniteSets

CONSTANTS
  WinSizes,       (* sizes the compositor may configure                     *)
  WinDefault,     (* the size the window is created with                    *)
  WinEvents       (* bound: events the compositor sends                     *)

WinPing == "ping"
WinNone == "none"

ASSUME WinAssumption == WinDefault \in WinSizes /\ {WinPing, WinNone} \cap WinSizes = {} /\ WinEvents \in Nat

VARIABLES
  win_app,        (* app-wayland.c, or init_window.c                        *)
  win_pc,
  win_out,        (* requests in the buffer of the connection               *)
  win_toplevel,   (* the compositor has the shell surface                   *)
  win_socket,     (* events that were sent and not read                     *)
  win_queue,      (* events that were read and not dispatched               *)
  win_native,     (* size of the wl_egl_window, none before it exists       *)
  win_context,    (* ESContext has a display, a surface and a context, and
                     no swap has failed                                     *)
  win_size,       (* sWindowWidth, sWindowHeight                            *)
  win_shown,      (* size of the frame the compositor shows                 *)
  win_waiting,    (* pings the compositor has no answer to                  *)
  win_asked,      (* the size it configured last                            *)
  win_sent

winVars == <<win_app, win_pc, win_out, win_toplevel, win_socket, win_queue, win_native,
             win_context, win_size, win_shown, win_waiting, win_asked, win_sent>>
winServer == <<win_toplevel, win_shown, win_waiting, win_asked, win_sent>>
winQueues == <<win_out, win_socket, win_queue>>
winWindow == <<win_native, win_context, win_size>>

WinTypeOK ==
  /\ win_app \in BOOLEAN
  /\ win_pc \in {"connect", "registry", "surface", "shell", "native", "egl", "result",
                 "dispatch", "draw", "swap", "exit"}
  /\ win_out \in Seq({"toplevel", "pong"}) /\ win_toplevel \in BOOLEAN
  /\ win_socket \in Seq({WinPing} \cup WinSizes) /\ win_queue \in Seq({WinPing} \cup WinSizes)
  /\ win_native \in {WinNone} \cup WinSizes /\ win_context \in BOOLEAN
  /\ win_size \in WinSizes /\ {win_shown, win_asked} \subseteq {WinNone} \cup WinSizes
  /\ win_waiting \in 0 .. WinEvents /\ win_sent \in 0 .. WinEvents

WinInit ==
  /\ win_app \in BOOLEAN /\ win_pc = "connect"
  /\ win_out = <<>> /\ win_toplevel = FALSE /\ win_socket = <<>> /\ win_queue = <<>>
  /\ win_native = WinNone /\ win_context = FALSE /\ win_size = WinDefault
  /\ win_shown = WinNone /\ win_waiting = 0 /\ win_asked = WinNone /\ win_sent = 0

(***************************************************************************)
(* Setting up: each step succeeds, or the program ends.                    *)
(***************************************************************************)
WinStep(from, to) ==
  /\ win_pc = from /\ win_pc' \in {to, "exit"}
  /\ UNCHANGED <<win_app, winServer>>

\* get_server_references: the connection, then the globals; both are needed.
WinConnect == WinStep("connect", "registry") /\ UNCHANGED <<winQueues, winWindow>>

WinRegistry ==
  /\ \E globals \in SUBSET {"wl_compositor", "wl_shell"} :
       /\ WinStep("registry", "surface")
       /\ win_pc' = IF globals = {"wl_compositor", "wl_shell"} THEN "surface" ELSE "exit"
  /\ UNCHANGED <<winQueues, winWindow>>

WinSurface == WinStep("surface", "shell") /\ UNCHANGED <<winQueues, winWindow>>

\* The listener is added before the surface is made a toplevel.
WinShell ==
  /\ WinStep("shell", "native") /\ win_pc' = "native"
  /\ win_out' = Append(win_out, "toplevel")
  /\ UNCHANGED <<win_socket, win_queue, winWindow>>

\* CreateNativeWindow
WinNative ==
  /\ WinStep("native", "egl")
  /\ win_native' = IF win_pc' = "egl" THEN WinDefault ELSE WinNone
  /\ UNCHANGED <<winQueues, win_context, win_size>>

(***************************************************************************)
(* The library flushes the buffer, and reads what has arrived.             *)
(***************************************************************************)

WinTransfer ==
  /\ win_out' = <<>>
  /\ win_queue' = win_queue \o win_socket /\ win_socket' = <<>>
  /\ win_toplevel' = (win_toplevel \/ \E i \in DOMAIN win_out : win_out[i] = "toplevel")
  /\ win_waiting' = win_waiting - Cardinality({i \in DOMAIN win_out : win_out[i] = "pong"})

\* CreateEGLContext: the first call that fails ends it; eglInitialize, if it
\* is reached, has made its round trip.
WinEgl ==
  /\ win_pc = "egl" /\ win_pc' = "result"
  /\ \/ win_context' \in BOOLEAN /\ WinTransfer
     \/ win_context' = FALSE /\ UNCHANGED <<winQueues, win_toplevel, win_waiting>>
  /\ UNCHANGED <<win_app, win_native, win_size, win_shown, win_asked, win_sent>>

\* main of init_window.c takes no notice of the result, app-wayland.c ends,
\* also when EGL reports an error after appInit.
WinResult ==
  /\ win_pc = "result"
  /\ \/ win_pc' = "exit" /\ win_app
     \/ win_pc' = "dispatch" /\ (win_app => win_context)
  /\ UNCHANGED <<win_app, winServer, winQueues, winWindow>>

(***************************************************************************)
(* The main loops, and the listener of the shell surface                   *)
(***************************************************************************)
\* Mutant: the native window keeps its size.
WinConfigureForgets(size) == win_native' = win_native /\ win_size' = IF win_app THEN size ELSE win_size

WinConfigure(size) == win_native' = size /\ win_size' = IF win_app THEN size ELSE win_size

\* Mutant: the listener does not answer a ping.
WinDispatchMute ==
  /\ win_pc = "dispatch"
  /\ IF win_queue = <<>>
     THEN win_pc' = "draw" /\ UNCHANGED <<winQueues, win_native, win_size>>
     ELSE /\ UNCHANGED <<win_pc, win_out, win_socket>> /\ win_queue' = Tail(win_queue)
          /\ IF Head(win_queue) = WinPing THEN UNCHANGED <<win_native, win_size>>
             ELSE WinConfigure(Head(win_queue))
  /\ UNCHANGED <<win_app, win_context, winServer>>

\* wl_display_dispatch_pending: the event at the head, or none is left.
WinDispatch ==
  /\ win_pc = "dispatch"
  /\ IF win_queue = <<>>
     THEN win_pc' = "draw" /\ UNCHANGED <<winQueues, win_native, win_size>>
     ELSE /\ UNCHANGED win_pc /\ win_queue' = Tail(win_queue)
          /\ IF Head(win_queue) = WinPing
             THEN win_out' = Append(win_out, "pong") /\ UNCHANGED <<win_native, win_size>>
             ELSE UNCHANGED win_out /\ WinConfigure(Head(win_queue))
          /\ UNCHANGED win_socket
  /\ UNCHANGED <<win_app, win_context, winServer>>

\* draw, appRender: an error that GL reports is only logged.
WinDraw ==
  /\ win_pc = "draw" /\ win_pc' = "swap"
  /\ UNCHANGED <<win_app, winServer, winQueues, winWindow>>

\* eglSwapBuffers, whose result is not looked at: without a context it does nothing,
\* and so from the first swap that fails.  The demo ends here when EGL reports an
\* error or its animation is over.
WinSwap ==
  /\ win_pc = "swap" /\ win_pc' \in IF win_app THEN {"dispatch", "exit"} ELSE {"dispatch"}
  /\ \/ win_context /\ UNCHANGED win_context /\ WinTransfer /\ win_shown' = win_native
     \/ /\ win_context' = FALSE /\ UNCHANGED <<winQueues, win_toplevel, win_waiting, win_shown>>
        /\ win_context /\ win_app => win_pc' = "exit"
  /\ UNCHANGED <<win_app, win_native, win_size, win_asked, win_sent>>

(***************************************************************************)
(* The compositor, once it has the toplevel                                *)
(***************************************************************************)
WinSend ==
  /\ win_toplevel /\ win_pc # "exit" /\ win_sent < WinEvents /\ win_sent' = win_sent + 1
  /\ \/ /\ win_socket' = Append(win_socket, WinPing) /\ win_waiting' = win_waiting + 1
        /\ UNCHANGED win_asked
     \/ \E size \in WinSizes :
          /\ win_socket' = Append(win_socket, size) /\ win_asked' = size
          /\ UNCHANGED win_waiting
  /\ UNCHANGED <<win_app, win_pc, win_out, win_toplevel, win_queue, winWindow, win_shown>>

WinProgram == WinConnect \/ WinRegistry \/ WinSurface \/ WinShell \/ WinNative \/ WinEgl
           \/ WinResult \/ WinDispatch \/ WinDraw \/ WinSwap
WinNext == WinProgram \/ WinSend

\* The program is scheduled, but a swap waits for the compositor and may not return;
\* the compositor need not send anything.
WinScheduled == WinProgram /\ win_pc # "swap"

WinSpec == WinInit /\ [][WinNext]_winVars /\ WF_winVars(WinScheduled)

(***************************************************************************)
(* Properties                                                              *)
(***************************************************************************)

\* The compositor is answered: with a context, every ping is followed by the
\* pong that clears it, unless the program ends, a swap fails or one never returns.
PingsAreAnswered ==
  [](win_waiting > 0 /\ win_context =>
       <>(win_waiting = 0 \/ win_pc = "exit" \/ ~win_context \/ [](win_pc = "swap")))

\* A program that goes on, and whose swaps succeed and return, comes to show the
\* size it was configured to last.
LastSizeIsShown ==
  <>[](win_context /\ win_pc # "exit") /\ []<>(win_pc # "swap") =>
    <>[](win_asked # WinNone => win_shown = win_asked)
=============================================================================

------------------------- MODULE MCDesktop -------------------------
(* The programs of the desktop: one of them runs, the others stay as they *)
(* were started.                                                          *)
EXTENDS TvViewer, Window, Shm, Tar

\* Three channels; the second one lacks a property
TChannels == <<"kbs", "mbc", "sbs">>

VARIABLE program

vars == <<program, tvVars, winVars, shmVars, tarVars>>

Init ==
  /\ program \in {"tv", "win", "shm", "tar"}
  /\ TvInit
  /\ WinInit
  /\ ShmInit
  /\ TarInit
  /\ program # "win" => win_app
  /\ program # "tar" => tar_archive = <<>> /\ tar_file = 2 * TarBlock

RunTv == program = "tv" /\ TvNext /\ UNCHANGED <<program, winVars, shmVars, tarVars>>
RunWin == program = "win" /\ WinNext /\ UNCHANGED <<program, tvVars, shmVars, tarVars>>
RunShm == program = "shm" /\ ShmNext /\ UNCHANGED <<program, tvVars, winVars, tarVars>>
RunTar == program = "tar" /\ TarStep /\ UNCHANGED <<program, tvVars, winVars, shmVars>>

Next == RunTv \/ RunWin \/ RunShm \/ RunTar

Spec ==
  /\ Init /\ [][Next]_vars
  /\ WF_vars(program = "win" /\ WinScheduled /\ UNCHANGED <<program, tvVars, shmVars, tarVars>>)
-----------------------------------------------------------------------------
\* The viewer, the window, the shared memory and the lister keep their types.
DeskTypeOK == TvTypeOK /\ WinTypeOK /\ ShmTypeOK /\ TarTypeOK
=============================================================================

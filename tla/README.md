# Verification of `etc`

The repository is a collection of small, independent programs ("자잘한 테스트
프로그램들", src/README.md).  There is no single architecture to model: every
directory is a system of its own.  This project models the ones that have
concurrency, shared files, tables that change while they are walked, timeouts
or fixed-width arithmetic, and says of the others why they are left out.

## 1. Inventory

### girror: a mirror of git repositories (`girror/fast_cmd`, `do_clone`, `do_fetch`, `do_rm`, `index.php`)
- *State*: for each target the files `.short_lock` and `.long_lock`,
  `.work_pid`, `.status`, `.origin` and the mirror directory.
- *Operations*: `fast_cmd CMD URL` folds the url to a target name and runs
  `do_CMD` under `flock` on the short lock.  `do_clone`, `do_fetch`, `do_rm`
  test and write `work_pid`, then fork a subshell that takes the long lock,
  runs git, rewrites status and removes `work_pid`.
- *Interaction*: invocations come from web requests (`index.php` starts them)
  and meet only through the files and the two locks.  Different urls can fold
  to one target.
- *Hard*: two locks with different lifetimes; the lock descriptor of flock(1) is
  inherited by the background job; `do_rm` unlinks the lock it holds; work_pid
  outlives a crash and a job that could not have the long lock; git's exit status is behind a pipeline.
- *Correct when*: a second job is never admitted; "ok"
  is said of a finished mirror only, and taken away before the mirror is; "already working" is true when said;
  a finished mirror is not lost; every invocation ends.

### unix_socket: poll server and test client (`server.c`, `client.c`, `link.h`)
- *State*: linked list of `poll_fdinfo`, its counter, the static array of
  `poll_fds()`; in the kernel the backlog, the connections and the descriptors.
- *Operations*: `poll_fds`, `poll_handle`, `poll_new`, `poll_del`,
  `handle_socket` (accept), `handle_client` (read, write or hangup); the client's
  connect, write, read.
- *Hard*: the list changes during the pass over the array; hangup and data
  arrive together; descriptors are never closed; the server is killed and
  restarted over the same path.
- *Correct when*: the entry of a pass is found again, the array is large enough,
  an entry goes exactly when its client has gone, every client is answered.

### serial-repeater: poll server with a slot table (`serial-repeater.c`, `serial-client.py`)
- *State*: `pfds`, `cbs`, `npfds` (two parallel heap tables), the kernel's
  connections.
- *Operations*: `add_pollfd`, `rm_pollfd`, `server_event`, `client_event`, the loop
  of `main`; the client connects, sends, quits.
- *Hard*: slots are used again during the pass that may still reach them, fd
  numbers are used again, `cbs` is sized with the other table's element.
- *Correct when*: read and accept never block the loop, slots and connections
  correspond, the tables hold what is written, no client starves.

### mtrace: malloc tracer (`mhook.c`, `mdb.c`)
- *State*: a mutex, the flag `internal`, arrays of frames with their counts and
  chains that point into them.
- *Operations*: `malloc`/`free` hooks, `mdb_add`, `mdb_del`, `do_dump`,
  `dump_remains` from a destructor.
- *Hard*: `free` uses trylock and forgets the block when it fails; the dump
  takes no lock; memmove and realloc move frames others point to.
- *Correct when*: the hooks never abort the program, the record names no block that
  went back to the heap, the dump counts what is recorded.

### aud: ALSA sine player (`pcm.c`)
- *State*: per transfer method the frames of the period still to send, where the
  samples go (`my_areas`), the flag that a start is due (`init`, `first`); in the
  device the stream's state and the frames in its ring.
- *Operations*: set-up, six transfer methods (`write`, `write_and_poll`, `async`,
  `async_direct`, `direct`, `direct_write`), `xrun_recovery`, the SIGIO handlers.
- *Hard*: the stream runs dry, is suspended or lost between any two calls; recovery may leave
  it prepared, running or without a ring; the handler interrupts the main loop.
- *Correct when*: a period always fits the ring, every method plays again after an
  under-run, and none ends while its stream can be recovered.

### RGBMatrixGPIO: LED panel (`RGBMatrixGPIO.c`)
- *State*: row, bit and frame of the scan, the scan buffer, the time the line is over.
- *Operations*: `display_line`, `send_line`, `loop_scan`, the signal handler.
- *Hard*: the line that is lit and the line that is shifted in are different ones; times
  are ints that wrap, and their difference may overflow.
- *Correct when*: what is lit is one whole line of its row, in order, for its bit's time.

### park: parking sensor (`park.c`, `upark.py`)
- *State*: the window's button and timer, the bytes on the serial line, those read.
- *Operations*: the window's handlers run `./park` once per command; park drains the line,
  writes a command and reads the answer, a second per poll().
- *Hard*: an answer that comes after the time-out precedes the next one; short reads.
- *Correct when*: the answer printed is the process's own and whole, nothing hangs.

### python-gst: self-watching players (`test.py`, `test_gtk.py`)
- *State*: button, timeout sources, last sample, the count of checks without a new one.
- *Hard*: sources outlive a stop, the end of a stream may be reported to nobody.
- *Correct when*: the program quits for a stall, and only for a stall.

### tv: TV viewer (`tv.py`, `ch.py`)
- *State*: channel, label, pads of the demultiplexer, decoders, pads of playsink.
- *Hard*: pads come and go, also inside `set_state(NULL)` between the halves of a channel change.
- *Correct when*: one decoder of a kind, playsink fed by what is there, nothing left of the
  channel before.

### shm: shared memory programs (`shmopen*.c`, `shmunlink.c`, `shmget.c`, `shmread.c`, `shmstat.c`)
- *State*: the object a name is of, the segments that can be attached, what a memory holds.
- *Hard*: separate programs, any order, any call may fail.
- *Correct when*: a reader never sees less than there was.

### tar: archive lister (`tar.c`)
- *State*: an `int` offset into a mapping and a pointer to a long name.
- *Hard*: the file may end anywhere, sizes are 32 bits wide and unsigned, offsets are not.
- *Correct when*: headers are read where headers are, and the listing is of what is there, in
  files that an `int` can count.

### Wayland window (`wayland-egl-example/init_window.c`, `angeles-ogles/app-wayland.c`)
- *State*: requests that wait for a flush, events that wait for a dispatch, the sizes of
  native window and frame, the EGL context.
- *Hard*: nobody reads the socket but the EGL library in its swap, which may fail or wait for ever;
  events come as soon as the surface is a toplevel.
- *Correct when*: pings are answered, the last size is shown.

### angeles demo (`angeles-ogles/demo.c` and main loops)
- *State*: the blurred clock, the camera track with its start and end.
- *Hard*: one track per frame at most, the clock may jump, the index is never checked.
- *Correct when*: the table is not left, the track is that of the clock, the camera jumps under a fade.

### Left aside
Rendering and device demos (`gles`, `drm`, `importgl.c`, the geometry of `demo.c`),
straight-line library use (`pa_siggen.c`, `pacat-simple.c`, `RGBMatrixGPIO/test.c`), one-call device tests
(`chardev.c`), text conversion (`dvbv5_to_vlc.awk`), log formatting (`lx`), the page formatting
of `http-server/server.py` and `girror/index.php`: no state that a second actor or a later step
depends on.

## 2. Plan

| order | modules | of | composes / refines | state |
|---|---|---|---|---|
| 1 | `Girror`, `GirrorProofs` | girror scripts | | done |
| 2 | `EchoService`, `PollServer`, `PollServerProofs` | unix_socket | PollServer implements EchoService | done |
| 3 | `SerialRepeater`, `SerialRepeaterProofs` | serial-repeater | | done |
| 4 | `Mdb`, `MHook`, `MCMHook`, `MHookProofs`, `MdbTreeProofs` | mtrace | MHook's steps call Mdb's operations | done |
| 5 | `Pcm`, `RGBMatrix`, `Park`, `Watchdog`, `Camera` | device programs | checked side by side by `MCDevices` | done |
| 6 | `TvViewer`, `Window`, `Shm`, `Tar` | desktop programs | checked side by side by `MCDesktop` | done |
| 7 | `DeviceProofs` | device programs | theorems about each module and about `MCDevices` | done |
| 8 | `DesktopProofs` | desktop programs | theorems about each module and about `MCDesktop` | done |

*Left*: the order of the callers of frames below the root once a frame has been moved (until then it is part of
`TreeInv`, section 6), and the hazards without a property, for which `PROJECT.json` says why.

## 3. Modules

### Girror
One invocation of `fast_cmd` is one process *tree*; `pc[p]` is the next line of
the script it is at.  flock(1) is called without `-o`, so the subshell inherits
the descriptor of the short lock and the lock is free again only when the background
job has exited.  That is why `HoldsShort` spans front part and job, and it is what
makes the test of `work_pid` effective.  A lock file is modelled by its inode
(`ino`, `shortFile`, `nextIno`): `OpenShort` opens or creates, `LockShort`
waits for that inode's lock, `RemoveFiles` of do_rm unlinks the name.  The long
lock is never unlinked, so `LockLong` needs no inode.

| code | action |
|---|---|
| fast_cmd:12 `flock ... short_lock` | `OpenShort`, `LockShort` |
| "already done" | `ReadStatus` |
| `work_pid` test / write | `CheckPid`, `WritePid` |
| origin | `WriteOrigin` (do_clone before the job, do_fetch after git) |
| `flock 9` | `LockLong` |
| `flock 9 \|\| exit 1` | `LockLongFails`: the job is lost, `work_pid` stays |
| echo clean / clone / fetch > status | `WriteStatus` |
| `rm -Rf target` | `RemoveTree` |
| `run_git` | `GitProgress` (one progress line), `GitEnd`, with `PipelineStatus` |
| echo ok / failed | `Report` |
| do_rm's `rm`s | `RemoveFiles`; `RemovePid` |

`PipelineStatus(gitOk) == TRUE` is the exit status of
`git | sed | while read`: the loop's, never git's.  `Crash` takes every process
and lock away and leaves the files.  Abstracted: url and target text (one target,
several `Remotes` that fold to it), what git prints (`"progress"`), log output.

### PollServer and EchoService
`poll_root` is the list by the fd of each entry, `conn` who is behind an fd,
`fds` the array that `poll()` filled.  `Poll` is `poll_fds()` and poll(2); each
turn of `poll_handle()`'s loop is one action (`Skip`, `HandleClient`,
`HandleSocket`), so clients connect, write and die between the turns.
`Sel` is the list lookup.  Kernel behaviour that the code rests on: a
SEQPACKET listener lets `Backlog + 1` connections wait; accept takes the lowest
free descriptor or fails without taking the connection; a dead peer shows as
`POLLIN|POLLHUP`; a write to a dead SEQPACKET peer fails without ending the server.
`KillServer` and `Start` are a kill and a new start over the same path.
`Oops` is the condition of the fatal branch at server.c:127, which `NoOops` says is
dead; were it true, no action of the server would be enabled.

`EchoService` is what a client is promised: a request is answered once, after it
was made, unless the client leaves.  `Requests` is the refinement mapping.

### SerialRepeater
`pfds` and `cbs` are the two tables; a slot with fd -1 is free.  `add_pollfd`,
`rm_pollfd`, `server_event`, `client_event` are the functions of these names,
`Poll`/`Skip`/`EndOfPass` the loop.  `cbsBytes` is what `cbs` was last allocated
with and `Usable` what glibc really gives for it; `corrupt` is set by the write
behind it, and a later `realloc()` may then end the process (`"abort"`).
`CbSize` is `sizeof(struct cbs)`.  A socket's buffer is counted in reads of 1024
bytes, so a client can fill it and has to wait.

### Mdb and MHook
`Mdb` is mdb.c at the level of its pointers.  Frames lie in arrays by value, so a
cell is `<<array, index>>`; a pair's `frame` and a frame's `callee` are cells, and keep
naming the same cell when memmove() puts another frame there.  `Insert` is one
call of insert() and `Walk` its recursion over the backtrace, `Position` its binary
search, `mdb_add` and `mdb_del` the functions of these names, `Stack` the walk of mdb_del()
along `callee`, `do_dump` what the dump prints.  The 256 hash chains are one
list: a chain keeps the order of insertion, and only pairs of the same address,
which share a chain, are told apart by it.  `Unused` is what realloc() may give out
in the `user` of a frame nobody initialised.  Two variables are the model's own:
a pair's `by` is its backtrace and `stale` remembers that a frame has been moved or
laid out in such memory.  `MaxArrays` and `MaxCallers` are bounds: a backtrace that needs more arrays or
longer ones is not taken (`fits`).

`MHook` is malloc() and free() of several threads, one action for each step
between which another thread can be scheduled: the test of `term` (`Malloc`, `Free`), the
trylock (`MallocLock`, `FreeLock`), the work under the lock (`Record`, `Del`), the
clearing of `internal` (`Reset`), `Unlock`, and the call of the C library (`Plain`,
`Release`).  A trylock that fails is EBUSY, so the call goes by unrecorded; `missed`
collects the blocks whose free did.  malloc() calls that the hook itself makes (calloc,
realloc, backtrace) fail the trylock of their own thread and change nothing.
`Exit` is the start of the destructor, with other threads anywhere.

### Pcm
One action is one call of the ALSA library, `pc` the next call.  The ring holds `fill`
frames; `Play` takes them out, and a stream that runs dry is `"xrun"`.  `Suspend` and `Release` are the
machine's, `Unplug` takes the device away.  `xrun_recovery` is `Recover` (which branch), `Resume` (tried again while
the answer is EAGAIN, then prepare if it fails) and `Prepare` (whose failure is reported and forgotten); `after` is
where it returns to.  The kernel stops a suspended stream before it prepares it, so a prepare that fails leaves it in
`"setup"`.  The next call on such a stream gives -EBADFD, on an unplugged one -ENODEV; xrun_recovery returns what it does not
know (pcm.c:241), and every caller then ends the program (`"exited"`).  The writing methods are `WriteSome`, `WriteFails`; `PollState` and `Poll` are the two
calls that `write_and_poll_loop` decides by.  `direct_loop` and `async_direct_callback` share their
actions (`DirectTop`, `DirectAvail`, `MmapBegin`, `MmapCommit`, `Start`) as the code has the loop twice; the handler
returns to where `Signal` came (`ret`).  `UnsetAreas` writes through a pointer that was never set:
the program is killed, or it is not.

### RGBMatrix
One action is one write of the port or one reading of the clock.  The panel (`RgbPortA`) shifts on
CLK's rise, latches on STO's, lights while OE is low.  A column carries where it comes from
(`<<frame, row, bit, column>>`), so that a lit line says what it is made of.  `rgb_next` and `rgb_now` are
signed ints of `RgbRange` values, `rgb_ahead` is their true distance.  What get_time() returns is what is left of
the microseconds in an int (`RgbInt`).  The difference `next - now` (RGBMatrixGPIO.c:325) overflows while one of the two has
wrapped and the other has not; that is undefined, and the Makefile compiles with `-O3` and without `-fwrapv`.  So the
comparison (`RgbTimeIsUp`) has two outcomes then: that of the two ints compared, and that of a difference that wraps.
An addition that overflows in `next += ...` is taken as the register's.  A frame is
converted in `RgbPlan`, as in the code, when its last line has been lit.

### Park
The window runs `park_queue`, the answer sizes of the commands of one handler; `park_pc` is the step of
the one `./park` process.  A byte on the line is `TRUE` if the running process asked for it.  `ParkArrive` may be
slower than every time-out, and `ParkWrite` may get no answer.  `ParkFails` is an open, poll, write or read that fails: the
process ends and prints no answer.

### Watchdog
`dog_chains` counts timeout sources, `dog_due` those that fire in this second still; a check that
asks for the next second keeps its source.  The two programs differ in `dog_gtk`: `test.py` starts playing by
itself and never handles `DogMessage`.

### Camera
`CamFrame` is `appRender` with `camTrack`; `CamBlur` is the blurred clock.  `CamClock` and `CamSetBack`
move the time of the host.  `cam_gap` remembers the longest frame, because what can be promised
depends on it.

### TvViewer
Handlers of the main loop are actions; `set_state(NULL)` is not one step: `"stopping"` lasts from the call
until `TvStopped`, and in between the handlers of removed pads run.  `TvKey` steps the channel, then
stops and starts.  A streaming thread may still add pads while `set_state(NULL)` runs.  `TvPlay` with a channel of `TvShort` is the KeyError after the label was set.

### Window
`win_out` is what the program asked for and nobody flushed, `win_socket` what the compositor sent, `win_queue` what was read and
not dispatched.  `WinTransfer` flushes and reads, in `eglInitialize` and `eglSwapBuffers` only; `WinDispatch` is
one event of `wl_display_dispatch_pending()` with the listener it calls.  A swap may fail, which nobody looks at: it and all
swaps after it transfer nothing (`win_context` is then false), and the demo ends.  A swap may also wait for the compositor for ever,
as Mesa's does for a hidden surface.  `win_app` tells the two programs apart.

### Shm
A process does the calls of the program it is; any of them may fail (`ShmFail`).  A memory is named after the process
that made it and holds nothing, zeros, a part of the message or all of it.  The segments of shmget.c have
no permission bits, so only `ShmRoot` can attach them.  A segment that was removed while a reader has it attached can be
attached by others still (`ShmThere`), as Linux allows.

### Tar
An archive is a sequence of members, the file a length of it; `TarStep` is one turn of `tar_parse`.  Offsets and sizes have
their width (`TarWord`), also where they overflow: a file of half of the word or more has a negative size, and a member size may send
`tar_offs` below zero or back to a header (tar.c:202).  A difference `size - offs` that is no int is undefined, and the loop
goes on or ends (`TarMore`, `TarOver`).  What lies at an offset that is not a header decides between the ends of the walk.

### MCDevices and MCDesktop
Programs that do not meet are checked in one run: `program` names the one that
runs, and the others stay as they started.  Every module has its own prefix,
so each of them is also a specification of its own (`CamSpec`, `ParkSpec`, ...), and the
fairness is that of the program which runs.  `DevTypeOK` and `DeskTypeOK` are the type invariants of all of them.

### Lemma modules
`SequenceLemmas` has what the proofs need to know of `RemoveAt`, of `Min` (which `SelectInSeq` uses) and `Max`,
of how often an entry occurs in a list (`Occurs`), `CountingUp`, induction over 1 to n for one set, and
`StepsExist`: a function that each next value is computed from the one before exists.

## 4. Runs

| run | constants | shows |
|---|---|---|
| girror_all | 3 invocations, 1 url, all scripts, git reliable or not, 1 crash, fairness | one job at a time until the short lock is unlinked, "ok" beside finished mirrors only also after that, "already working" is true until a job is lost, clones over a reliable git publish finished mirrors only, a finished mirror stays, everything ends |
| girror_clone_fails | 3, 1 url, clone only, git fails | **finding**: "ok" after a failed clone |
| girror_rm_unlinks | 3, fetch and rm | **finding**: two jobs admitted after the short lock was unlinked |
| poll_all | 3 clients, 2 descriptors, 1 kill, fairness | no "Oops??", no live client is dropped, a client the server could accept is served, EchoService |
| poll_leak | 3 clients, 2 descriptors, fairness | **finding**: the descriptor leak leaves the third client without an answer |
| serial_all | 3 clients, 2 descriptors, 32 and 64 bit, fairness | no blocking call, slots = connections; closed connections are released and senders go on while it runs |
| serial_64_memory | 64 bit, 3 descriptors | **finding**: the first client's callback is already outside `cbs` |
| mhook_safe | 2 threads, 2 blocks, 4 calls, backtraces of 2 frames | no abort, no stale entry in the record, callers sorted, the dump is right while no frame has moved |
| mhook_assert | 1 thread, 4 blocks, backtraces of 1 frame | **finding**: the assertion of mdb_del() fails |
| devices | player: ring of 7, periods of 2, 2 suspends, 1 failing prepare, an unplugged device; panel: 2 rows, 2 columns, 2 planes, an int of 12 values; sensor: answers of 3 and 2 bytes; watchdog: limit 3, 3 starts; camera: 3 tracks | types; the player always has room for its period, plays on after every under-run and ends with a lost stream only (the direct methods also after a suspend); the panel's lines are whole, in order, and over when their bit's time is, unless the difference of the ints overflows; the sensor's answer is the process's own, nothing hangs; the watchdogs quit for a stall only and do; the camera stays in its table and in its track and changes under a fade |
| desktop | viewer: 2 streams of each kind, 3 channels; window: 3 events, 2 sizes; shared memory: 3 processes, 2 of root; archive: 3 members of 4 sizes, cut anywhere, an int of 256 values | types; one decoder of a kind, playsink fed by what is there; pings answered, the last size shown while swaps return; a reader never sees less than there was; in files that an int counts headers only are read, and all that are there are listed |
| pcm_suspend | ring of 7, periods of 2, 1 suspend | **finding**: the direct method does not recover from every suspend |

**Bounds.**  Three invocations are what the girror races need: one that unlinks, one
that waits on the old inode, one that opens the new one.  Two urls would only be
needed to see an origin that is not the mirror's, which the proof covers.  A crash only matters with a later
invocation, so one crash and three invocations show a job before, during and
after it.  `AlreadyWorkingIsTrue` is a claim about the time until a
job is lost (`JobLost`: a crash, or a long lock that could not be had), because after that `work_pid` stays behind for ever
(do_clone:17 tests the file and not the process); `OneJobUntilUnlinked` and `FinishedMirrorStays`
are claims about the time until a do_rm has unlinked the short lock
(`NeverUnlinked`), because of finding 2, and do span the crash.
`OkDescribesClones` is claimed for invocations that all clone with a git that does not fail, `OkOutlivesRemovals` for clones and
removals: a fetch that finds its mirror removed fails, and by finding 1 says "ok" where there is no mirror.
For the servers, three clients are one in the pass, one ahead of it and one that
arrives during it; `MaxFds` below the number of clients makes
accept fail.  `MaxData` bounds the socket buffer and is the size of a real
resource, as are `MaxFds` and `Backlog`; `MaxKill` and `MaxCrash` are pure bounds
on failures.  In mtrace, two blocks and four calls are enough for an address to be given
out again by another thread; backtraces of two frames with a common caller have frames moved
at both levels.  Symmetry is used in safety runs only.

A ring of 7 frames is not a multiple of the period, so grants are cut short at its end and the
start threshold (6) is not the whole ring; two suspends are one in a recovery from the
other.  Two planes of two rows show a line of another row, of another plane and of another
frame; `RgbRange` is small enough to wrap several times, and an `int` that wraps once behaves as it does
every time.  `MayUnplug` says whether the device may go.  The sizes of members are nothing, more than a block, and two that end
beyond half of the word by themselves or together; `TarLines` bounds a walk that goes in a circle.  `ParkBacklog` bounds what the sensor owes, `DogStarts` the clicks, `WinEvents` the
events, `CamMax` and `CamBacks` the clock; `DogLimit`, `ParkLong`, `TarBlock`, `TarWord` and the camera's
lengths are the code's numbers, scaled down in proportion.  `RgbLate` bounds how far the scan falls behind, `RgbNotTooFar` how far lines that are cut short
put the schedule ahead of the clock: both stay below half of the int, 36 minutes in the code.

**Fairness.**  Weak fairness per process: the kernel runs every process that is not blocked.
In Girror, one `WF(Script(p))` for each invocation: started scripts go on, git ends
(`GitProgress` is not part of it, so progress lines alone are not an end, and
may come for ever without preventing `GitEnd`), flock hands a free lock on.  Weak
fairness is enough because every waiter's lock is eventually free for good
once the finitely many others have ended.  Nothing is assumed about new
invocations, crashes, or, in PollServer, a server that is down being started again.
A server has one weak fairness condition for its whole loop, not one for each handler:
its progress for each client must come from the loop itself.
In the suites each program of which liveness is claimed has one condition for all of its own steps (`Player`,
`ParkProcess`, `WinScheduled`) and one for each thing of the world that goes on by
itself: the device plays a running stream, a suspend ends, bytes that were sent
arrive, timers fire.  No suspend, signal, key, sample, event or click need ever come.  `Watchdog` has one condition
for each of its sources, as GLib's main loop serves all that are ready.  `WinScheduled` leaves the swap out, so that it may never return;
the two properties of the window except that case themselves.  `ParkFails` and `Unplug` need never come.  The sensor's
silence is never excluded, nor that a player's recovery is interrupted by the next suspend.

**Deadlock** is checked in the girror, server and mtrace runs; `AllExited`, `AllEnded`, `Quiet` and `Ended` are the states in
which those programs legitimately rest.  In `devices`, `desktop` and `pcm_suspend` it is not: a program
that has ended (`"refused"`, `"done"`, a closed window, the end of an archive) leaves nothing to do.

## 5. Findings

1. `girror_clone_fails`: run_git's status is that of its while loop, so a
   failing `git clone` is reported "ok" and no later do_clone repairs it ("already
   done").  The branch `echo clone failed` (do_clone:45) is dead.
2. `girror_rm_unlinks`: do_rm unlinks the short lock it holds (do_rm:26); a waiter
   on the old inode and a caller with the new one both pass the work_pid test.
   `girror_all` shows what still holds then: the long lock covers the status with the mirror
   (`OkOutlivesRemovals`).  It does not cover `origin`, which do_clone writes before it (do_clone:23).
3. `poll_leak`: nothing closes the fd of a removed client (server.c:64-71).
4. `serial_64_memory`: `cbs` is reallocated with `sizeof(pfds[0])`
   (serial-repeater.c:49).  A real 64 bit build ends in realloc() when the second
   client connects.
5. `mhook_assert`: insert() leaves the old count and callers in a frame it puts in front of
   others (mdb.c:93-101), and pairs keep pointing at moved frames.  Backtraces whose addresses are not
   ascending and legal calls lead to `assert (frame->user > 0)`; mdb.c compiled by itself aborts with the
   calls of the counterexample.

6. `pcm_suspend`: `direct_loop` sets `first` after every recovery at snd_pcm_wait() (pcm.c:646), also when
   snd_pcm_resume() has set the stream running again.  With less than a period of room it then
   calls snd_pcm_start() on a running stream, which fails, and the program exits.  The comment above
   xrun_recovery (pcm.c:219) announces recovery from a suspend.

`poll_leak` is also why `Served` is claimed for clients that the server has a descriptor for, and `pcm_suspend`
why `GivesUpOnlyWhenLost` and `PlaysOn` except the direct methods after a suspend.  The counterexample of `pcm_suspend` is that
of pcm.c:646; the handler that does not set `first` after a suspend (pcm.c:614) is in the model but not in that trace.

## 6. Proofs

All theorems are for every value of the constants that satisfies the modules'
named assumptions (finite sets of processes, clients, threads or blocks are not assumed).  Each inductive invariant was
model-checked on the instance of its run before it was proved.  Besides the types of the constants
the assumptions say:
- `PcmAssumption`: the ring holds two periods, which pcm.c's set-up asks for.
- `ParkAssumption`: the shorter of the two answers is the shorter.
- `RgbScheduleAssumption`: the time of a bit, and how late the scan may be, are below half of the values of an int.
  The times of RGBMatrixGPIO.c are microseconds, far below 2^30.
- `TvAssumption`, `WinAssumption`, `TarAssumption`: there is a channel; a ping is not a size; a word is a number of
  blocks.  Nothing is assumed of the sizes of members and files: the two properties say `TarFits` themselves.
- `DepthAssumption`: there are backtraces, and a longest one, as backtrace() is asked for `num_frame` addresses.
- `PrefixFree`, of `DumpIsRight` alone and in its statement: no backtrace is the beginning of another.  One that is shorter than
  `num_frame` ends at its thread's outermost frame, which is nobody's callee.
- `CamAssumption`: the lengths of the tracks add up to the run, which `CamStarts` says without a recursion.

**GirrorProofs**
- `TypeCorrect`: `[]TypeOK`, inductive as it stands.
- `OkIsKeptWithTheMirror`: `[]OkOutlivesRemovals`, for clones and removals with a reliable git, also after the short lock is
  unlinked and through crashes.  `OkOutlivesRemovals` alone is not inductive; what it needs is where in its job the one
  invocation with the long lock is (`LongLockExcludes`, from `JobsComeFromLockLong`): a clone or removal touches the
  mirror only after it has written another status, and a clone says "ok" only of a mirror that it has finished itself.
- `JobsAreSerialised`: `[]OneJobUntilUnlinked` for all scripts.  Not inductive:
  `ShortLockInv` adds that until an unlink the name keeps its inode, that everybody opened that
  inode, and that one invocation has it locked (`ShortLockExcludes`).
- `PublishedIsFinished`: clones only and reliable git, `[]OkDescribesClones`;
  `PublishInv` relates status, origin and mirror to the point the one running job
  has reached.
- `WorkPidIsOwned`, `AlreadyWorkingHolds`: all scripts, until a job is lost.  The second is an action
  property and follows from the first.
- `FinishedMirrorKept`: `FinishedMirrorStays`, an action property, until the short lock is unlinked.  `KeepInv`: a finished
  mirror has the status "ok" or a `work_pid` that a job or a crash has left, and both turn a clone away; so with `ShortLockInv`
  no clone is past its tests, removes the mirror or starts git over it.

**PollServerProofs**
- `InvariantHolds`: `IInv == TypeOK /\ ListInv /\ PassInv`.  `ListInv`: the counter is the
  length, every fd is in the list once.  `PassInv`: every array entry not handled yet is
  still in the list.  It is inductive because a turn deletes its own entry
  alone and the array has no fd twice; `DelKeepsList` carries that argument,
  on the lemma `RemoveAtKeepsOthers` about sequences.
- `TypeCorrect`, `OopsIsDead` (server.c:127 is dead code), `ArrayIsLargeEnough`
  follow from it.
- `OnlyGoneAreDroppedHolds`: the action property, turn by turn: an entry leaves through `HandleClient` with a
  hangup only, which the kernel reports of a dead peer only.
- `ServerIsEchoService`: `Spec => Echo!EchoSafe`, each step maps to a step of
  EchoService or a stutter, with `RequestInv` (a client in `inbox` or `reply` has asked).

**SerialRepeaterProofs**
- `InvariantHolds`: `IInv == TypeOK /\ StartInv /\ SlotInv /\ ConnInv /\ PassInv`.  `SlotInv`: the two tables have
  the same slots, the listener's is the one with `server_event`, and the other used slots are the
  connections, each once.  `ConnInv`: a client has one connection at most.  `PassInv`: what poll() reported of
  a slot that the pass has not come to is still there, as nobody but the slot's own handler takes it, and a slot that is taken
  meanwhile starts without `revents`.  `SlotsAreConnections` alone is not inductive: without
  `ConnInv` an accept could give two slots to one client.
- `TypeCorrect`, `SlotsAreConnectionsHolds`, `CallsDoNotBlockHolds` follow; `CallbacksFitNarrow` adds `SizeInv`
  and is the other half of finding 4: with 8 bytes a callback the memory is enough.

**MHookProofs**
- `AbortsAreDead`: `[]NoAbort`.  `LockInv`: whoever is between trylock and unlock has the lock,
  and `internal` is set only while somebody is between `Record` and `Reset`, so with the lock.
- `RecordIsCurrent`: `[]NoStaleEntry`.  `FreeInv`: a thread in free() has a block of its own that is
  still allocated.  `RecordInv`: unless missed, an address occurs in the record once, is allocated, and is
  gone once mdb_del() is done.  `DelTakesOne` and `AppendedIsList` are what the proof needs of Mdb,
  so the frames, and what goes wrong with them, play no part in it.
- `CallersStaySorted`: `[]CallersSorted`, for every set of backtraces.  `MdbOK` strengthens it: an array of callers is younger
  than the one its owner lies in, so nobody's array is its own, and array 1 belongs to the root alone; without that an insertion
  elsewhere could move the root's callers.  `PositionFinds` is the correctness of the binary search
  (a match is a match; a place that is none has smaller addresses before it and greater ones behind, if the callers
  are in order), by induction over the width of the span.  `SlidIs`, `AddedIs` say what memmove() and the new frame do,
  `InsertKeeps` is one call of insert(), `WalkKeeps` the recursion, call by call.
- `RootSearchIsRight`: what the order is for.  `TypeCorrect`: `[]TypeOK`.

**MdbTreeProofs** (the call tree as a whole, until memmove() has moved a frame or an array lies in memory that was not zero)
- `TreeInv`: no assertion has failed, and there is a `path`, one list of addresses for each frame, that makes the account come out
  (`AccountIs`).  `Tree`: a frame is among its callee's callers, its path is its callee's with its own address behind it (`Linked`),
  callers are in order and point back (`Rows`), no two frames have the same path (`Distinct`), and every path is how some
  backtrace begins, with all its beginnings in the tree (`Reached`).  `Held`: a block's frame is at the end of its backtrace.
  And every frame's `user` is the number of recorded blocks whose backtrace goes through its path.  The `path` is not in the
  code: it is what the pointers mean, and a memmove() under the pairs takes that away.
- `WalkAccounts` carries the account through mdb_add(), with the first k addresses counted already
  (`InsertAccounts` is one call of insert(): it finds the one frame with this path, or adds it).  `StackOf`: mdb_del() goes up
  through exactly the frames whose paths the block's backtrace begins with, so with `ThroughRemoved` what it takes is what was there.
- `AssertionHoldsUntilMoved`: mdb.c:156 cannot fail until then, in any order of mallocs and frees.  The violation that
  `mhook_assert` finds therefore needs a moved frame: this is the other half of that finding.
- `DumpIsRight`: `[]DumpTells`.  `DownWalked`: where do_dump() has got to is the frame of the path it went; `DownReaches`: every frame
  with a block is got to, as all frames above it count that block too.  `EndsThere` and `EndsFree`: the frames without callers are
  where backtraces end, for which they need to be prefix-free.

**DeviceProofs**
- `WatchdogIsPatient`: `DogInv`; with one source there is one check a second, so the count of looks never runs ahead of
  the seconds.
- `AnswersAreOwn`: an action property; `ParkInv` says that on a line that was clean before the command there is nothing
  but what the sensor sends for it (`AllOwn` of both queues), and that at most the answer's length is read.
- `PcmTypeCorrect`, `RingHasRoom`, `PlayersGiveUpWhenLost`: `PcmInv == TypeOK /\ LoopInv /\ RoomInv /\ StartInv`.
  `LoopInv` says which calls a method makes, where `Goal` looks through a recovery to the call that comes after it;
  `RoomInv` carries the room from the question to the commit, `StartInv` that without a suspend a
  stream is started only when it is prepared, and that one in `"setup"` has met a suspend and a failing prepare.
- `RgbTypeCorrect`, `LitLinesAreWhole`, `RgbScansInOrder`, `RgbWaitsForItsTime`: `RgbInv`.  `RgbScanInv` follows the columns of a
  line through the shift register; `RgbPinInv` the levels of the pins; `RgbTimeInv` says that the ints and the true
  distance agree modulo `RgbRange`, and that the distance stays within half of it; so a difference of the two that is an int
  is the true distance, whichever way the comparison was compiled (`IntsAreTheSame`).  Of a difference that overflows nothing
  is claimed: there a line may be cut short, or be kept on for as long as the clock takes to wrap.
- The camera, for every table of tracks whose lengths add up to the run: `CamInvariant`, `CamInv == CamTypeOK /\ PlaceInv /\ BlurInv`.  `PlaceInv`: the current track is one of the
  table, starts where `CamStarts` says, and the demo is alive only before the end of the run; so a step
  beyond the last track would need a clock that is beyond the run, where the code ends instead.
  `BlurInv`: while no frame was longer than a track unit, the blurred clock is at most one gap
  behind the time of the last frame, hence moves by at most one gap, and a track, at least a unit long,
  is never jumped over.  Neither is inductive without the other.
- `CamTypeCorrect`, `TableIsNotLeft` (demo.c:719 reads inside the table), `TrackIsOfTheTick`, `JumpsAreFaded` follow.  The
  arithmetic of halving is in the lemmas `BlurIsBetween` and `HalfWay`.
- `DevicesTypeCorrect`: the suite's type invariant, from those of the parts.

**DesktopProofs**
- `DecodersAreCounted`, `PlaysinkPadsAreFed`: `TvInv`; at most one stream of a kind has elements, and its number counts it.
- `WinTypeCorrect`: `WinInv` accounts for every ping (in the socket, in the queue, or as a pong that nobody has flushed), so
  the number without an answer never drops below zero.  Counting entries of lists is `Occurs`.
- `ReadersSeeNoLess`: `ShmInv`; what a process found when it opened a memory stays a lower bound, as no program takes
  anything back from a memory that holds something.
- `MembersAreListed`, `HeadersAreInTheFile`: `TarInv` says, under `TarFits`, at which member's header the walk is, that the long name it remembers
  is the member before it, and that the listing is of the members before it.  `TarIsSpread` is what the layout
  guarantees: headers are apart by a block at least, so no data is taken for one.  `TarFits` is what keeps sizes and offsets
  in their ints (`TarLeft`, `TarHeaders`), so the invariant is `TarKept`: `TarInv` if `TarFits`.
- `DesktopTypeCorrect`: the suite's type invariant.

**Induction.**  The library's induction theorems take an operator as a parameter, which the provers cannot instantiate.  Where
a proof needs induction (the layout of an archive, the binary search, the calls of insert(), the ways of mdb_del() up
and of do_dump() down the tree) it goes over one set
of numbers with `CountingUp`, which follows from `MinIsLeast`: the set's first element outside would have its
predecessor inside.  That a recursive function has a value is proved the same way.

**Model-checked only.**  All liveness (`Terminates`, `Served`, `ClosedAreReleased`, `SendersProceed`, `PlaysOn`,
`WindowComesBack`, `StallIsNoticed`, `PingsAreAnswered`, `LastSizeIsShown`, and the fairness half of
`EchoRefined`), which is outside what tlapm supports.  Every other property of a passing run is a theorem.
**Proved only**, as the proof leaves a small instance nothing to add: the type invariants of Girror, PollServer, SerialRepeater
and MHook, `WorkPidHasOwner`, `FdsFit`, `CallbacksFit` of a 32 bit build, and `SearchIsRight`.

## 7. Not modelled

See section 1 and the components with status `not_modelled` in `PROJECT.json`.  In
the modelled programs: partial writes and signals, the terminal handling and escape
key of `serial-client.py`, the text of logs and of status lines, and memory
allocation that fails (except a NULL from the traced malloc()).  In mtrace: an array that grows
beyond its first 256 callers, a `callers_filled` left over in reused memory (the process would
follow a wild pointer), the printed total, and what a dump sees that races with an insertion.

In the programs of the suites: the event per period of pcm.c (`-e`) and its
option parsing, other sample formats; the values of a sensor's answer and heights that do not fit
the order's byte; the digits of tv.py's channel search (`ch.search`) and `draw_dot`; the size of the frame that the window's
programs draw with; two equal entries in a channel list (ch.py:61); the geometry and drawing of the
demo, its windows of X11 and Windows, and a 32 bit `long` for its milliseconds.
Not modelled at all: the demos that only draw or set a mode, the PulseAudio programs, the logger, the web
pages and the converters, for the reasons in section 1.

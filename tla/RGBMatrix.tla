----------------------------- MODULE RGBMatrix -----------------------------
(***************************************************************************)
(* The LED matrix driver RGBMatrixGPIO.c: one step is one write of a port  *)
(* register or one reading of the clock.  The panel is external: it shifts *)
(* a column in when CLK rises, latches what it has shifted when STO rises, *)
(* and lights the addressed row with the latched line while OE is low.     *)
(* A column of a bit plane is <<frame, row, bit, column>>: what a line on  *)
(* the panel is made of can then be seen.                                  *)
(***************************************************************************)
EXTENDS Integers, Sequences

CONSTANTS
  RgbRows, RgbCols,   (* rows that are scanned (16), columns shifted (64)   *)
  RgbBits,            (* CBITS, the bit planes                              *)
  RgbFrames,          (* bound: frame_count is kept modulo this             *)
  RgbRange,           (* values of an int that holds microseconds           *)
  RgbLate,            (* bound: how far the scan falls behind its schedule  *)
  RgbSets             (* bound: how often the clock of the host is set      *)

ASSUME RgbAssumption ==
  /\ {RgbRows, RgbCols, RgbBits, RgbLate} \subseteq Nat \ {0}
  /\ RgbFrames \in Nat /\ RgbFrames > 2 /\ RgbSets \in Nat
  /\ RgbRange \in Nat /\ RgbRange % 2 = 0

VARIABLES
  rgb_pc, rgb_i,      (* the next statement, and the column of send_line    *)
  rgb_row, rgb_bit, rgb_frame,
  rgb_next,           (* when the line is over, as an int                   *)
  rgb_now,            (* the clock of the host, as an int                   *)
  rgb_ahead,          (* next - now in truth (history)                      *)
  rgb_sets,
  rgb_got_sig,
  rgb_scanbuf,        (* the frame that was converted into scanbuf          *)
  rgb_panel           (* clk, sto, oe, addr, shift register and latch       *)

rgbVars == <<rgb_pc, rgb_i, rgb_row, rgb_bit, rgb_frame, rgb_next, rgb_now, rgb_ahead,
             rgb_sets, rgb_got_sig, rgb_scanbuf, rgb_panel>>
rgbClock == <<rgb_now, rgb_ahead, rgb_sets, rgb_got_sig>>

\* The line of a plane as it must arrive in the panel.
RgbLine(frame, row, bit) == [c \in 1 .. RgbCols |-> <<frame, row, bit, c>>]
RgbNoise == [c \in 1 .. RgbCols |-> <<>>]

\* UNIT_DUR: a plane is lit twice as long as the one below it.
RgbOn(bit) == 2 ^ bit

\* A line's time and the scan's delay are less than half of the values of an int:
\* 4.4 ms and some lines, of 4295 seconds.
ASSUME RgbScheduleAssumption ==
  /\ RgbLate <= RgbRange \div 2
  /\ \A bit \in 0 .. RgbBits - 1 : RgbOn(bit) \in Nat /\ RgbOn(bit) < RgbRange \div 2

\* An int, and what the register of one holds of a number.
RgbInts == -(RgbRange \div 2) .. (RgbRange \div 2) - 1
RgbInt(x) == ((x + (RgbRange \div 2)) % RgbRange) - (RgbRange \div 2)

\* Mutant: the difference is taken the wrong way round.
RgbTimeIsUpSwapped == rgb_now <= rgb_next \/ RgbInt(rgb_now - rgb_next) <= 0

\* `next - now > 0' is false.  An overflow of the difference is undefined: the build
\* (-O3) compares the two ints, or the register of their difference with 0.
RgbTimeIsUp == rgb_next <= rgb_now \/ RgbInt(rgb_next - rgb_now) <= 0

RgbTypeOK ==
  /\ rgb_pc \in {"start", "display", "row", "latch", "light", "plan", "column",
                 "clock", "wait", "off", "done"}
  /\ rgb_i \in 1 .. RgbCols
  /\ rgb_row \in 0 .. RgbRows - 1 /\ rgb_bit \in 0 .. RgbBits - 1
  /\ {rgb_frame, rgb_scanbuf} \subseteq 0 .. RgbFrames - 1
  /\ {rgb_next, rgb_now} \subseteq RgbInts
  /\ rgb_ahead \in Int /\ rgb_sets \in 0 .. RgbSets /\ rgb_got_sig \in BOOLEAN
  /\ rgb_panel.addr \in 0 .. RgbRows - 1
  /\ Len(rgb_panel.shift) = RgbCols /\ Len(rgb_panel.latch) = RgbCols

\* load_fb has converted the first frame; the panel holds anything.
RgbInit ==
  /\ rgb_pc = "start" /\ rgb_i = 1
  /\ rgb_row = 0 /\ rgb_bit = 0 /\ rgb_frame = 0 /\ rgb_scanbuf = 0
  /\ rgb_now \in RgbInts /\ rgb_next = rgb_now /\ rgb_ahead = 0
  /\ rgb_sets = 0 /\ rgb_got_sig = FALSE
  /\ rgb_panel = [clk |-> FALSE, sto |-> FALSE, oe |-> FALSE, addr |-> 0,
                  shift |-> RgbNoise, latch |-> RgbNoise]

(***************************************************************************)
(* The panel answers a write of port A (sto, oe, clk and a column).        *)
(***************************************************************************)
RgbPortA(sto, oe, clk, column) ==
  rgb_panel' = [rgb_panel EXCEPT
    !.sto = sto, !.oe = oe, !.clk = clk,
    !.shift = IF clk /\ ~rgb_panel.clk THEN Append(Tail(@), column) ELSE @,
    !.latch = IF sto /\ ~rgb_panel.sto THEN rgb_panel.shift ELSE @]

RgbStep(from, to) == rgb_pc = from /\ rgb_pc' = to

(***************************************************************************)
(* display_line(row)                                                       *)
(***************************************************************************)

RgbDark ==
  /\ rgb_pc = "display"
  /\ IF rgb_got_sig THEN rgb_pc' = "off" /\ UNCHANGED rgb_panel
     ELSE rgb_pc' = "row" /\ RgbPortA(FALSE, TRUE, FALSE, <<>>)
  /\ UNCHANGED <<rgb_i, rgb_row, rgb_bit, rgb_frame, rgb_next, rgbClock, rgb_scanbuf>>

RgbAddress ==
  /\ RgbStep("row", "latch")
  /\ rgb_panel' = [rgb_panel EXCEPT !.addr = rgb_row]
  /\ UNCHANGED <<rgb_i, rgb_row, rgb_bit, rgb_frame, rgb_next, rgbClock, rgb_scanbuf>>

RgbLatch ==
  /\ RgbStep("latch", "light")
  /\ RgbPortA(TRUE, TRUE, FALSE, <<>>)
  /\ UNCHANGED <<rgb_i, rgb_row, rgb_bit, rgb_frame, rgb_next, rgbClock, rgb_scanbuf>>

RgbLight ==
  /\ RgbStep("light", "plan")
  /\ RgbPortA(FALSE, FALSE, FALSE, <<>>)
  /\ UNCHANGED <<rgb_i, rgb_row, rgb_bit, rgb_frame, rgb_next, rgbClock, rgb_scanbuf>>

(***************************************************************************)
(* loop_scan: when the line is over, and which line comes after it.  The   *)
(* next frame is converted when the last row has been lit.                 *)
(***************************************************************************)
RgbStart ==
  /\ RgbStep("start", "display")
  /\ rgb_next' = rgb_now /\ rgb_ahead' = 0
  /\ UNCHANGED <<rgb_i, rgb_row, rgb_bit, rgb_frame, rgb_now, rgb_sets, rgb_got_sig,
                 rgb_scanbuf, rgb_panel>>

\* Bound: lines that are cut short where the ints wrap put the schedule ahead of the
\* clock by less than half of the ints.
RgbNotTooFar == rgb_ahead + RgbOn(rgb_bit) < RgbRange \div 2

\* Mutant: the next frame is converted after every row.
RgbPlanTears ==
  /\ RgbStep("plan", "column") /\ rgb_i' = 1 /\ RgbNotTooFar
  /\ rgb_next' = RgbInt(rgb_next + RgbOn(rgb_bit))
  /\ rgb_ahead' = rgb_ahead + RgbOn(rgb_bit)
  /\ LET lastBit == rgb_bit = RgbBits - 1
     IN /\ rgb_bit' = (rgb_bit + 1) % RgbBits
        /\ rgb_row' = IF lastBit THEN (rgb_row + 1) % RgbRows ELSE rgb_row
        /\ rgb_frame' = IF lastBit THEN (rgb_frame + 1) % RgbFrames ELSE rgb_frame
        /\ rgb_scanbuf' = rgb_frame'
  /\ UNCHANGED <<rgb_now, rgb_sets, rgb_got_sig, rgb_panel>>

RgbPlan ==
  /\ RgbStep("plan", "column") /\ rgb_i' = 1 /\ RgbNotTooFar
  /\ rgb_next' = RgbInt(rgb_next + RgbOn(rgb_bit))
  /\ rgb_ahead' = rgb_ahead + RgbOn(rgb_bit)
  /\ LET lastBit == rgb_bit = RgbBits - 1
         lastRow == lastBit /\ rgb_row = RgbRows - 1
     IN /\ rgb_bit' = (rgb_bit + 1) % RgbBits
        /\ rgb_row' = IF lastBit THEN (rgb_row + 1) % RgbRows ELSE rgb_row
        /\ rgb_frame' = IF lastRow THEN (rgb_frame + 1) % RgbFrames ELSE rgb_frame
        /\ rgb_scanbuf' = rgb_frame'
  /\ UNCHANGED <<rgb_now, rgb_sets, rgb_got_sig, rgb_panel>>

(***************************************************************************)
(* send_line(row, bit): the column is on the pins before CLK rises.        *)
(***************************************************************************)
RgbColumn ==
  /\ RgbStep("column", "clock")
  /\ RgbPortA(FALSE, FALSE, FALSE, <<>>)
  /\ UNCHANGED <<rgb_i, rgb_row, rgb_bit, rgb_frame, rgb_next, rgbClock, rgb_scanbuf>>

\* Mutant: the last column is not clocked.
RgbShiftShort ==
  /\ rgb_pc = "clock"
  /\ RgbPortA(FALSE, FALSE, rgb_i < RgbCols, RgbLine(rgb_scanbuf, rgb_row, rgb_bit)[rgb_i])
  /\ IF rgb_i < RgbCols THEN rgb_i' = rgb_i + 1 /\ rgb_pc' = "column"
     ELSE rgb_i' = 1 /\ rgb_pc' = "wait"
  /\ UNCHANGED <<rgb_row, rgb_bit, rgb_frame, rgb_next, rgbClock, rgb_scanbuf>>

RgbShift ==
  /\ rgb_pc = "clock"
  /\ RgbPortA(FALSE, FALSE, TRUE, RgbLine(rgb_scanbuf, rgb_row, rgb_bit)[rgb_i])
  /\ IF rgb_i < RgbCols THEN rgb_i' = rgb_i + 1 /\ rgb_pc' = "column"
     ELSE rgb_i' = 1 /\ rgb_pc' = "wait"
  /\ UNCHANGED <<rgb_row, rgb_bit, rgb_frame, rgb_next, rgbClock, rgb_scanbuf>>

\* The clock is read until `next' is no longer ahead of it.
RgbWait ==
  /\ RgbStep("wait", "display") /\ RgbTimeIsUp
  /\ UNCHANGED <<rgb_i, rgb_row, rgb_bit, rgb_frame, rgb_next, rgbClock, rgb_scanbuf,
                 rgb_panel>>

\* main, after the loop: all leds are turned off.
RgbOff ==
  /\ RgbStep("off", "done")
  /\ rgb_panel' = [rgb_panel EXCEPT !.sto = FALSE, !.oe = TRUE, !.clk = FALSE, !.addr = 0]
  /\ UNCHANGED <<rgb_i, rgb_row, rgb_bit, rgb_frame, rgb_next, rgbClock, rgb_scanbuf>>

(***************************************************************************)
(* SIGINT, the time that passes, and a clock that is set                   *)
(***************************************************************************)
RgbSignal ==
  /\ rgb_pc # "done" /\ ~rgb_got_sig /\ rgb_got_sig' = TRUE
  /\ UNCHANGED <<rgb_pc, rgb_i, rgb_row, rgb_bit, rgb_frame, rgb_next, rgb_now,
                 rgb_ahead, rgb_sets, rgb_scanbuf, rgb_panel>>

RgbMove(d) ==
  /\ rgb_pc # "done" /\ rgb_ahead - d >= -RgbLate /\ rgb_ahead - d < RgbRange \div 2
  /\ rgb_now' = RgbInt(rgb_now + d) /\ rgb_ahead' = rgb_ahead - d
  /\ UNCHANGED <<rgb_pc, rgb_i, rgb_row, rgb_bit, rgb_frame, rgb_next, rgb_got_sig,
                 rgb_scanbuf, rgb_panel>>

RgbTick == RgbMove(1) /\ UNCHANGED rgb_sets

RgbSet ==
  /\ rgb_sets < RgbSets /\ rgb_sets' = rgb_sets + 1
  /\ \E d \in {-2, 2} : RgbMove(d)

RgbProgram == RgbStart \/ RgbDark \/ RgbAddress \/ RgbLatch \/ RgbLight \/ RgbPlan
           \/ RgbColumn \/ RgbShift \/ RgbWait \/ RgbOff
RgbNext == RgbProgram \/ RgbSignal \/ RgbTick \/ RgbSet

RgbSpec == RgbInit /\ [][RgbNext]_rgbVars

(***************************************************************************)
(* Properties                                                              *)
(***************************************************************************)
\* What a lit row shows is one whole line, of that row: no column of another
\* plane or frame is left in it, and no row shows its neighbour's line.  Only
\* the first line, latched before anything was sent, is excepted.
LitLineIsWhole ==
  (~rgb_panel.oe /\ rgb_panel.latch # RgbNoise) =>
     \E frame \in 0 .. RgbFrames - 1, bit \in 0 .. RgbBits - 1 :
        rgb_panel.latch = RgbLine(frame, rgb_panel.addr, bit)

\* Where a line is in the scan, by any of its columns.
RgbPlace(column) == (column[1] * RgbRows + column[2]) * RgbBits + column[3]

\* The lines are latched in the order of the scan, none twice and none left out:
\* a frame is shown completely before any line of the next one.  And each is given
\* the time of its own bit, though the next line's is being counted on already.
ScansInOrder ==
  [][ rgb_panel.latch # RgbNoise =>
        /\ rgb_panel'.latch # rgb_panel.latch =>
             RgbPlace(rgb_panel'.latch[1])
               = (RgbPlace(rgb_panel.latch[1]) + 1) % (RgbFrames * RgbRows * RgbBits)
        /\ rgb_pc = "plan" /\ rgb_next' # rgb_next =>
             RgbInt(rgb_next' - rgb_next) = RgbOn(rgb_panel.latch[1][3]) ]_rgbVars

\* A line is over when its time is over and not before, on the true clock, though the
\* ints that are compared have wrapped any number of times and the clock was set.  Only
\* while one of the two has wrapped and the other has not, when their difference is no
\* int, a line may be cut short or kept on; the first wait after that is exact again.
WaitsForItsTime ==
  (rgb_pc = "wait" /\ rgb_next - rgb_now \in RgbInts) => (RgbTimeIsUp <=> rgb_ahead <= 0)
=============================================================================

----------------------------- MODULE MCDevices -----------------------------
(* An instance for TLC of start-up and dispatch, of the timer and of a      *)
(* picture drawn.  One of them runs; the others stay at their beginning.    *)
EXTENDS Ioe

CONSTANTS
  TimerModulus, MINUTE, HOUR, DAY, Years, Months, Intervals, MaxElapsed,  \* Timer
  SCREEN_WIDTH, SCREEN_HEIGHT, MaxArg, Modulus, Behind              \* FbDraw

Args == 0..MaxArg

VARIABLES
  use,                                                  \* which of them runs
  uptime, rtc, intr, time_base, timer_started, reading, elapsed, date,  \* Timer
  memory, ctl, call, i, j, pc, told                                     \* FbDraw

timerVars == <<uptime, rtc, intr, time_base, timer_started, reading, elapsed, date>>
drawVars  == <<memory, ctl, call, i, j, pc, told>>
mcVars    == <<use, vars, timerVars, drawVars>>

Timer == INSTANCE Timer WITH Modulus <- TimerModulus, started <- timer_started, out <- reading
Draw  == INSTANCE FbDraw

ASSUME DeviceAssumption == Timer!Parameters /\ Draw!Parameters

TimerIdle == uptime = 0 /\ rtc = 0 /\ Timer!Init
DrawIdle  == call = [x |-> 0, y |-> 0, w |-> 0, h |-> 0, sync |-> FALSE, deep |-> FALSE]
             /\ Draw!Init

MCInit ==
  /\ Init
  /\ \/ use = "boot"  /\ TimerIdle  /\ DrawIdle
     \/ use = "timer" /\ DrawIdle  /\ Timer!Init
     \/ use = "draw"  /\ TimerIdle  /\ Draw!Init

BootStep(A) == use = "boot"  /\ A          /\ UNCHANGED <<use, timerVars, drawVars>>
TimerStep   == use = "timer" /\ Timer!Next /\ UNCHANGED <<use, vars, drawVars>>
DrawStep    == use = "draw"  /\ Draw!Next  /\ UNCHANGED <<use, vars, timerVars>>

MCNext == BootStep(Next) \/ TimerStep \/ DrawStep

MCSpec ==
  /\ MCInit /\ [][MCNext]_mcVars
  /\ WF_mcVars(BootStep(Work)) /\ WF_mcVars(DrawStep)

-----------------------------------------------------------------------------
(* The properties of the instances; those of Ioe have their own names.       *)

\* Uptime is the time since the start, across the counter's wrapping (timer.c:17-25).
UptimeRight == Timer!UptimeRight

\* The clock shows the calendar set and moved on second by second (timer.c:35-49).
RtcKeepsTime == Timer!RtcKeepsTime

\* Nothing is drawn outside the rectangle asked for or behind the framebuffer
\* (gpu.c:197-220).
DrawnInside == use = "draw" => Draw!TypeOK /\ Draw!DrawnInside

\* A drawing ends and tells the device exactly when it should (gpu.c:197-220).
DrawEnds == use = "draw" => Draw!CallEnds
=============================================================================

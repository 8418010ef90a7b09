------------------------------ MODULE PtpTimer ------------------------------
(***************************************************************************)
(* The driver of the 1588 timer (xlnx-ptp-timer/xlnx-ptp-timer.c): the     *)
(* operations of the PTP clock, called by several processes while the      *)
(* hardware runs on, its interrupt, and the life of the driver.            *)
(*                                                                         *)
(* A time is a number of units, NSEC to the second, so that unit t of a    *)
(* second stands for its t-th part.  The seconds of the hardware are two   *)
(* words of 32 bits, WORD * WORD values in all; the driver writes both and *)
(* reads the low one.                                                      *)
(*                                                                         *)
(* The hardware is modelled from the comments of the driver (lines 200-205 *)
(* and 258-260): it adds the ns offset to its own ns at all times, and the *)
(* sec offset to its seconds once, when the ns offset is written.          *)
(***************************************************************************)
EXTENDS Integers

CONSTANTS
  Caller,       \* the processes that operate the clock: ptp4l, phc2sys, ...
  NoCaller,
  WORD,         \* 2^32
  NSEC,         \* units in a second
  INC,          \* incval of adjfreq: the nominal increment of the running clock
  PPB,          \* 10^9; max_adj is PPB - 1
  PULSES,       \* PULSESIN1PPS
  Ppbs, Deltas, Targets,  \* the arguments of adjfreq, adjtime, settime
  MaxFree,      \* bound: how far the hardware runs
  MaxMoves      \* bound: calls of adjtime and settime

ASSUME CallerAssumption == NoCaller \notin Caller
ASSUME WordAssumption   == WORD \in Nat /\ WORD > 1 /\ NSEC \in Nat /\ NSEC > 1
ASSUME RateAssumption   == INC \in Nat \ {0} /\ PPB \in Nat \ {0} /\ Ppbs \subseteq -(PPB - 1) .. PPB - 1
ASSUME InputAssumption  == Deltas \subseteq Int /\ Targets \subseteq Nat
ASSUME PulseAssumption  == PULSES \in Nat \ {0}
ASSUME BoundAssumption  == MaxFree \in Nat /\ MaxMoves \in Nat

VARIABLES
  free,         \* what the hardware has counted since power on
  inc,          \* register RTC_INCREMENT: what one tick adds
  step,         \* the seconds added to the count by writes of the offset
  off,          \* registers RTC_OFFSET_SEC_H, _SEC_L and _NS
  reg_lock,     \* who holds the lock, NoCaller if nobody
  op, pc,       \* what a caller calls, and where it is
  arg,          \* the argument of that call
  ts,           \* the timespec that call works on, in units
  zeroed,       \* settime has written its first offset
  at,           \* history: free when the call read the ns
  want,         \* history: what the calls that returned have moved the clock by
  moves,        \* history: calls of adjtime and settime
  drv,          \* the driver: "unbound", "probing", "bound", "removing"
  clock,        \* a PTP clock is registered with the kernel
  ptp_clock,    \* timer->ptp_clock is set
  pps_enable,
  irq,          \* the interrupt has been requested
  isr,          \* the interrupt handler: "idle", or "event" when it is to send one
  countpulse,
  stray         \* history: an event went to a clock that was not registered

hw     == <<free, inc, step, off>>
calls  == <<reg_lock, op, pc, arg, ts, zeroed, at>>
driver == <<drv, clock, ptp_clock, pps_enable, irq, isr, countpulse, stray>>
vars   == <<hw, calls, want, moves, driver>>

Ops == {"none", "gettime", "adjtime", "settime"}
Pcs == {"idle", "lock", "offset", "tod_ns", "tod_sec", "sec_h", "sec_l", "ns"}

-----------------------------------------------------------------------------
(* The hardware *)

Range64 == WORD * WORD * NSEC           \* the times the hardware tells apart

\* The displacement of the clock from its count, and the time of day.
Displacement == (step * NSEC + off.ns) % Range64
TimeOfDay    == (free + Displacement) % Range64

\* A caller that holds the lock has interrupts disabled: less than a second
\* passes between its two reads of the clock.
Tick ==
  /\ free + inc <= MaxFree
  /\ \A c \in Caller : pc[c] = "tod_sec" => free + inc - at[c] < NSEC
  /\ free' = free + inc
  /\ UNCHANGED <<inc, step, off, calls, want, moves, driver>>

-----------------------------------------------------------------------------
(* Calls of the clock *)

Goto(c, l) == pc' = [pc EXCEPT ![c] = l]

Call(c, o, a) ==
  /\ clock /\ drv # "unbound" /\ pc[c] = "idle"
  /\ op'  = [op EXCEPT ![c] = o]
  /\ arg' = [arg EXCEPT ![c] = a]
  /\ Goto(c, "lock")
  /\ moves' = IF o = "gettime" THEN moves ELSE moves + 1
  /\ moves' <= MaxMoves
  /\ UNCHANGED <<hw, reg_lock, ts, zeroed, at, want, driver>>

\* A faulty call, which does without the lock.
LockNot(c) ==
  /\ pc[c] = "lock"
  /\ UNCHANGED reg_lock
  /\ Goto(c, CASE op[c] = "gettime" -> "tod_ns"
               [] op[c] = "adjtime" -> "offset"
               [] op[c] = "settime" -> "sec_h")
  /\ ts' = [ts EXCEPT ![c] = 0]
  /\ UNCHANGED <<hw, op, arg, zeroed, at, want, moves, driver>>

\* spin_lock_irqsave
Lock(c) ==
  /\ pc[c] = "lock" /\ reg_lock = NoCaller
  /\ reg_lock' = c
  /\ Goto(c, CASE op[c] = "gettime" -> "tod_ns"
               [] op[c] = "adjtime" -> "offset"
               [] op[c] = "settime" -> "sec_h")
  /\ ts' = [ts EXCEPT ![c] = 0]
  /\ UNCHANGED <<hw, op, arg, zeroed, at, want, moves, driver>>

\* What a call leaves behind is nothing but its result r.
Return(c, r) ==
  /\ reg_lock' = NoCaller
  /\ op'  = [op EXCEPT ![c] = "none"]
  /\ arg' = [arg EXCEPT ![c] = 0]
  /\ at'  = [at EXCEPT ![c] = 0]
  /\ ts'  = [ts EXCEPT ![c] = r]
  /\ Goto(c, "idle")

\* A faulty order of the two reads.
TodReadSecFirst(first, second) == ((first \div NSEC) % WORD) * NSEC + (second % NSEC)

\* xlnx_tod_read makes a time of the ns of one moment and the low word of the
\* seconds of a later one.
TodRead(first, second) == ((second \div NSEC) % WORD) * NSEC + (first % NSEC)

\* A faulty difference, which loses the ns with the seconds.
SetDeltaOfSeconds(target, tod) ==
  LET sec   == (tod \div NSEC) - (IF tod \div NSEC >= WORD \div 2 THEN WORD ELSE 0)
      delta == (target % (WORD * NSEC)) - (sec * NSEC + (tod % NSEC))
  IN IF delta \div NSEC <= 0 THEN 0 ELSE delta

\* What settime makes of the time it has read: the seconds are cast to an int,
\* and a difference of no whole second to add is cut to its ns.
SetDelta(target, tod) ==
  LET sec   == (tod \div NSEC) - (IF tod \div NSEC >= WORD \div 2 THEN WORD ELSE 0)
      delta == (target % (WORD * NSEC)) - (sec * NSEC + (tod % NSEC))
  IN IF delta \div NSEC <= 0 THEN delta % NSEC ELSE delta

TodReadNs(c) ==
  /\ pc[c] = "tod_ns"
  /\ ts' = [ts EXCEPT ![c] = TimeOfDay]
  /\ at' = [at EXCEPT ![c] = free]
  /\ Goto(c, "tod_sec")
  /\ UNCHANGED <<hw, reg_lock, op, arg, zeroed, want, moves, driver>>

TodReadSec(c) ==
  LET tod == TodRead(ts[c], TimeOfDay)
  IN /\ pc[c] = "tod_sec"
     /\ IF op[c] = "gettime"
        THEN Return(c, tod)
        ELSE /\ ts' = [ts EXCEPT ![c] = SetDelta(arg[c], tod)]
             /\ Goto(c, "sec_h")
             /\ UNCHANGED <<reg_lock, op, arg, at>>
     /\ UNCHANGED <<hw, zeroed, want, moves, driver>>

\* A faulty sum, with the seconds of the last offset.
NewOffsetWithSeconds(delta) == (off.sec_h * WORD + off.sec_l) * NSEC + off.ns + delta

\* adjtime adds its delta to the ns offset there is, its seconds left out: the
\* hardware has added them already.
NewOffset(delta) == off.ns + delta

OffsetRead(c) ==
  /\ pc[c] = "offset"
  /\ ts' = [ts EXCEPT ![c] = NewOffset(arg[c])]
  /\ Goto(c, "sec_h")
  /\ UNCHANGED <<hw, reg_lock, op, arg, zeroed, at, want, moves, driver>>

\* xlnx_rtc_offset_write, and the same three writes in adjtime: the seconds, the
\* high word first, then the ns, which make the hardware take all three.
WriteSecH(c) ==
  /\ pc[c] = "sec_h"
  /\ off' = [off EXCEPT !.sec_h = ((ts[c] \div NSEC) \div WORD) % WORD]
  /\ Goto(c, "sec_l")
  /\ UNCHANGED <<free, inc, step, reg_lock, op, arg, ts, zeroed, at, want, moves, driver>>

WriteSecL(c) ==
  /\ pc[c] = "sec_l"
  /\ off' = [off EXCEPT !.sec_l = (ts[c] \div NSEC) % WORD]
  /\ Goto(c, "ns")
  /\ UNCHANGED <<free, inc, step, reg_lock, op, arg, ts, zeroed, at, want, moves, driver>>

\* The first offset settime writes is 0: it then reads the clock without one.
WriteNs(c) ==
  /\ pc[c] = "ns"
  /\ off'  = [off EXCEPT !.ns = ts[c] % NSEC]
  /\ step' = (step + off.sec_h * WORD + off.sec_l) % (WORD * WORD)
  /\ IF op[c] = "settime" /\ ~zeroed[c]
     THEN /\ zeroed' = [zeroed EXCEPT ![c] = TRUE]
          /\ Goto(c, "tod_ns")
          /\ UNCHANGED <<reg_lock, op, arg, ts, at, want>>
     ELSE /\ want' = IF op[c] = "adjtime" THEN (want + arg[c]) % Range64 ELSE Displacement'
          /\ Return(c, 0)
          /\ zeroed' = [zeroed EXCEPT ![c] = FALSE]
  /\ UNCHANGED <<free, inc, moves, driver>>

\* A faulty quotient, rounded up.
IncValRoundedUp(ppb) ==
  IF ppb < 0 THEN INC - (INC * (-ppb) + PPB - 1) \div PPB ELSE INC + (INC * ppb + PPB - 1) \div PPB

\* adjfreq, which takes no lock: the new increment is made of INC, not of what
\* the register holds.
IncVal(ppb) ==
  IF ppb < 0 THEN INC - (INC * (-ppb)) \div PPB ELSE INC + (INC * ppb) \div PPB

AdjFreq(ppb) ==
  /\ clock /\ drv # "unbound"
  /\ inc' = IncVal(ppb)
  /\ UNCHANGED <<free, step, off, calls, want, moves, driver>>

-----------------------------------------------------------------------------
(* The driver and its interrupt *)

\* xlnx_ptp_enable looks at the type of the request only: a pulse per second
\* that is on cannot be turned off.
Enable ==
  /\ clock /\ drv # "unbound"
  /\ pps_enable' = TRUE
  /\ UNCHANGED <<hw, calls, want, moves, drv, clock, ptp_clock, irq, isr, countpulse, stray>>

\* xlnx_ptp_timer_isr, up to the call of ptp_clock_event.
Interrupt ==
  /\ irq /\ isr = "idle"
  /\ countpulse' = (countpulse + 1) % PULSES
  /\ isr' = IF countpulse + 1 = PULSES /\ ptp_clock /\ pps_enable THEN "event" ELSE "idle"
  /\ UNCHANGED <<hw, calls, want, moves, drv, clock, ptp_clock, pps_enable, irq, stray>>

\* The event, and the acknowledgement.
Event ==
  /\ isr = "event"
  /\ isr' = "idle"
  /\ stray' = (stray \/ ~clock)
  /\ UNCHANGED <<hw, calls, want, moves, drv, clock, ptp_clock, pps_enable, irq, countpulse>>

\* xlnx_ptp_timer_probe: the clock can be called before there is an interrupt.
Probe ==
  /\ drv = "unbound" /\ ~clock
  /\ drv' = "probing" /\ clock' = TRUE /\ ptp_clock' = TRUE
  /\ pps_enable' = FALSE /\ countpulse' = 0
  /\ UNCHANGED <<hw, calls, want, moves, irq, isr, stray>>

RequestIrq ==
  /\ drv = "probing"
  /\ \/ drv' = "bound" /\ irq' = TRUE /\ UNCHANGED ptp_clock
     \* Refused: the clock stays registered, without a driver.  What a call of
     \* it then does is undefined.
     \/ drv' = "unbound" /\ ptp_clock' = FALSE /\ UNCHANGED irq
  /\ UNCHANGED <<hw, calls, want, moves, clock, pps_enable, isr, countpulse, stray>>

\* A faulty remove, which does not wait for a handler that is running.
FreeIrqNoWait ==
  /\ drv = "bound"
  /\ irq' = FALSE /\ drv' = "removing"
  /\ UNCHANGED <<hw, calls, want, moves, clock, ptp_clock, pps_enable, isr, countpulse, stray>>

\* xlnx_ptp_timer_remove: free_irq waits for the handler, ptp_clock_unregister
\* for the calls under way.
FreeIrq ==
  /\ drv = "bound" /\ isr = "idle"
  /\ irq' = FALSE /\ drv' = "removing"
  /\ UNCHANGED <<hw, calls, want, moves, clock, ptp_clock, pps_enable, isr, countpulse, stray>>

\* A faulty end of remove, with calls under way.
UnregisterNoWait ==
  /\ drv = "removing"
  /\ clock' = FALSE /\ ptp_clock' = FALSE /\ drv' = "unbound"
  /\ UNCHANGED <<hw, calls, want, moves, pps_enable, irq, isr, countpulse, stray>>

Unregister ==
  /\ drv = "removing" /\ \A c \in Caller : pc[c] = "idle"
  /\ clock' = FALSE /\ ptp_clock' = FALSE /\ drv' = "unbound"
  /\ UNCHANGED <<hw, calls, want, moves, pps_enable, irq, isr, countpulse, stray>>

-----------------------------------------------------------------------------
Init ==
  /\ free = 0 /\ inc = INC /\ step = 0
  /\ off = [sec_h |-> 0, sec_l |-> 0, ns |-> 0]
  /\ reg_lock = NoCaller
  /\ op = [c \in Caller |-> "none"] /\ pc = [c \in Caller |-> "idle"]
  /\ arg = [c \in Caller |-> 0] /\ ts = [c \in Caller |-> 0] /\ at = [c \in Caller |-> 0]
  /\ zeroed = [c \in Caller |-> FALSE]
  /\ want = 0 /\ moves = 0
  /\ drv = "unbound" /\ clock = FALSE /\ ptp_clock = FALSE /\ pps_enable = FALSE
  /\ irq = FALSE /\ isr = "idle" /\ countpulse = 0 /\ stray = FALSE

CallerStep(c) ==
  \/ Call(c, "gettime", 0)
  \/ \E d \in Deltas : Call(c, "adjtime", d)
  \/ \E t \in Targets : Call(c, "settime", t)
  \/ Lock(c)
  \/ TodReadNs(c) \/ TodReadSec(c)
  \/ OffsetRead(c)
  \/ WriteSecH(c) \/ WriteSecL(c) \/ WriteNs(c)

Next ==
  \/ Tick
  \/ \E c \in Caller : CallerStep(c)
  \/ \E p \in Ppbs : AdjFreq(p)
  \/ Enable \/ Interrupt \/ Event
  \/ Probe \/ RequestIrq \/ FreeIrq \/ Unregister

Spec == Init /\ [][Next]_vars

-----------------------------------------------------------------------------
(* Properties *)

\* The clock never stops nor runs backwards: no increment adjfreq can write is 0
\* or less.  (The other conjuncts are types.)
TypeOK ==
  /\ free \in Nat /\ inc \in 1 .. 2 * INC
  /\ step \in 0 .. WORD * WORD - 1
  /\ off \in [sec_h : 0 .. WORD - 1, sec_l : 0 .. WORD - 1, ns : 0 .. NSEC - 1]
  /\ reg_lock \in Caller \cup {NoCaller}
  /\ op \in [Caller -> Ops] /\ pc \in [Caller -> Pcs]
  /\ arg \in [Caller -> Int] /\ ts \in [Caller -> Int] /\ at \in [Caller -> Nat]
  /\ zeroed \in [Caller -> BOOLEAN]
  /\ want \in 0 .. Range64 - 1 /\ moves \in Nat
  /\ drv \in {"unbound", "probing", "bound", "removing"}
  /\ {clock, ptp_clock, pps_enable, irq, stray} \subseteq BOOLEAN
  /\ isr \in {"idle", "event"} /\ countpulse \in 0 .. PULSES - 1

\* Between two calls the clock is displaced by exactly the sum of what adjtime
\* was asked for since settime last wrote it, whoever called, whatever the
\* hardware had already added of an earlier offset, and across the words.
AdjustmentsAddUp == reg_lock = NoCaller => want = Displacement

\* gettime may pair the ns of one second with the next second, and is then
\* ahead by less than a second at its return; it is never behind the moment of
\* its call.
GetTimeNeverBehind ==
  [][\A c \in Caller :
       op[c] = "gettime" /\ pc[c] = "tod_sec" /\ pc'[c] = "idle" =>
         (ts'[c] - (at[c] + Displacement)) % (WORD * NSEC) < free - at[c] + NSEC]_vars

\* settime to a time that is not before the clock's own (without its offset)
\* sets what the driver can read of the clock to that time, or to one second
\* before when its own read of the clock was torn; from second 2^31 on it does
\* so for every time.
SetTimeWithinSecond ==
  [][\A c \in Caller :
       op[c] = "settime" /\ pc[c] = "ns" /\ pc'[c] = "idle" =>
         LET read   == (at[c] + Displacement) % (WORD * NSEC)
             wanted == arg[c] % (WORD * NSEC)
             set    == (TimeOfDay' - (free - at[c])) % (WORD * NSEC)
         IN read <= wanted \/ read \div NSEC >= WORD \div 2
              => (wanted - set) % (WORD * NSEC) \in {0, NSEC}]_vars

\* No event goes to a clock that is not registered, and no call is in the
\* driver when its clock has gone: remove ends the interrupt first, and
\* waits for both.
NothingAfterRemove == ~stray /\ (~clock => \A c \in Caller : pc[c] = "idle")
=============================================================================

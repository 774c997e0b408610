-------------------------------- MODULE Timer --------------------------------
(***************************************************************************)
(* The timer of src/hw/ip/sim/timer.sv and its driver in                   *)
(* src/sw/common/simple_system_common.c.  Time and the compare value are   *)
(* two bus words each; the driver reads and writes them word by word       *)
(* while time goes on, and the handler may interrupt the main program      *)
(* between any two accesses.  A step is a clock cycle, with at most one    *)
(* access, or something the processor does without the bus.                *)
(***************************************************************************)
EXTENDS Naturals

CONSTANTS Base,      \* values of a bus word (2^32)
          Periods,   \* arguments of timer_enable
          Reenables, \* whether callers enable a timer that is enabled
          MaxTime    \* bound on mtime

ASSUME TimerAssumption ==
    /\ Base \in Nat \ {0} /\ Periods \subseteq Nat \ {0} /\ Reenables \in BOOLEAN
    /\ \A p \in Periods : MaxTime + p < Base * Base
    /\ MaxTime \in Nat

VARIABLES
    mtime, mtimecmp,
    interrupt,  \* interrupt_q
    mie,        \* timer interrupts enabled
    mstatus,    \* interrupts enabled
    frame,      \* what main and the handler are doing
    elapsed,    \* time_elapsed
    increment,  \* time_increment
    start,      \* history: time of the last call of timer_enable
    due         \* history: when the time last asked for is over, seen from the write

hardware == <<mtime, mtimecmp, interrupt>>
cpu      == <<mie, mstatus>>
counters == <<elapsed, increment>>
history  == <<start, due>>
vars == <<hardware, cpu, frame, counters, history>>

Threads == {"main", "handler"}
High(t) == t \div Base
Low(t) == t % Base
Idle == [pc |-> "idle", arms |-> FALSE, from |-> 0, high |-> 0, low |-> 0, add |-> 0]
----------------------------------------------------------------------------
(***************************************************************************)
(* A clock cycle of the hardware, with the new value of mtimecmp if one of *)
(* its words is written.                                                   *)
(***************************************************************************)
\* Mutant of Clock: any access of the bus clears the interrupt.
ClockReadClears(access, value) ==
    /\ mtime < MaxTime
    /\ mtime' = mtime + 1
    /\ mtimecmp' = IF access = "write" THEN value ELSE mtimecmp
    /\ interrupt' = ((mtime >= mtimecmp \/ interrupt) /\ access = "none")

Clock(access, value) ==
    /\ mtime < MaxTime
    /\ mtime' = mtime + 1
    /\ mtimecmp' = IF access = "write" THEN value ELSE mtimecmp
    /\ interrupt' = ((mtime >= mtimecmp \/ interrupt) /\ access # "write")

Wait == Clock("none", mtimecmp) /\ UNCHANGED <<cpu, frame, counters, history>>
----------------------------------------------------------------------------
(***************************************************************************)
(* timer_read and timecmp_update, in whichever thread runs.                *)
(***************************************************************************)
Runs(t) == t = "main" => frame["handler"].pc = "idle"
At(t, pc) == Runs(t) /\ frame[t].pc = pc
Step(t, f) == frame' = [frame EXCEPT ![t] = f]
Value(t) == frame[t].high * Base + frame[t].low

ReadHigh(t) ==
    /\ At(t, "high")
    /\ Clock("read", mtimecmp)
    /\ Step(t, [frame[t] EXCEPT !.pc = "low", !.high = High(mtime), !.from = mtime])
    /\ UNCHANGED <<cpu, counters, history>>

ReadLow(t) ==
    /\ At(t, "low")
    /\ Clock("read", mtimecmp)
    /\ Step(t, [frame[t] EXCEPT !.pc = "check", !.low = Low(mtime)])
    /\ UNCHANGED <<cpu, counters, history>>

\* Mutant of ReadAgain: the high word is not compared.
ReadAgainOnce(t) ==
    /\ At(t, "check")
    /\ Clock("read", mtimecmp)
    /\ Step(t, [frame[t] EXCEPT !.pc = IF frame[t].arms THEN "mask" ELSE "known"])
    /\ UNCHANGED <<cpu, counters, history>>

(* The high word once more; another value starts the reading again. *)
ReadAgain(t) ==
    /\ At(t, "check")
    /\ Clock("read", mtimecmp)
    /\ Step(t, [frame[t] EXCEPT !.pc = IF High(mtime) # frame[t].high THEN "high"
                                       ELSE IF frame[t].arms THEN "mask" ELSE "known"])
    /\ UNCHANGED <<cpu, counters, history>>

New(t) == Value(t) + frame[t].add
Then(t) == IF t = "main" THEN "mie" ELSE "count"

(* Low word to all ones, high word, low word. *)
Mask(t) ==
    /\ At(t, "mask")
    /\ Clock("write", High(mtimecmp) * Base + Base - 1)
    /\ Step(t, [frame[t] EXCEPT !.pc = "cmph"])
    /\ UNCHANGED <<cpu, counters, history>>

\* Mutant of WriteHigh: the carry of the addition into the high word is lost.
WriteHighNoCarry(t) ==
    /\ At(t, "cmph")
    /\ Clock("write", frame[t].high * Base + Low(mtimecmp))
    /\ Step(t, [frame[t] EXCEPT !.pc = "cmpl"])
    /\ UNCHANGED <<cpu, counters, history>>

WriteHigh(t) ==
    /\ At(t, "cmph")
    /\ Clock("write", High(New(t)) * Base + Low(mtimecmp))
    /\ Step(t, [frame[t] EXCEPT !.pc = "cmpl"])
    /\ UNCHANGED <<cpu, counters, history>>

WriteLow(t) ==
    /\ At(t, "cmpl")
    /\ Clock("write", High(mtimecmp) * Base + Low(New(t)))
    /\ Step(t, [frame[t] EXCEPT !.pc = Then(t)])
    /\ due' = IF New(t) > mtime THEN New(t) ELSE mtime + 1
    /\ UNCHANGED <<cpu, counters, start>>
----------------------------------------------------------------------------
(***************************************************************************)
(* The main program.                                                       *)
(***************************************************************************)
Call(f) == At("main", "idle") /\ Step("main", f)

TimerRead == /\ Call([Idle EXCEPT !.pc = "high"])
             /\ UNCHANGED <<hardware, cpu, counters, history>>

Return == /\ At("main", "known")
          /\ Step("main", Idle)
          /\ UNCHANGED <<hardware, cpu, counters, history>>

TimerEnable(period) ==
    /\ Call([Idle EXCEPT !.pc = "high", !.arms = TRUE, !.add = period])
    /\ mie => Reenables
    /\ elapsed' = 0
    /\ increment' = period
    /\ start' = mtime
    /\ UNCHANGED <<hardware, cpu, due>>

(* The two csrs at the end of timer_enable. *)
Unmask == \/ /\ At("main", "mie")
             /\ mie' = TRUE
             /\ Step("main", [frame["main"] EXCEPT !.pc = "mstatus"])
             /\ UNCHANGED <<hardware, mstatus, counters, history>>
          \/ /\ At("main", "mstatus")
             /\ mstatus' = TRUE
             /\ Step("main", Idle)
             /\ UNCHANGED <<hardware, mie, counters, history>>

TimerDisable == /\ At("main", "idle")
                /\ mie' = FALSE
                /\ UNCHANGED <<hardware, mstatus, frame, counters, history>>
----------------------------------------------------------------------------
(***************************************************************************)
(* simple_timer_handler.  It runs with interrupts off.                     *)
(***************************************************************************)
Trap == /\ interrupt /\ mie /\ mstatus
        /\ frame["handler"].pc = "idle"
        /\ Step("handler", [Idle EXCEPT !.pc = "high", !.arms = TRUE, !.add = increment])
        /\ UNCHANGED <<hardware, cpu, counters, history>>

CountUp == /\ At("handler", "count")
           /\ elapsed' = elapsed + 1
           /\ Step("handler", Idle)
           /\ UNCHANGED <<hardware, cpu, increment, history>>
----------------------------------------------------------------------------
Init == /\ mtime = 0 /\ mtimecmp = 0 /\ interrupt = FALSE
        /\ mie = FALSE /\ mstatus = FALSE
        /\ frame = [t \in Threads |-> Idle]
        /\ elapsed = 0 /\ increment = 0 /\ start = 0 /\ due = 0

Access(t) == \/ ReadHigh(t) \/ ReadLow(t) \/ ReadAgain(t)
             \/ Mask(t) \/ WriteHigh(t) \/ WriteLow(t)

Next == \/ Wait \/ TimerRead \/ Return \/ Unmask \/ TimerDisable \/ Trap \/ CountUp
        \/ \E p \in Periods : TimerEnable(p)
        \/ \E t \in Threads : Access(t)

Spec == Init /\ [][Next]_vars
----------------------------------------------------------------------------
(* timer_read returns a time that was current while it ran, although it    *)
(* reads three words one after the other, time carries from one to the     *)
(* other, and the handler may run in between.                              *)
ReadIsTime ==
    \A t \in Threads :
        frame[t].pc \in {"mask", "cmph", "cmpl", "known"} => Value(t) \in frame[t].from..mtime

(* The handler never runs early: at its n-th run since timer_enable, n     *)
(* periods have passed, whatever values mtimecmp went through while it was *)
(* written and whatever interrupt was left over from before.               *)
TicksNotEarly ==
    LET runs == IF frame["handler"].pc = "idle" THEN elapsed ELSE elapsed + 1
    IN  runs * increment <= mtime - start

(* No tick is lost: a cycle after the time software asked for is over, or  *)
(* after it was written if that is later, the interrupt is pending, until  *)
(* software is ready to take it.                                           *)
DueIsPending ==
    mie /\ mstatus /\ (\A t \in Threads : ~frame[t].arms) /\ mtime > due => interrupt
=============================================================================

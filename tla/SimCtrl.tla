------------------------------- MODULE SimCtrl -------------------------------
(***************************************************************************)
(* The simulation of the SoC as a process: the command line and the main   *)
(* loop of VerilatorSimCtrl (verilator_sim_ctrl.cc), the harness of        *)
(* opensoc_top_sim.cc that turns the result into an exit code, and the     *)
(* simulator_ctrl device through which the software ends the run.          *)
(*                                                                         *)
(* The main thread takes one step per access to what it shares with the    *)
(* signal handler, which runs between any two of them.                     *)
(***************************************************************************)
EXTENDS Naturals

CONSTANTS Delay,     \* initial_reset_delay_cycles_
          Duration,  \* reset_duration_cycles_
          Possible,  \* tracing_possible_: compiled with tracing
          Timeouts,  \* arguments of --term-after-cycles; 0 is no timeout
          Failures,  \* counts that the software passes to sim_halt
          Values,    \* values of the register sim_halt writes (2^32)
          MaxArgs,   \* bound on the options of a command line
          MaxSignals,\* bound on the signals that arrive during a run
          MaxTime    \* bound on time_

ASSUME SimAssumption ==
    /\ Delay \in Nat /\ Duration \in Nat /\ Possible \in BOOLEAN
    /\ Timeouts \subseteq Nat /\ Failures \subseteq 0..(Values - 1)
    /\ Values \in Nat \ {0} /\ MaxArgs \in Nat /\ MaxSignals \in Nat /\ MaxTime \in Nat

VARIABLES
    pc,        \* what the main thread does next
    args,      \* options read so far
    exitApp,   \* exit_app
    code,      \* exit code of the process, 2 while it runs
    term,      \* term_after_cycles_
    time,      \* time_, in half cycles
    clk, rst,  \* IO_CLK, and whether IO_RST_N is active
    stop,      \* request_stop_
    success,   \* simulation_success_
    loaded,    \* the value of simulation_success_ that RequestStop and-ed
    enabled, changed, ever,  \* tracing_*_
    tracer,    \* the trace file: never opened, open or closed
    finished,  \* Verilated::gotFinish
    finish, failCount,       \* sim_finish and fail_count_q of the device
    signals,   \* signals received
    halted,    \* history: what the software reported with sim_halt
    why,       \* history: reasons the run has had to end
    edges,     \* history: rising clock edges
    inReset    \* history: those with the reset active

options == <<args, exitApp, code, term>>
bench   == <<time, clk, rst>>
result  == <<stop, success, loaded>>
trace   == <<enabled, changed, ever, tracer>>
device  == <<finished, finish, failCount, halted>>
history == <<why, edges, inReset>>
vars == <<pc, options, bench, result, trace, device, signals, history>>

None == [reported |-> FALSE]
Exit(c) == pc' = "exited" /\ code' = c
----------------------------------------------------------------------------
(* TraceOn and TraceOff. *)
TraceOn == /\ enabled' = Possible
           /\ ever' = Possible
           /\ changed' = (changed \/ enabled # Possible)
TraceOff == /\ enabled' = FALSE
            /\ changed' = (changed \/ enabled)
            /\ UNCHANGED ever
----------------------------------------------------------------------------
(***************************************************************************)
(* ParseCommandArgs.  An error leaves at once with failure; help goes on   *)
(* reading, and the extensions read their own options last.                *)
(***************************************************************************)
Option == pc = "args" /\ args < MaxArgs /\ args' = args + 1

OptionTrace == /\ Option
               /\ IF Possible THEN TraceOn /\ UNCHANGED <<pc, code>>
                  ELSE Exit(1) /\ UNCHANGED <<enabled, changed, ever>>
               /\ UNCHANGED <<exitApp, term, tracer, bench, result, device, signals, history>>

OptionTimeout(n) == /\ Option
                    /\ term' = n
                    /\ UNCHANGED <<pc, exitApp, code, bench, result, trace, device, signals, history>>

OptionHelp == /\ Option
              /\ exitApp' = TRUE
              /\ UNCHANGED <<pc, code, term, bench, result, trace, device, signals, history>>

(* A timeout that is no number or too big, or an argument that is missing. *)
OptionBad == /\ Option
             /\ Exit(1)
             /\ UNCHANGED <<exitApp, term, bench, result, trace, device, signals, history>>

(* The extensions: the memory loader loads, fails, or lists its regions.   *)
Extensions ==
    /\ pc = "args"
    /\ \E answer \in {"loaded", "refused", "listed"} :
         LET leave == exitApp \/ answer = "listed"
         IN  /\ exitApp' = (exitApp \/ answer # "loaded")
             /\ IF answer = "refused" THEN Exit(1)
                ELSE IF leave THEN Exit(0)
                ELSE pc' = "trace" /\ UNCHANGED code
    /\ UNCHANGED <<args, term, bench, result, trace, device, signals, history>>
----------------------------------------------------------------------------
(***************************************************************************)
(* Trace, called before the first half cycle and after each.               *)
(***************************************************************************)
AfterTrace == IF time = 0 THEN "reset" ELSE "stopped"

TraceMessage == /\ pc = "trace"
                /\ changed' = FALSE
                /\ pc' = "tracing"
                /\ UNCHANGED <<options, bench, result, enabled, ever, tracer, device, signals, history>>

TraceTest == /\ pc = "tracing"
             /\ pc' = IF enabled THEN "dump" ELSE AfterTrace
             /\ UNCHANGED <<options, bench, result, trace, device, signals, history>>

TraceDump == /\ pc = "dump"
             /\ tracer' = "open"
             /\ pc' = AfterTrace
             /\ UNCHANGED <<options, bench, result, enabled, changed, ever, device, signals, history>>
----------------------------------------------------------------------------
(***************************************************************************)
(* One half cycle of the main loop.                                        *)
(***************************************************************************)
Cycle == time \div 2

SetReset == /\ pc = "reset" /\ time < MaxTime
            /\ rst' = IF Cycle = Delay THEN TRUE
                      ELSE IF Cycle = Delay + Duration THEN FALSE ELSE rst
            /\ pc' = "clock"
            /\ UNCHANGED <<options, time, clk, result, trace, device, signals, history>>

(* The device: the third rising edge after the write reports the count.    *)
(* The increment comes last in the block: a reset does not stop it.        *)
Halts == {None} \cup [reported : {TRUE}, count : Failures]

\* Mutant of Device: the whole word is taken for the count.
DeviceWhole(write) ==
    /\ finish' = IF finish # 0 THEN (finish + 1) % 8 ELSE IF write.reported THEN 1 ELSE 0
    /\ failCount' = IF rst THEN 0
                    ELSE IF write.reported /\ finish = 0
                    THEN (2 * write.count + 1) % Values ELSE failCount
    /\ halted' = IF write.reported THEN write ELSE halted

Device(write) ==
    /\ finish' = IF finish # 0 THEN (finish + 1) % 8 ELSE IF write.reported THEN 1 ELSE 0
    /\ failCount' = IF rst THEN 0
                    ELSE IF write.reported /\ finish = 0
                    THEN ((2 * write.count + 1) % Values) \div 2 ELSE failCount
    /\ halted' = IF write.reported THEN write ELSE halted

(* The toggle of the clock and eval.  The software, once it has been reset,*)
(* may call sim_halt, once; the design may end with $finish.               *)
Eval ==
    /\ pc = "clock"
    /\ clk' = ~clk
    /\ \E write \in Halts :
         /\ write.reported => ~clk /\ ~rst /\ inReset # {} /\ ~halted.reported
         /\ IF clk THEN UNCHANGED <<finish, failCount, halted>> ELSE Device(write)
    /\ finished' \in {finished, TRUE}
    /\ edges' = IF clk THEN edges ELSE edges + 1
    /\ inReset' = IF ~clk /\ rst THEN inReset \cup {edges} ELSE inReset
    /\ pc' = IF ~clk /\ finish >= 2 THEN "request" ELSE "time"
    /\ UNCHANGED <<options, time, rst, result, trace, signals, why>>

(* dpi_sim_finish calls RequestStop from inside eval: the flag, the load   *)
(* and the store of simulation_success_ are three accesses.                *)
RequestStop ==
    \/ /\ pc = "request"
       /\ stop' = TRUE
       /\ why' = why \cup {IF halted.count = 0 THEN "passed" ELSE "failed"}
       /\ pc' = "load"
       /\ UNCHANGED <<options, bench, success, loaded, trace, device, signals, edges, inReset>>
    \/ /\ pc = "load"
       /\ loaded' = (success /\ failCount = 0)
       /\ pc' = "store"
       /\ UNCHANGED <<options, bench, stop, success, trace, device, signals, history>>
    \/ /\ pc = "store"
       /\ success' = loaded
       /\ pc' = "time"
       /\ UNCHANGED <<options, bench, stop, loaded, trace, device, signals, history>>

Advance == /\ pc = "time"
           /\ time' = time + 1
           /\ pc' = "trace"
           /\ UNCHANGED <<options, clk, rst, result, trace, device, signals, history>>

(* The three tests at the end of the loop, in their order. *)
Stopped == /\ pc = "stopped"
           /\ pc' = IF stop \/ finished THEN "final" ELSE "timeout"
           /\ why' = IF ~stop /\ finished THEN why \cup {"finish"} ELSE why
           /\ UNCHANGED <<options, bench, result, trace, device, signals, edges, inReset>>

\* Mutant of Timeout: half cycles are taken for cycles.
TimeoutHalf == /\ pc = "timeout"
               /\ IF term # 0 /\ time >= term
                  THEN success' = FALSE /\ pc' = "final" /\ why' = why \cup {"timeout"}
                  ELSE pc' = "reset" /\ UNCHANGED <<success, why>>
               /\ UNCHANGED <<options, bench, stop, loaded, trace, device, signals, edges, inReset>>

\* Mutant of Timeout: the test is left out.
TimeoutNever == /\ pc = "timeout" /\ pc' = "reset"
                /\ UNCHANGED <<options, bench, result, trace, device, signals, history>>

Timeout == /\ pc = "timeout"
           /\ IF term # 0 /\ Cycle >= term
              THEN success' = FALSE /\ pc' = "final" /\ why' = why \cup {"timeout"}
              ELSE pc' = "reset" /\ UNCHANGED <<success, why>>
           /\ UNCHANGED <<options, bench, stop, loaded, trace, device, signals, edges, inReset>>

(* After the loop: the trace file is closed, and Finish makes the exit     *)
(* code of the result.                                                     *)
Final == /\ pc = "final"
         /\ tracer' = IF ever /\ tracer = "open" THEN "closed" ELSE tracer
         /\ Exit(IF success THEN 0 ELSE 1)
         /\ UNCHANGED <<args, exitApp, term, bench, result, enabled, changed, ever, device, signals, history>>
----------------------------------------------------------------------------
(* SignalHandler, from RegisterSignalHandler until the process ends.       *)
Running == pc \notin {"args", "exited"}

Interrupt == /\ Running /\ signals < MaxSignals
             /\ signals' = signals + 1
             /\ stop' = TRUE /\ success' = (success /\ TRUE)
             /\ why' = IF pc = "final" THEN why ELSE why \cup {"interrupt"}
             /\ UNCHANGED <<pc, options, bench, loaded, trace, device, edges, inReset>>

\* Mutant of TraceSignal: turning tracing off forgets that it was ever on.
TraceSignalForgets == /\ Running /\ signals < MaxSignals
                      /\ signals' = signals + 1
                      /\ IF enabled THEN enabled' = FALSE /\ changed' = TRUE /\ ever' = FALSE ELSE TraceOn
                      /\ UNCHANGED <<pc, options, bench, result, tracer, device, history>>

TraceSignal == /\ Running /\ signals < MaxSignals
               /\ signals' = signals + 1
               /\ IF enabled THEN TraceOff ELSE TraceOn
               /\ UNCHANGED <<pc, options, bench, result, tracer, device, history>>
----------------------------------------------------------------------------
Init == /\ pc = "args" /\ args = 0 /\ exitApp = FALSE /\ code = 2 /\ term = 0
        /\ time = 0 /\ clk = FALSE /\ rst = FALSE
        /\ stop = FALSE /\ success = TRUE /\ loaded = FALSE
        /\ enabled = FALSE /\ changed = FALSE /\ ever = FALSE /\ tracer = "never"
        /\ finished = FALSE /\ finish = 0 /\ failCount = 0 /\ signals = 0
        /\ halted = None /\ why = {} /\ edges = 0 /\ inReset = {}

Main == \/ OptionTrace \/ OptionHelp \/ OptionBad \/ Extensions
        \/ \E n \in Timeouts : OptionTimeout(n)
        \/ TraceMessage \/ TraceTest \/ TraceDump \/ SetReset \/ Eval
        \/ RequestStop \/ Advance \/ Stopped \/ Timeout \/ Final

Next == Main \/ Interrupt \/ TraceSignal

(* The operating system runs the process; nothing makes a signal arrive. *)
Spec == Init /\ [][Next]_vars /\ WF_vars(Main)
----------------------------------------------------------------------------
(* The exit code tells the truth: a failure that the software reported, or *)
(* a timeout, never ends in 0, whatever signals arrive and wherever they   *)
(* interrupt RequestStop, and nothing else ends in 1.  A failure that was  *)
(* written is lost only to an interrupt or a $finish in the edges between  *)
(* the write and the report, and a success only to the timeout.            *)
ExitCodeTrue ==
    pc = "exited" /\ edges > 0 =>
        /\ {"failed", "timeout"} \cap why # {} => code = 1
        /\ code = 1 => {"failed", "timeout"} \cap why # {}
        /\ code = 1 /\ halted.reported /\ halted.count = 0 => "timeout" \in why
        /\ code = 0 /\ halted.reported /\ halted.count > 0 => {"interrupt", "finish"} \cap why # {}

(* A run that times out has seen exactly the cycles it was given, and the  *)
(* design is in reset at exactly the rising edges it was asked to be.      *)
CyclesExact ==
    /\ "timeout" \in why => edges = term
    /\ inReset = (Delay..(Delay + Duration - 1)) \cap (0..edges - 1)

(* The trace file is closed before the process ends, however often tracing *)
(* was switched and whenever the signals came.                             *)
TraceClosed == pc = "exited" => tracer # "open"

(* A run with a timeout ends, in every design and under any signals.       *)
TimeoutEnds == (pc = "trace" /\ term > 0) ~> (pc = "exited")
=============================================================================

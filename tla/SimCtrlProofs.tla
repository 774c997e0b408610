---------------------------- MODULE SimCtrlProofs ----------------------------
(* Proofs about SimCtrl, for every reset window, timeout, failure count and  *)
(* number of signals.                                                        *)
EXTENDS SimCtrl, TLAPS

----------------------------------------------------------------------------
(* The steps of Next, one by one.                                            *)

Reading == OptionTrace \/ OptionHelp \/ OptionBad \/ Extensions
             \/ \E n \in Timeouts : OptionTimeout(n)
Tracing == TraceMessage \/ TraceTest \/ TraceDump
Signal  == Interrupt \/ TraceSignal

LEMMA Steps ==
    ASSUME [Next]_vars
    PROVE  \/ Reading \/ Tracing \/ Signal \/ SetReset \/ Eval \/ RequestStop
           \/ Advance \/ Stopped \/ Timeout \/ Final \/ UNCHANGED vars
  BY DEF Next, Main, Reading, Tracing, Signal

----------------------------------------------------------------------------
(***************************************************************************)
(* The trace file.  Only a main thread that has seen tracing enabled dumps, *)
(* and tracing that was enabled once is never forgotten.                     *)
(***************************************************************************)
TraceInv ==
    /\ enabled \in BOOLEAN /\ ever \in BOOLEAN
    /\ enabled => ever
    /\ ever => Possible
    /\ pc = "dump" => ever
    /\ tracer = "open" => ever
    /\ pc = "args" => tracer # "open"
    /\ pc = "exited" => tracer # "open"

LEMMA TraceStep ==
    ASSUME TraceInv, [Next]_vars
    PROVE  TraceInv'
  <1> USE SimAssumption DEF TraceInv, options, bench, result, trace, device, history
  <1>1. CASE Reading
    BY <1>1 DEF Reading, OptionTrace, OptionHelp, OptionBad, Extensions, OptionTimeout,
                Option, Exit, TraceOn
  <1>2. CASE Tracing
    BY <1>2 DEF Tracing, TraceMessage, TraceTest, TraceDump, AfterTrace
  <1>3. CASE Signal
    <2>1. CASE Interrupt
      BY <2>1 DEF Interrupt, Running
    <2>2. CASE TraceSignal /\ enabled
      BY <2>2 DEF TraceSignal, TraceOff, Running
    <2>3. CASE TraceSignal /\ ~enabled
      BY <2>3 DEF TraceSignal, TraceOn, Running
    <2>4. QED
      BY <1>3, <2>1, <2>2, <2>3 DEF Signal
  <1>4. CASE SetReset \/ Eval \/ RequestStop
    <2>1. UNCHANGED <<enabled, ever, tracer>>
      BY <1>4 DEF SetReset, Eval, RequestStop
    <2>2. pc' \in {"clock", "request", "load", "store", "time"}
      BY <1>4 DEF SetReset, Eval, RequestStop
    <2>3. QED
      BY <2>1, <2>2
  <1>5. CASE Advance \/ Stopped \/ Timeout
    BY <1>5 DEF Advance, Stopped, Timeout
  <1>6. CASE Final
    BY <1>6 DEF Final, Exit
  <1>7. CASE UNCHANGED vars
    BY <1>7 DEF vars
  <1>8. QED
    BY <1>1, <1>2, <1>3, <1>4, <1>5, <1>6, <1>7, Steps

(* The trace file is closed before the process ends, whatever signals came *)
(* and wherever they came (Trace, SignalHandler and the end of Run).        *)
THEOREM TraceIsClosed == Spec => []TraceClosed
  <1>1. Init => TraceInv
    BY SimAssumption DEF Init, TraceInv
  <1>2. TraceInv /\ [Next]_vars => TraceInv'
    BY TraceStep
  <1>3. TraceInv => TraceClosed
    BY DEF TraceInv, TraceClosed
  <1>4. QED
    BY <1>1, <1>2, <1>3, PTL DEF Spec
----------------------------------------------------------------------------
(***************************************************************************)
(* Clock and reset.  Everything is a function of time: how often the clock *)
(* has been toggled (Ticks), and how many half cycles have set or unset    *)
(* the reset (Sets).                                                       *)
(***************************************************************************)
Toggled == {"request", "load", "store", "time"}
Ticks == IF pc \in Toggled THEN time + 1 ELSE time
Sets  == IF pc \in Toggled \cup {"clock"} THEN time + 1 ELSE time
InWindow(c) == Delay <= c /\ c < Delay + Duration

BenchInv ==
    /\ time \in Nat /\ clk \in BOOLEAN /\ rst \in BOOLEAN
    /\ clk <=> Ticks % 2 = 1
    /\ edges = (Ticks + 1) \div 2
    /\ rst <=> Sets # 0 /\ InWindow((Sets - 1) \div 2)
    /\ inReset = (Delay..(Delay + Duration - 1)) \cap (0..edges - 1)
    /\ pc = "args" => time = 0

bench_vars == <<time, clk, rst, edges, inReset>>

LEMMA Halves ==
    ASSUME NEW t \in Nat
    PROVE  /\ t % 2 = 0 => /\ (t + 1) % 2 = 1 /\ (t + 1) \div 2 = t \div 2
                           /\ (t + 2) \div 2 = t \div 2 + 1
                           /\ t # 0 => (t - 1) \div 2 = t \div 2 - 1
           /\ t % 2 # 0 => /\ (t + 1) % 2 = 0 /\ (t + 1) \div 2 = t \div 2 + 1
                           /\ (t + 2) \div 2 = t \div 2 + 1
                           /\ (t - 1) \div 2 = t \div 2
           /\ t \div 2 \in Nat /\ t % 2 \in {0, 1}
           /\ t = 2 * (t \div 2) + (t % 2)
  OBVIOUS

(* A step that leaves the bench alone and does not pass a toggle or a set. *)
LEMMA BenchFrame ==
    ASSUME BenchInv, UNCHANGED bench_vars, UNCHANGED <<Ticks, Sets>>, pc' # "args"
    PROVE  BenchInv'
  BY DEF BenchInv, bench_vars

LEMMA BenchStep ==
    ASSUME Duration # 0, BenchInv, [Next]_vars
    PROVE  BenchInv'
  <1>1. CASE UNCHANGED vars
    BY <1>1 DEF vars, bench, history, BenchInv, Ticks, Sets
  <1>2. CASE Reading
    <2>1. UNCHANGED bench_vars /\ pc = "args" /\ pc' \in {"args", "trace", "exited"}
      BY <1>2 DEF Reading, OptionTrace, OptionHelp, OptionBad, Extensions, OptionTimeout,
                  Option, Exit, bench, history, bench_vars
    <2>2. QED
      BY <2>1 DEF BenchInv, bench_vars, Ticks, Sets, Toggled
  <1>3. CASE Tracing \/ Signal \/ Stopped \/ Timeout \/ Final
    <2>1. UNCHANGED bench_vars
      BY <1>3 DEF Tracing, TraceMessage, TraceTest, TraceDump, Signal, Interrupt, TraceSignal,
                  Stopped, Timeout, Final, bench, history, bench_vars
    <2>2. /\ pc = pc' \/ {pc, pc'} \subseteq {"trace", "tracing", "dump", "reset", "stopped",
                                             "timeout", "final", "exited"}
          /\ pc' # "args" \/ pc = "args"
      BY <1>3 DEF Tracing, TraceMessage, TraceTest, TraceDump, Signal, Interrupt, TraceSignal,
                  Stopped, Timeout, Final, AfterTrace, Exit
    <2>3. QED
      BY <2>1, <2>2 DEF BenchInv, bench_vars, Ticks, Sets, Toggled
  <1>4. CASE RequestStop
    <2>1. UNCHANGED bench_vars /\ {pc, pc'} \subseteq Toggled
      BY <1>4 DEF RequestStop, bench, history, bench_vars, Toggled
    <2>2. QED
      BY <2>1 DEF BenchInv, bench_vars, Ticks, Sets, Toggled
  <1>5. CASE Advance
    BY <1>5 DEF Advance, history, BenchInv, Ticks, Sets, Toggled
  <1>6. CASE SetReset
    <2>1. /\ UNCHANGED <<time, clk, edges, inReset>>
          /\ pc = "reset" /\ pc' = "clock"
          /\ rst' = IF Cycle = Delay THEN TRUE ELSE IF Cycle = Delay + Duration THEN FALSE ELSE rst
      BY <1>6 DEF SetReset, history
    <2>2. /\ Ticks = time /\ Sets = time /\ Ticks' = time /\ Sets' = time + 1
          /\ time \in Nat
      BY <2>1 DEF BenchInv, Ticks, Sets, Toggled
    <2>3. rst' <=> InWindow(time \div 2)
      <3>1. rst <=> time # 0 /\ InWindow((time - 1) \div 2)
        BY <2>2 DEF BenchInv
      <3>2. CASE time = 0
        BY <2>1, <3>1, <3>2, SimAssumption DEF Cycle, InWindow
      <3>3. CASE time # 0
        <4>1. /\ time \div 2 \in Nat
              /\ (time - 1) \div 2 = time \div 2 \/ (time - 1) \div 2 = time \div 2 - 1
          BY <2>2, <3>3, Halves
        <4>2. rst <=> InWindow((time - 1) \div 2)
          BY <3>1, <3>3
        <4>3. QED
          BY <2>1, <4>1, <4>2, SimAssumption DEF Cycle, InWindow
      <3>4. QED
        BY <3>2, <3>3
    <2>4. rst' <=> Sets' # 0 /\ InWindow((Sets' - 1) \div 2)
      <3>1. Sets' - 1 = time /\ Sets' # 0
        BY <2>2
      <3>2. QED
        BY <2>3, <3>1
    <2>5. QED
      BY <2>1, <2>2, <2>4 DEF BenchInv
  <1>7. CASE Eval
    <2>1. /\ UNCHANGED <<time, rst>> /\ clk' \in BOOLEAN /\ (clk' <=> ~clk)
          /\ pc = "clock" /\ pc' \in {"request", "time"}
          /\ edges' = IF clk THEN edges ELSE edges + 1
          /\ inReset' = IF ~clk /\ rst THEN inReset \cup {edges} ELSE inReset
      BY <1>7 DEF Eval
    <2>0. /\ Ticks = time /\ Sets = time + 1 /\ Ticks' = time + 1 /\ Sets' = time + 1
          /\ time \in Nat
      BY <2>1 DEF BenchInv, Ticks, Sets, Toggled
    <2>2. /\ edges = (time + 1) \div 2 /\ (clk <=> time % 2 = 1)
          /\ rst <=> InWindow(time \div 2)
      <3>1. Sets - 1 = time /\ Sets # 0
        BY <2>0
      <3>2. QED
        BY <2>0, <3>1 DEF BenchInv
    <2>3. edges' = (time + 2) \div 2 /\ (clk' <=> (time + 1) % 2 = 1) /\ edges \in Nat
      <3>1. CASE time % 2 = 0
        BY <2>0, <2>1, <2>2, <3>1, Halves
      <3>2. CASE time % 2 # 0
        BY <2>0, <2>1, <2>2, <3>2, Halves
      <3>3. QED
        BY <3>1, <3>2
    <2>4. inReset' = (Delay..(Delay + Duration - 1)) \cap (0..edges' - 1)
      <3>1. CASE clk
        BY <2>1, <3>1 DEF BenchInv
      <3>2. CASE ~clk
        <4>1. edges = time \div 2 /\ edges' = edges + 1
          BY <2>1, <2>2, <2>3, <3>2, Halves DEF BenchInv
        <4>2. inReset' = IF InWindow(edges) THEN inReset \cup {edges} ELSE inReset
          BY <2>1, <2>2, <3>2, <4>1
        <4>3. QED
          BY <2>3, <4>1, <4>2, SimAssumption DEF BenchInv, InWindow
      <3>3. QED
        BY <3>1, <3>2 DEF BenchInv
    <2>5. rst' <=> Sets' # 0 /\ InWindow((Sets' - 1) \div 2)
      <3>1. Sets' - 1 = time /\ Sets' # 0
        BY <2>0
      <3>2. QED
        BY <2>1, <2>2, <3>1
    <2>6. edges' = (Ticks' + 1) \div 2
      <3>1. Ticks' + 1 = time + 2
        BY <2>0
      <3>2. QED
        BY <2>3, <3>1
    <2>7. QED
      BY <2>0, <2>1, <2>3, <2>4, <2>5, <2>6 DEF BenchInv
  <1>8. QED
    BY <1>1, <1>2, <1>3, <1>4, <1>5, <1>6, <1>7, Steps

----------------------------------------------------------------------------
(* The timeout.  Up to the test at the end of a half cycle, the one before *)
(* it has found that there are cycles left.                                 *)

Left == {"reset", "clock"} \cup Toggled

TimeoutInv ==
    /\ term \in Nat
    /\ term # 0 /\ pc \in Left => time \div 2 < term
    /\ term # 0 /\ pc \in {"trace", "tracing", "dump", "stopped", "timeout"} =>
         time = 0 \/ (time - 1) \div 2 < term
    /\ "timeout" \in why => pc \in {"final", "exited"} /\ edges = term

LEMMA TimeoutStep ==
    ASSUME BenchInv, TimeoutInv, [Next]_vars
    PROVE  TimeoutInv'
  <1>1. CASE UNCHANGED vars
    BY <1>1 DEF vars, options, bench, history, TimeoutInv, Left, Toggled
  <1>2. CASE Reading
    <2>1. UNCHANGED <<time, edges, why>> /\ pc = "args" /\ pc' \in {"args", "trace", "exited"}
      BY <1>2 DEF Reading, OptionTrace, OptionHelp, OptionBad, Extensions, OptionTimeout,
                  Option, Exit, bench, history
    <2>2. term' \in Nat
      BY <1>2, SimAssumption DEF Reading, OptionTrace, OptionHelp, OptionBad, Extensions,
                  OptionTimeout, TimeoutInv
    <2>3. QED
      BY <2>1, <2>2 DEF BenchInv, TimeoutInv, Left, Toggled
  <1>3. CASE Tracing
    <2>1. /\ UNCHANGED <<time, edges, why, term>>
          /\ pc \in {"trace", "tracing", "dump"} /\ pc' \in {"tracing", "dump", AfterTrace}
      BY <1>3 DEF Tracing, TraceMessage, TraceTest, TraceDump, bench, history, options
    <2>2. QED
      <3>1. CASE pc' = "reset"
        <4>1. time = 0 /\ term \in Nat
          BY <2>1, <3>1 DEF AfterTrace, TimeoutInv
        <4>2. time \div 2 = 0
          BY <4>1
        <4>3. QED
          BY <2>1, <3>1, <4>1, <4>2 DEF TimeoutInv, Left, Toggled
      <3>2. CASE pc' # "reset"
        BY <2>1, <3>2 DEF AfterTrace, TimeoutInv, Left, Toggled
      <3>3. QED
        BY <3>1, <3>2
  <1>4. CASE Signal
    <2>1. UNCHANGED <<pc, time, edges, term>> /\ why' \in {why, why \cup {"interrupt"}}
      BY <1>4 DEF Signal, Interrupt, TraceSignal, bench, history, options
    <2>2. QED
      BY <2>1 DEF TimeoutInv, Left, Toggled
  <1>5. CASE SetReset \/ Eval \/ RequestStop
    <2>1. /\ UNCHANGED <<time, term>> /\ pc \in Left /\ pc' \in Left
          /\ "timeout" \in why' => "timeout" \in why
      BY <1>5 DEF SetReset, Eval, RequestStop, bench, history, options, Left, Toggled
    <2>2. QED
      BY <2>1 DEF TimeoutInv, Left, Toggled
  <1>6. CASE Advance
    <2>1. UNCHANGED <<why, term>> /\ time' = time + 1 /\ pc = "time" /\ pc' = "trace"
      BY <1>6 DEF Advance, history, options
    <2>2. QED
      BY <2>1 DEF BenchInv, TimeoutInv, Left, Toggled
  <1>7. CASE Stopped
    <2>1. /\ UNCHANGED <<time, edges, term>> /\ pc = "stopped" /\ pc' \in {"final", "timeout"}
          /\ why' \in {why, why \cup {"finish"}}
      BY <1>7 DEF Stopped, bench, options
    <2>2. QED
      BY <2>1 DEF TimeoutInv, Left, Toggled
  <1>8. CASE Timeout
    <2>1. /\ UNCHANGED <<time, edges, term>> /\ pc = "timeout"
          /\ IF term # 0 /\ Cycle >= term
             THEN pc' = "final" /\ why' = why \cup {"timeout"}
             ELSE pc' = "reset" /\ why' = why
      BY <1>8 DEF Timeout, bench, options
    <2>2. edges = (time + 1) \div 2
      BY <2>1 DEF BenchInv, Ticks, Toggled
    <2>3. ASSUME term # 0, Cycle >= term
          PROVE  edges = term
      <3>1. time # 0 /\ (time - 1) \div 2 < term /\ time \div 2 >= term
        BY <2>1, <2>3 DEF Cycle, TimeoutInv, BenchInv
      <3>2. QED
        BY <2>2, <3>1, Halves DEF BenchInv, TimeoutInv
    <2>4. QED
      BY <2>1, <2>3 DEF Cycle, BenchInv, TimeoutInv, Left, Toggled
  <1>9. CASE Final
    <2>1. UNCHANGED <<time, edges, why, term>> /\ pc = "final" /\ pc' = "exited"
      BY <1>9 DEF Final, Exit, bench, history
    <2>2. QED
      BY <2>1 DEF TimeoutInv, Left, Toggled
  <1>10. QED
    BY <1>1, <1>2, <1>3, <1>4, <1>5, <1>6, <1>7, <1>8, <1>9, Steps

LEMMA BenchInit == Init => BenchInv /\ TimeoutInv
  <1> SUFFICES ASSUME Init PROVE BenchInv /\ TimeoutInv
    OBVIOUS
  <1>1. /\ time = 0 /\ pc = "args" /\ clk = FALSE /\ rst = FALSE /\ edges = 0 /\ inReset = {}
        /\ term = 0 /\ why = {}
    BY DEF Init
  <1>2. Ticks = 0 /\ Sets = 0
    BY <1>1 DEF Ticks, Sets, Toggled
  <1>3. (0 + 1) \div 2 = 0 /\ 0 % 2 # 1
    OBVIOUS
  <1>4. BenchInv
    <2>1. inReset = (Delay..(Delay + Duration - 1)) \cap (0..edges - 1)
      BY <1>1, SimAssumption
    <2>2. edges = (Ticks + 1) \div 2 /\ (clk <=> Ticks % 2 = 1)
      BY <1>1, <1>2, <1>3
    <2>3. QED
      BY <1>1, <1>2, <2>1, <2>2 DEF BenchInv
  <1>5. QED
    BY <1>1, <1>4 DEF TimeoutInv, Left, Toggled

(* A run that times out has seen exactly term_after_cycles_ clock cycles,  *)
(* and the design is in reset at exactly the rising edges that the two     *)
(* counts of Run name, for every reset that lasts at least a cycle.        *)
THEOREM CyclesAreExact ==
    ASSUME Duration # 0
    PROVE  Spec => []CyclesExact
  <1>1. BenchInv /\ TimeoutInv /\ [Next]_vars => (BenchInv /\ TimeoutInv)'
    BY BenchStep, TimeoutStep
  <1>2. BenchInv /\ TimeoutInv => CyclesExact
    BY DEF BenchInv, TimeoutInv, CyclesExact
  <1>3. QED
    BY <1>1, <1>2, BenchInit, PTL DEF Spec

----------------------------------------------------------------------------
(***************************************************************************)
(* The result.  A failure is known from the request on, but in success     *)
(* only after the store, and what happened is only in why; the count comes *)
(* back from the device unchanged, because the reset is over when the      *)
(* software runs.                                                          *)
(***************************************************************************)
Fits == \A c \in Failures : 2 * c + 1 < Values

Bad == {"failed", "timeout"}
Over == Sets # 0 /\ (Sets - 1) \div 2 >= Delay + Duration

DeviceInv ==
    /\ halted \in Halts /\ finish \in Nat /\ failCount \in Nat
    /\ halted.reported => failCount = halted.count /\ Over
    /\ ~halted.reported => finish = 0
    /\ pc \in {"request", "load", "store"} => halted.reported

SuccessInv ==
    /\ success \in BOOLEAN /\ loaded \in BOOLEAN
    /\ ~success => Bad \cap why # {}
    /\ pc = "store" /\ ~loaded => Bad \cap why # {}
    /\ "timeout" \in why => ~success
    /\ "failed" \in why /\ pc = "store" => ~loaded
    /\ "failed" \in why /\ pc \notin {"load", "store"} => ~success
    /\ pc = "exited" => edges = 0 \/ code = IF success THEN 0 ELSE 1

WhyInv ==
    /\ stop \in BOOLEAN /\ finished \in BOOLEAN
    /\ why \subseteq {"passed", "failed", "timeout", "interrupt", "finish"}
    /\ "failed" \in why => halted.reported /\ halted.count # 0
    /\ "passed" \in why => halted.reported /\ halted.count = 0
    /\ pc \in {"load", "store"} /\ halted.count # 0 => "failed" \in why
    /\ stop /\ pc \notin {"final", "exited"} => why # {}
    /\ pc = "final" => why # {}
    /\ pc = "exited" => edges = 0 \/ why # {}

device_vars == <<halted, finish, failCount>>
result_vars == <<success, loaded, code, stop, finished, why>>

LEMMA HaltsTyped ==
    ASSUME NEW h \in Halts
    PROVE  /\ h.reported \in BOOLEAN
           /\ h.reported => h.count \in Failures /\ h.count \in Nat
  <1>1. None.reported = FALSE
    BY DEF None
  <1>2. CASE h = None
    BY <1>1, <1>2
  <1>3. CASE h \in [reported : {TRUE}, count : Failures]
    <2>1. h.reported = TRUE /\ h.count \in Failures
      BY <1>3
    <2>2. Failures \subseteq Nat
      BY SimAssumption
    <2>3. QED
      BY <2>1, <2>2
  <1>4. QED
    BY <1>2, <1>3 DEF Halts

LEMMA CountReturns ==
    ASSUME Fits, NEW c \in Failures
    PROVE  ((2 * c + 1) % Values) \div 2 = c
  <1>1. c \in Nat /\ Values \in Nat /\ 2 * c + 1 < Values
    BY SimAssumption DEF Fits
  <1>2. (2 * c + 1) % Values = 2 * c + 1
    BY <1>1
  <1>3. QED
    BY <1>1, <1>2

(* A step of the main thread that the device does not take part in. *)
LEMMA DeviceFrame ==
    ASSUME BenchInv, DeviceInv, UNCHANGED device_vars, Sets' = Sets \/ Sets' = Sets + 1,
           pc' \in {"request", "load", "store"} => pc \in {"request", "load", "store"}
    PROVE  DeviceInv'
  <1>1. Over => Over'
    BY SimAssumption DEF Over, BenchInv, Sets
  <1>2. QED
    BY <1>1 DEF DeviceInv, device_vars, Halts

LEMMA DeviceStep ==
    ASSUME Duration # 0, Fits, BenchInv, DeviceInv, [Next]_vars
    PROVE  DeviceInv'
  <1>1. CASE UNCHANGED vars
    BY <1>1, DeviceFrame DEF vars, device, bench, device_vars, Sets
  <1>2. CASE Reading
    <2>1. UNCHANGED <<device_vars, time>> /\ pc = "args" /\ pc' \in {"args", "trace", "exited"}
      BY <1>2 DEF Reading, OptionTrace, OptionHelp, OptionBad, Extensions, OptionTimeout,
                  Option, Exit, bench, device, device_vars
    <2>2. QED
      BY <2>1, DeviceFrame DEF Sets, Toggled
  <1>3. CASE Tracing \/ Signal \/ Stopped \/ Timeout \/ Final
    <2>1. UNCHANGED <<device_vars, time>>
      BY <1>3 DEF Tracing, TraceMessage, TraceTest, TraceDump, Signal, Interrupt, TraceSignal,
                  Stopped, Timeout, Final, bench, device, device_vars
    <2>2. pc = pc' \/ {pc, pc'} \subseteq {"trace", "tracing", "dump", "reset", "stopped",
                                          "timeout", "final", "exited"}
      BY <1>3 DEF Tracing, TraceMessage, TraceTest, TraceDump, Signal, Interrupt, TraceSignal,
                  Stopped, Timeout, Final, AfterTrace, Exit
    <2>3. QED
      BY <2>1, <2>2, DeviceFrame DEF Sets, Toggled
  <1>4. CASE RequestStop
    <2>1. UNCHANGED <<device_vars, time>> /\ pc \in {"request", "load", "store"} /\ pc' \in Toggled
      BY <1>4 DEF RequestStop, bench, device, device_vars, Toggled
    <2>2. QED
      BY <2>1, DeviceFrame DEF Sets, Toggled
  <1>5. CASE Advance \/ SetReset
    <2>1. /\ UNCHANGED device_vars
          /\ \/ pc = "time" /\ pc' = "trace" /\ time' = time + 1
             \/ pc = "reset" /\ pc' = "clock" /\ time' = time
      BY <1>5 DEF Advance, SetReset, device, device_vars
    <2>2. QED
      BY <2>1, DeviceFrame DEF Sets, Toggled
  <1>6. CASE Eval
    <2> PICK write \in Halts :
            /\ write.reported => ~clk /\ ~rst /\ inReset # {} /\ ~halted.reported
            /\ IF clk THEN UNCHANGED <<finish, failCount, halted>> ELSE Device(write)
      BY <1>6 DEF Eval
    <2>1. /\ pc = "clock" /\ UNCHANGED time
          /\ pc' = IF ~clk /\ finish >= 2 THEN "request" ELSE "time"
      BY <1>6 DEF Eval
    <2>2. /\ Sets = time + 1 /\ Sets' = Sets /\ Ticks = time /\ time \in Nat
      BY <2>1 DEF BenchInv, Sets, Ticks, Toggled
    <2>3. Over => ~rst
      BY <2>2, SimAssumption DEF Over, BenchInv, InWindow
    <2>4. CASE clk
      BY <2>1, <2>2, <2>4 DEF DeviceInv, Over
    <2>5. CASE ~clk /\ ~write.reported
      <3>1. /\ halted' = halted
            /\ finish' = IF finish # 0 THEN (finish + 1) % 8 ELSE 0
            /\ failCount' = IF rst THEN 0 ELSE failCount
        BY <2>5 DEF Device
      <3>2. finish' \in Nat /\ (finish = 0 => finish' = 0) /\ failCount' \in Nat
        BY <3>1 DEF DeviceInv
      <3>3. halted.reported => failCount' = halted.count /\ Over
        BY <2>3, <3>1 DEF DeviceInv
      <3>4. QED
        BY <2>1, <2>2, <2>5, <3>1, <3>2, <3>3 DEF DeviceInv, Over
    <2>6. CASE ~clk /\ write.reported
      <3>1. finish = 0 /\ ~rst /\ inReset # {}
        BY <2>6 DEF DeviceInv
      <3>2. halted' = write /\ finish' = 1 /\ failCount' = write.count
        BY <2>6, <3>1, CountReturns, HaltsTyped DEF Device
      <3>3. Over
        <4>1. edges = time \div 2 /\ edges \in Nat
          BY <2>2, <2>6, Halves DEF BenchInv
        <4>2. edges > Delay
          BY <3>1, <4>1, SimAssumption DEF BenchInv
        <4>3. ~InWindow(edges)
          <5>1. Sets - 1 = time /\ Sets # 0
            BY <2>2
          <5>2. QED
            BY <3>1, <4>1, <5>1 DEF BenchInv
        <4>4. edges >= Delay + Duration
          BY <4>1, <4>2, <4>3, SimAssumption DEF InWindow
        <4>5. QED
          BY <2>2, <4>1, <4>4 DEF Over
      <3>4. pc' = "time"
        BY <2>1, <3>1
      <3>5. QED
        BY <2>2, <2>6, <3>2, <3>3, <3>4, HaltsTyped DEF DeviceInv, Over
    <2>7. QED
      BY <2>4, <2>5, <2>6 DEF BenchInv
  <1>7. QED
    BY <1>1, <1>2, <1>3, <1>4, <1>5, <1>6, Steps

LEMMA SuccessStep ==
    ASSUME BenchInv, TimeoutInv, DeviceInv, SuccessInv, WhyInv, [Next]_vars
    PROVE  SuccessInv'
  <1>1. CASE UNCHANGED vars
    BY <1>1 DEF vars, options, result, history, SuccessInv, Bad
  <1>2. CASE Reading
    <2>1. UNCHANGED <<success, loaded, why, edges>> /\ pc = "args" /\ pc' \in {"args", "trace", "exited"}
      BY <1>2 DEF Reading, OptionTrace, OptionHelp, OptionBad, Extensions, OptionTimeout,
                  Option, Exit, result, history
    <2>2. edges = 0
      <3>1. time = 0 /\ Ticks = 0
        BY <2>1 DEF BenchInv, Ticks, Toggled
      <3>2. (0 + 1) \div 2 = 0
        OBVIOUS
      <3>3. QED
        BY <3>1, <3>2 DEF BenchInv
    <2>3. QED
      BY <2>1, <2>2 DEF SuccessInv, Bad
  <1>3. CASE Tracing \/ SetReset \/ Eval \/ Advance
    <2>1. UNCHANGED <<success, loaded, why>>
      BY <1>3 DEF Tracing, TraceMessage, TraceTest, TraceDump, SetReset, Eval, Advance, result, history
    <2>2. {pc, pc'} \cap {"load", "store", "exited"} = {}
      BY <1>3 DEF Tracing, TraceMessage, TraceTest, TraceDump, SetReset, Eval, Advance, AfterTrace
    <2>3. QED
      BY <2>1, <2>2 DEF SuccessInv, Bad
  <1>4. CASE Signal
    <2>1. /\ UNCHANGED <<pc, loaded, edges, code>> /\ success' = success
          /\ why' \in {why, why \cup {"interrupt"}}
      BY <1>4 DEF Signal, Interrupt, TraceSignal, result, history, options, SuccessInv
    <2>2. QED
      BY <2>1 DEF SuccessInv, Bad
  <1>5. CASE RequestStop
    <2>1. CASE pc = "request"
      <3>1. /\ UNCHANGED <<success, loaded>> /\ pc' = "load"
            /\ why' = why \cup {IF halted.count = 0 THEN "passed" ELSE "failed"}
        BY <1>5, <2>1 DEF RequestStop
      <3>2. QED
        BY <2>1, <3>1 DEF SuccessInv, Bad
    <2>2. CASE pc = "load"
      <3>1. /\ UNCHANGED <<success, why>> /\ pc' = "store"
            /\ loaded' = (success /\ failCount = 0)
        BY <1>5, <2>2 DEF RequestStop, history
      <3>2. /\ loaded' \in BOOLEAN
            /\ loaded' <=> success /\ halted.count = 0
        BY <2>2, <3>1 DEF DeviceInv
      <3>3. QED
        BY <2>2, <3>1, <3>2 DEF SuccessInv, WhyInv, Bad
    <2>3. CASE pc = "store"
      <3>1. UNCHANGED <<loaded, why>> /\ pc' = "time" /\ success' = loaded
        BY <1>5, <2>3 DEF RequestStop, history
      <3>2. "timeout" \notin why
        BY <2>3 DEF TimeoutInv
      <3>3. QED
        BY <2>3, <3>1, <3>2 DEF SuccessInv, Bad
    <2>4. QED
      BY <1>5, <2>1, <2>2, <2>3 DEF RequestStop
  <1>6. CASE Stopped
    <2>1. /\ UNCHANGED <<success, loaded>> /\ pc = "stopped" /\ pc' \in {"final", "timeout"}
          /\ why' = why \/ why' = why \cup {"finish"}
      BY <1>6 DEF Stopped, result
    <2>2. QED
      BY <2>1 DEF SuccessInv, Bad
  <1>7. CASE Timeout
    <2>1. /\ loaded' = loaded /\ pc = "timeout" /\ pc' \in {"final", "reset"}
          /\ \/ success' = FALSE /\ why' = why \cup {"timeout"}
             \/ success' = success /\ why' = why
      BY <1>7 DEF Timeout
    <2>2. CASE success' = FALSE /\ why' = why \cup {"timeout"}
      <3>1. success' \in BOOLEAN /\ ~success' /\ "timeout" \in why'
        BY <2>2
      <3>2. QED
        BY <2>1, <3>1 DEF SuccessInv, Bad
    <2>3. CASE success' = success /\ why' = why
      BY <2>1, <2>3 DEF SuccessInv, Bad
    <2>4. QED
      BY <2>1, <2>2, <2>3
  <1>8. CASE Final
    <2>1. /\ UNCHANGED <<success, loaded, why>> /\ pc = "final" /\ pc' = "exited"
          /\ code' = IF success THEN 0 ELSE 1
      BY <1>8 DEF Final, Exit, result, history
    <2>2. QED
      BY <2>1 DEF SuccessInv, Bad
  <1>9. QED
    BY <1>1, <1>2, <1>3, <1>4, <1>5, <1>6, <1>7, <1>8, Steps

LEMMA WhyStep ==
    ASSUME BenchInv, DeviceInv, WhyInv, [Next]_vars
    PROVE  WhyInv'
  <1>1. CASE UNCHANGED vars
    BY <1>1 DEF vars, result, device, history, WhyInv
  <1>2. CASE Reading
    <2>1. /\ UNCHANGED <<stop, finished, why, halted, edges>>
          /\ pc = "args" /\ pc' \in {"args", "trace", "exited"}
      BY <1>2 DEF Reading, OptionTrace, OptionHelp, OptionBad, Extensions, OptionTimeout,
                  Option, Exit, result, device, history
    <2>2. edges = 0
      <3>1. time = 0 /\ Ticks = 0
        BY <2>1 DEF BenchInv, Ticks, Toggled
      <3>2. (0 + 1) \div 2 = 0
        OBVIOUS
      <3>3. QED
        BY <3>1, <3>2 DEF BenchInv
    <2>3. QED
      BY <2>1, <2>2 DEF WhyInv
  <1>3. CASE Tracing \/ SetReset \/ Advance
    <2>1. UNCHANGED <<stop, finished, why, halted>>
      BY <1>3 DEF Tracing, TraceMessage, TraceTest, TraceDump, SetReset, Advance, result, device, history
    <2>2. {pc, pc'} \cap {"load", "store", "final", "exited"} = {}
      BY <1>3 DEF Tracing, TraceMessage, TraceTest, TraceDump, SetReset, Advance, AfterTrace
    <2>3. QED
      BY <2>1, <2>2 DEF WhyInv
  <1>4. CASE Eval
    <2>1. /\ UNCHANGED <<stop, why>> /\ finished' \in {finished, TRUE}
          /\ pc = "clock" /\ pc' \in {"request", "time"}
      BY <1>4 DEF Eval, result
    <2>2. halted.reported => halted' = halted
      BY <1>4 DEF Eval, Device
    <2>3. QED
      BY <2>1, <2>2 DEF WhyInv
  <1>5. CASE Signal
    <2>1. /\ UNCHANGED <<pc, finished, halted, edges>> /\ stop' \in {stop, TRUE}
          /\ \/ why' = why \cup {"interrupt"}
             \/ why' = why /\ (stop' = stop \/ pc = "final")
      BY <1>5 DEF Signal, Interrupt, TraceSignal, result, device, history
    <2>2. QED
      BY <2>1 DEF WhyInv
  <1>6. CASE RequestStop
    <2>1. UNCHANGED <<halted, finished>>
      BY <1>6 DEF RequestStop, device
    <2>2. CASE pc = "request"
      <3>1. /\ pc' = "load" /\ stop' = TRUE
            /\ why' = why \cup {IF halted.count = 0 THEN "passed" ELSE "failed"}
        BY <1>6, <2>2 DEF RequestStop
      <3>2. halted.reported
        BY <2>2 DEF DeviceInv
      <3>3. QED
        BY <2>1, <2>2, <3>1, <3>2 DEF WhyInv
    <2>3. CASE pc \in {"load", "store"}
      <3>1. UNCHANGED <<stop, why>> /\ pc' \in {"store", "time"}
        BY <1>6, <2>3 DEF RequestStop, history
      <3>2. QED
        BY <2>1, <2>3, <3>1 DEF WhyInv
    <2>4. QED
      BY <1>6, <2>2, <2>3 DEF RequestStop
  <1>7. CASE Stopped
    <2>1. /\ UNCHANGED <<stop, finished, halted>> /\ pc = "stopped"
          /\ pc' = IF stop \/ finished THEN "final" ELSE "timeout"
          /\ why' = IF ~stop /\ finished THEN why \cup {"finish"} ELSE why
      BY <1>7 DEF Stopped, result, device
    <2>2. QED
      BY <2>1 DEF WhyInv
  <1>8. CASE Timeout
    <2>1. /\ UNCHANGED <<stop, finished, halted>> /\ pc = "timeout"
          /\ \/ pc' = "final" /\ why' = why \cup {"timeout"}
             \/ pc' = "reset" /\ why' = why
      BY <1>8 DEF Timeout, device
    <2>2. QED
      BY <2>1 DEF WhyInv
  <1>9. CASE Final
    <2>1. UNCHANGED <<stop, finished, halted, why>> /\ pc = "final" /\ pc' = "exited"
      BY <1>9 DEF Final, Exit, result, device, history
    <2>2. QED
      BY <2>1 DEF WhyInv
  <1>10. QED
    BY <1>1, <1>2, <1>3, <1>4, <1>5, <1>6, <1>7, <1>8, <1>9, Steps

LEMMA ResultInit == Init => DeviceInv /\ SuccessInv /\ WhyInv
  <1>1. None \in Halts /\ ~None.reported
    BY DEF Halts, None
  <1> SUFFICES ASSUME Init PROVE DeviceInv /\ SuccessInv /\ WhyInv
    OBVIOUS
  <1>2. DeviceInv
    BY <1>1 DEF Init, DeviceInv
  <1>3. SuccessInv
    BY DEF Init, SuccessInv, Bad
  <1>4. WhyInv
    BY DEF Init, WhyInv
  <1>5. QED
    BY <1>2, <1>3, <1>4

LEMMA ResultTold ==
    ASSUME SuccessInv, WhyInv, DeviceInv
    PROVE  ExitCodeTrue
  <1> SUFFICES ASSUME pc = "exited", edges > 0
               PROVE  /\ {"failed", "timeout"} \cap why # {} => code = 1
                      /\ code = 1 => {"failed", "timeout"} \cap why # {}
                      /\ code = 1 /\ halted.reported /\ halted.count = 0 => "timeout" \in why
                      /\ code = 0 /\ halted.reported /\ halted.count > 0 =>
                            {"interrupt", "finish"} \cap why # {}
    BY DEF ExitCodeTrue
  <1>1. (code = IF success THEN 0 ELSE 1) /\ why # {} /\ success \in BOOLEAN
    BY DEF SuccessInv, WhyInv
  <1>2. success <=> "failed" \notin why /\ "timeout" \notin why
    BY DEF SuccessInv, Bad
  <1>3. PICK w : w \in why
    BY <1>1
  <1>4. w \in {"passed", "failed", "timeout", "interrupt", "finish"}
    BY <1>3 DEF WhyInv
  <1>5. /\ {"failed", "timeout"} \cap why # {} <=> code = 1
        /\ code = 0 <=> success
    BY <1>1, <1>2
  <1>6. code = 1 /\ halted.reported /\ halted.count = 0 => "timeout" \in why
    BY <1>2, <1>5, <1>1 DEF WhyInv
  <1>7. code = 0 /\ halted.reported /\ halted.count > 0 => w \in {"interrupt", "finish"}
    BY <1>2, <1>3, <1>4, <1>5 DEF WhyInv
  <1>8. QED
    BY <1>3, <1>5, <1>6, <1>7

(* The exit code tells the truth, wherever SIGINT falls in RequestStop and *)
(* whatever ended the run: for every reset that lasts at least a cycle and *)
(* every count that fits the register sim_halt writes.                     *)
THEOREM ExitCodeIsTrue ==
    ASSUME Duration # 0, Fits
    PROVE  Spec => []ExitCodeTrue
  <1> DEFINE ResultInv == BenchInv /\ TimeoutInv /\ DeviceInv /\ SuccessInv /\ WhyInv
  <1>1. Init => ResultInv
    BY BenchInit, ResultInit
  <1>2. ResultInv /\ [Next]_vars => ResultInv'
    BY BenchStep, TimeoutStep, DeviceStep, SuccessStep, WhyStep
  <1>3. ResultInv => ExitCodeTrue
    BY ResultTold
  <1> HIDE DEF ResultInv
  <1>4. QED
    BY <1>1, <1>2, <1>3, PTL DEF Spec
=============================================================================

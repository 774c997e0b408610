---------------------------- MODULE TimerProofs ----------------------------
(* Proofs about Timer, for every width of the bus word and every period.     *)
EXTENDS Timer, TLAPS

----------------------------------------------------------------------------
(* The two words of a time.                                                  *)

LEMMA Words ==
    ASSUME NEW x \in Nat
    PROVE  /\ High(x) \in Nat /\ Low(x) \in Nat /\ Low(x) < Base
           /\ High(x) * Base + Low(x) = x
           /\ High(x) * Base + Base - 1 \in Nat
  <1>1. Base \in Nat \ {0}
    BY TimerAssumption
  <1>2. x \div Base \in Nat /\ x % Base \in Nat /\ x % Base < Base
    BY <1>1
  <1>3. (x \div Base) * Base + (x % Base) = x
    BY <1>1
  <1>4. \A q \in Nat : q * Base + Base - 1 \in Nat
    BY <1>1
  <1>5. QED
    BY <1>2, <1>3, <1>4 DEF High, Low

LEMMA HighMonotone ==
    ASSUME NEW x \in Nat, NEW y \in Nat, x <= y
    PROVE  High(x) <= High(y)
  <1>1. Base \in Nat \ {0}
    BY TimerAssumption
  <1>2. QED
    BY <1>1 DEF High

LEMMA HighOfWords ==
    ASSUME NEW q \in Nat, NEW r \in Nat, r < Base
    PROVE  q * Base + r \in Nat /\ High(q * Base + r) = q
  <1>1. Base \in Nat \ {0}
    BY TimerAssumption
  <1>2. q * Base + r \in Nat
    BY <1>1
  <1>3. (q * Base + r) \div Base = q
    BY <1>1, <1>2
  <1>4. QED
    BY <1>2, <1>3 DEF High

----------------------------------------------------------------------------
(* Types.                                                                    *)

Reads  == {"high", "low", "check"}
Writes == {"mask", "cmph", "cmpl"}
Frame  == [pc : {"idle", "known", "mie", "mstatus", "count"} \cup Reads \cup Writes,
           arms : BOOLEAN, from : Nat, high : Nat, low : Nat, add : Nat]

TypeInv ==
    /\ mtime \in Nat /\ mtimecmp \in Nat
    /\ interrupt \in BOOLEAN /\ mie \in BOOLEAN /\ mstatus \in BOOLEAN
    /\ frame \in [Threads -> Frame]
    /\ elapsed \in Nat /\ increment \in Nat /\ start \in Nat /\ due \in Nat

LEMMA Steps ==
    ASSUME [Next]_vars
    PROVE  \/ Wait \/ TimerRead \/ Return \/ Unmask \/ TimerDisable \/ Trap \/ CountUp
           \/ \E p \in Periods : TimerEnable(p)
           \/ \E t \in Threads : ReadHigh(t) \/ ReadLow(t) \/ ReadAgain(t)
           \/ \E t \in Threads : Mask(t) \/ WriteHigh(t) \/ WriteLow(t)
           \/ UNCHANGED vars
  BY DEF Next, Access

LEMMA NewTyped ==
    ASSUME TypeInv, NEW t \in Threads
    PROVE  /\ frame[t] \in Frame
           /\ Value(t) \in Nat /\ New(t) \in Nat /\ New(t) = Value(t) + frame[t].add
           /\ frame[t].from \in Nat /\ frame[t].add \in Nat
           /\ frame[t].high \in Nat /\ frame[t].low \in Nat
  <1>1. frame[t] \in Frame
    BY DEF TypeInv
  <1>2. frame[t].high \in Nat /\ frame[t].low \in Nat /\ frame[t].add \in Nat /\ frame[t].from \in Nat
    BY <1>1 DEF Frame
  <1>3. Base \in Nat
    BY TimerAssumption
  <1>4. QED
    BY <1>1, <1>2, <1>3 DEF Value, New

(* What a step does to the frames: one is replaced, the others stay. *)
LEMMA Stepped ==
    ASSUME TypeInv, NEW t \in Threads, NEW f \in Frame, Step(t, f)
    PROVE  /\ frame' \in [Threads -> Frame]
           /\ frame'[t] = f
           /\ \A u \in Threads : u # t => frame'[u] = frame[u]
  BY DEF TypeInv, Step

LEMMA IdleTyped ==
    /\ Idle \in Frame /\ Idle.pc = "idle" /\ Idle.arms = FALSE
    /\ [Idle EXCEPT !.pc = "high"] \in Frame
    /\ [Idle EXCEPT !.pc = "high"].pc = "high" /\ [Idle EXCEPT !.pc = "high"].arms = FALSE
    /\ "main" \in Threads /\ "handler" \in Threads
    /\ Threads = {"main", "handler"}
  BY DEF Idle, Frame, Reads, Writes, Threads

Armed(n) == [Idle EXCEPT !.pc = "high", !.arms = TRUE, !.add = n]

LEMMA ArmedTyped ==
    ASSUME NEW n \in Nat
    PROVE  /\ Armed(n) \in Frame
           /\ Armed(n).pc = "high" /\ Armed(n).arms = TRUE /\ Armed(n).add = n
  BY DEF Armed, Idle, Frame, Reads, Writes

LEMMA Pc ==
    ASSUME NEW f \in Frame, NEW x
    PROVE  LET g == [f EXCEPT !.pc = x]
           IN  /\ g.pc = x /\ g.high = f.high /\ g.low = f.low /\ g.from = f.from
               /\ g.arms = f.arms /\ g.add = f.add
  BY DEF Frame

LEMMA PcLow ==
    ASSUME NEW f \in Frame, NEW x, NEW y
    PROVE  LET g == [f EXCEPT !.pc = x, !.low = y]
           IN  /\ g.pc = x /\ g.high = f.high /\ g.low = y /\ g.from = f.from
               /\ g.arms = f.arms /\ g.add = f.add
  BY DEF Frame

LEMMA PcHigh ==
    ASSUME NEW f \in Frame, NEW x, NEW y, NEW z
    PROVE  LET g == [f EXCEPT !.pc = x, !.high = y, !.from = z]
           IN  /\ g.pc = x /\ g.high = y /\ g.low = f.low /\ g.from = z
               /\ g.arms = f.arms /\ g.add = f.add
  BY DEF Frame

(* The steps of a call, as what they do to the frame of their thread. *)
LEMMA ReadHighStep ==
    ASSUME TypeInv, NEW t \in Threads, ReadHigh(t)
    PROVE  /\ frame[t].pc = "high" /\ Runs(t)
           /\ frame' \in [Threads -> Frame]
           /\ frame'[t].pc = "low"
           /\ frame'[t].high = High(mtime) /\ frame'[t].low = frame[t].low /\ frame'[t].from = mtime
           /\ frame'[t].arms = frame[t].arms /\ frame'[t].add = frame[t].add
           /\ \A u \in Threads : u # t => frame'[u] = frame[u]
           /\ Clock("read", mtimecmp) /\ UNCHANGED <<mie, mstatus, elapsed, increment, start, due>>
  <1>1. [frame[t] EXCEPT !.pc = "low", !.high = High(mtime), !.from = mtime] \in Frame
    BY NewTyped, Words DEF Frame, Reads, TypeInv
  <1> DEFINE f == [frame[t] EXCEPT !.pc = "low", !.high = High(mtime), !.from = mtime]
  <1>2. Step(t, f) /\ f \in Frame
    BY <1>1 DEF ReadHigh
  <1>3. /\ frame' \in [Threads -> Frame] /\ frame'[t] = f
        /\ \A u \in Threads : u # t => frame'[u] = frame[u]
    BY <1>2, Stepped
  <1>4. frame[t] \in Frame
    BY NewTyped
  <1> HIDE DEF f
  <1>5. QED
    BY <1>3, <1>4, PcHigh DEF f, ReadHigh, At, cpu, counters, history

LEMMA ReadLowStep ==
    ASSUME TypeInv, NEW t \in Threads, ReadLow(t)
    PROVE  /\ frame[t].pc = "low" /\ Runs(t)
           /\ frame' \in [Threads -> Frame]
           /\ frame'[t].pc = "check"
           /\ frame'[t].high = frame[t].high /\ frame'[t].low = Low(mtime) /\ frame'[t].from = frame[t].from
           /\ frame'[t].arms = frame[t].arms /\ frame'[t].add = frame[t].add
           /\ \A u \in Threads : u # t => frame'[u] = frame[u]
           /\ Clock("read", mtimecmp) /\ UNCHANGED <<mie, mstatus, elapsed, increment, start, due>>
  <1>1. [frame[t] EXCEPT !.pc = "check", !.low = Low(mtime)] \in Frame
    BY NewTyped, Words DEF Frame, Reads, TypeInv
  <1> DEFINE f == [frame[t] EXCEPT !.pc = "check", !.low = Low(mtime)]
  <1>2. Step(t, f) /\ f \in Frame
    BY <1>1 DEF ReadLow
  <1>3. /\ frame' \in [Threads -> Frame] /\ frame'[t] = f
        /\ \A u \in Threads : u # t => frame'[u] = frame[u]
    BY <1>2, Stepped
  <1>4. frame[t] \in Frame
    BY NewTyped
  <1> HIDE DEF f
  <1>5. QED
    BY <1>3, <1>4, PcLow DEF f, ReadLow, At, cpu, counters, history

LEMMA ReadAgainStep ==
    ASSUME TypeInv, NEW t \in Threads, ReadAgain(t)
    PROVE  /\ frame[t].pc = "check" /\ Runs(t)
           /\ frame' \in [Threads -> Frame]
           /\ frame'[t].pc = (IF High(mtime) # frame[t].high THEN "high"
                              ELSE IF frame[t].arms THEN "mask" ELSE "known")
           /\ frame'[t].high = frame[t].high /\ frame'[t].low = frame[t].low /\ frame'[t].from = frame[t].from
           /\ frame'[t].arms = frame[t].arms /\ frame'[t].add = frame[t].add
           /\ \A u \in Threads : u # t => frame'[u] = frame[u]
           /\ Clock("read", mtimecmp) /\ UNCHANGED <<mie, mstatus, elapsed, increment, start, due>>
  <1>1. [frame[t] EXCEPT !.pc = IF High(mtime) # frame[t].high THEN "high"
                                ELSE IF frame[t].arms THEN "mask" ELSE "known"] \in Frame
    BY NewTyped DEF Frame, Reads, Writes
  <1> DEFINE f == [frame[t] EXCEPT !.pc = IF High(mtime) # frame[t].high THEN "high"
             ELSE IF frame[t].arms THEN "mask" ELSE "known"]
  <1>2. Step(t, f) /\ f \in Frame
    BY <1>1 DEF ReadAgain
  <1>3. /\ frame' \in [Threads -> Frame] /\ frame'[t] = f
        /\ \A u \in Threads : u # t => frame'[u] = frame[u]
    BY <1>2, Stepped
  <1>4. frame[t] \in Frame
    BY NewTyped
  <1> HIDE DEF f
  <1>5. QED
    BY <1>3, <1>4, Pc DEF f, ReadAgain, At, cpu, counters, history

LEMMA MaskStep ==
    ASSUME TypeInv, NEW t \in Threads, Mask(t)
    PROVE  /\ frame[t].pc = "mask" /\ Runs(t)
           /\ frame' \in [Threads -> Frame]
           /\ frame'[t].pc = "cmph"
           /\ frame'[t].high = frame[t].high /\ frame'[t].low = frame[t].low /\ frame'[t].from = frame[t].from
           /\ frame'[t].arms = frame[t].arms /\ frame'[t].add = frame[t].add
           /\ \A u \in Threads : u # t => frame'[u] = frame[u]
           /\ Clock("write", High(mtimecmp) * Base + Base - 1)
           /\ UNCHANGED <<mie, mstatus, elapsed, increment, start, due>>
  <1>1. [frame[t] EXCEPT !.pc = "cmph"] \in Frame
    BY NewTyped DEF Frame, Writes
  <1> DEFINE f == [frame[t] EXCEPT !.pc = "cmph"]
  <1>2. Step(t, f) /\ f \in Frame
    BY <1>1 DEF Mask
  <1>3. /\ frame' \in [Threads -> Frame] /\ frame'[t] = f
        /\ \A u \in Threads : u # t => frame'[u] = frame[u]
    BY <1>2, Stepped
  <1>4. frame[t] \in Frame
    BY NewTyped
  <1> HIDE DEF f
  <1>5. QED
    BY <1>3, <1>4, Pc DEF f, Mask, At, cpu, counters, history

LEMMA WriteHighStep ==
    ASSUME TypeInv, NEW t \in Threads, WriteHigh(t)
    PROVE  /\ frame[t].pc = "cmph" /\ Runs(t)
           /\ frame' \in [Threads -> Frame]
           /\ frame'[t].pc = "cmpl"
           /\ frame'[t].high = frame[t].high /\ frame'[t].low = frame[t].low /\ frame'[t].from = frame[t].from
           /\ frame'[t].arms = frame[t].arms /\ frame'[t].add = frame[t].add
           /\ \A u \in Threads : u # t => frame'[u] = frame[u]
           /\ Clock("write", High(New(t)) * Base + Low(mtimecmp))
           /\ UNCHANGED <<mie, mstatus, elapsed, increment, start, due>>
  <1>1. [frame[t] EXCEPT !.pc = "cmpl"] \in Frame
    BY NewTyped DEF Frame, Writes
  <1> DEFINE f == [frame[t] EXCEPT !.pc = "cmpl"]
  <1>2. Step(t, f) /\ f \in Frame
    BY <1>1 DEF WriteHigh
  <1>3. /\ frame' \in [Threads -> Frame] /\ frame'[t] = f
        /\ \A u \in Threads : u # t => frame'[u] = frame[u]
    BY <1>2, Stepped
  <1>4. frame[t] \in Frame
    BY NewTyped
  <1> HIDE DEF f
  <1>5. QED
    BY <1>3, <1>4, Pc DEF f, WriteHigh, At, cpu, counters, history

LEMMA WriteLowStep ==
    ASSUME TypeInv, NEW t \in Threads, WriteLow(t)
    PROVE  /\ frame[t].pc = "cmpl" /\ Runs(t)
           /\ frame' \in [Threads -> Frame]
           /\ frame'[t].pc = Then(t)
           /\ frame'[t].high = frame[t].high /\ frame'[t].low = frame[t].low /\ frame'[t].from = frame[t].from
           /\ frame'[t].arms = frame[t].arms /\ frame'[t].add = frame[t].add
           /\ \A u \in Threads : u # t => frame'[u] = frame[u]
           /\ Clock("write", High(mtimecmp) * Base + Low(New(t)))
           /\ due' = IF New(t) > mtime THEN New(t) ELSE mtime + 1
           /\ UNCHANGED <<mie, mstatus, elapsed, increment, start>>
  <1>1. [frame[t] EXCEPT !.pc = Then(t)] \in Frame
    BY NewTyped DEF Frame, Then
  <1> DEFINE f == [frame[t] EXCEPT !.pc = Then(t)]
  <1>2. Step(t, f) /\ f \in Frame
    BY <1>1 DEF WriteLow
  <1>3. /\ frame' \in [Threads -> Frame] /\ frame'[t] = f
        /\ \A u \in Threads : u # t => frame'[u] = frame[u]
    BY <1>2, Stepped
  <1>4. frame[t] \in Frame
    BY NewTyped
  <1> HIDE DEF f
  <1>5. QED
    BY <1>3, <1>4, Pc DEF f, WriteLow, At, cpu, counters

LEMMA TypeStep ==
    ASSUME TypeInv, [Next]_vars
    PROVE  TypeInv'
  <1>1. CASE UNCHANGED vars
    BY <1>1 DEF TypeInv, vars, hardware, cpu, counters, history
  <1>2. CASE Wait
    BY <1>2 DEF TypeInv, Wait, Clock, cpu, counters, history
  <1>3. CASE TimerRead
    BY <1>3, IdleTyped, Stepped DEF TypeInv, TimerRead, Call, hardware, cpu, counters, history
  <1>4. CASE Return \/ TimerDisable
    BY <1>4, IdleTyped, Stepped DEF TypeInv, Return, TimerDisable, hardware, cpu, counters, history
  <1>5. CASE Unmask
    <2>1. [frame["main"] EXCEPT !.pc = "mstatus"] \in Frame
      BY IdleTyped, NewTyped DEF Frame
    <2>2. QED
      BY <1>5, <2>1, IdleTyped, Stepped DEF TypeInv, Unmask, hardware, counters, history
  <1>6. CASE Trap
    <2>1. Armed(increment) \in Frame
      BY ArmedTyped DEF TypeInv
    <2>2. QED
      BY <1>6, <2>1, IdleTyped, Stepped DEF TypeInv, Trap, Armed, hardware, cpu, counters, history
  <1>7. CASE CountUp
    <2>1. frame' \in [Threads -> Frame]
      BY <1>7, IdleTyped, Stepped DEF CountUp
    <2>2. QED
      BY <1>7, <2>1 DEF TypeInv, CountUp, hardware, cpu, history
  <1>8. ASSUME NEW p \in Periods, TimerEnable(p)
        PROVE  TypeInv'
    <2>1. p \in Nat
      BY TimerAssumption
    <2>2. Armed(p) \in Frame
      BY <2>1, ArmedTyped
    <2>3. QED
      BY <1>8, <2>1, <2>2, IdleTyped, Stepped DEF TypeInv, TimerEnable, Call, Armed, hardware, cpu
  <1>9. ASSUME NEW t \in Threads, ReadHigh(t) \/ ReadLow(t) \/ ReadAgain(t)
        PROVE  TypeInv'
    <2>1. frame' \in [Threads -> Frame] /\ Clock("read", mtimecmp)
      BY <1>9, ReadHighStep, ReadLowStep, ReadAgainStep
    <2>2. UNCHANGED <<mie, mstatus, elapsed, increment, start, due>>
      BY <1>9, ReadHighStep, ReadLowStep, ReadAgainStep
    <2>3. QED
      BY <2>1, <2>2 DEF TypeInv, Clock
  <1>10. ASSUME NEW t \in Threads, Mask(t) \/ WriteHigh(t) \/ WriteLow(t)
        PROVE  TypeInv'
    <2>1. /\ New(t) \in Nat /\ mtime + 1 \in Nat
          /\ High(mtimecmp) * Base + Base - 1 \in Nat
          /\ High(New(t)) * Base + Low(mtimecmp) \in Nat
          /\ High(mtimecmp) * Base + Low(New(t)) \in Nat
      <3>1. New(t) \in Nat /\ mtime \in Nat /\ mtimecmp \in Nat
        BY NewTyped DEF TypeInv
      <3>2. /\ High(New(t)) \in Nat /\ Low(New(t)) \in Nat /\ Low(New(t)) < Base
            /\ High(mtimecmp) \in Nat /\ Low(mtimecmp) \in Nat /\ Low(mtimecmp) < Base
        BY <3>1, Words
      <3>3. QED
        BY <3>1, <3>2, Words, HighOfWords
    <2>2. CASE Mask(t)
      BY <2>1, <2>2, MaskStep DEF TypeInv, Clock
    <2>3. CASE WriteHigh(t)
      BY <2>1, <2>3, WriteHighStep DEF TypeInv, Clock
    <2>4. CASE WriteLow(t)
      BY <2>1, <2>4, WriteLowStep DEF TypeInv, Clock
    <2>5. QED
      BY <1>10, <2>2, <2>3, <2>4
  <1>11. QED
    BY <1>1, <1>2, <1>3, <1>4, <1>5, <1>6, <1>7, <1>8, <1>9, <1>10, Steps

LEMMA TypeInit == Init => TypeInv
  <1> SUFFICES ASSUME Init PROVE TypeInv
    OBVIOUS
  <1>1. frame \in [Threads -> Frame]
    BY IdleTyped DEF Init
  <1>2. QED
    BY <1>1 DEF Init, TypeInv

----------------------------------------------------------------------------
(***************************************************************************)
(* timer_read.  The high word belongs to the time at which the reading     *)
(* began, the low word to some time since; if the high word is the same    *)
(* at the end, it was the same at the time in between.                     *)
(***************************************************************************)
ReadInv ==
    \A t \in Threads :
        /\ frame[t].pc \in {"low", "check"} => frame[t].high = High(frame[t].from) /\ frame[t].from <= mtime
        /\ frame[t].pc = "check" => \E u \in frame[t].from..mtime : frame[t].low = Low(u)
        /\ frame[t].pc \in Writes \cup {"known"} => Value(t) \in frame[t].from..mtime

(* Time goes on and a frame stays, or it is one that ReadInv says nothing of. *)
LEMMA ReadFrame ==
    ASSUME TypeInv, ReadInv, mtime' \in {mtime, mtime + 1},
           \A t \in Threads : frame'[t] = frame[t] \/ frame'[t].pc \in {"idle", "high", "mie", "mstatus", "count"}
    PROVE  ReadInv'
  <1> SUFFICES ASSUME NEW t \in Threads, frame'[t] = frame[t]
               PROVE  /\ frame[t].pc \in {"low", "check"} =>
                           frame[t].high = High(frame[t].from) /\ frame[t].from <= mtime'
                      /\ frame[t].pc = "check" => \E u \in frame[t].from..mtime' : frame[t].low = Low(u)
                      /\ frame[t].pc \in Writes \cup {"known"} => Value(t) \in frame[t].from..mtime'
    BY DEF ReadInv, Writes, Value, High, Low
  <1>1. mtime \in Nat /\ frame[t].from \in Nat /\ Value(t) \in Nat /\ mtime <= mtime'
    BY NewTyped DEF TypeInv
  <1>2. frame[t].from..mtime \subseteq frame[t].from..mtime'
    BY <1>1 DEF TypeInv
  <1>3. QED
    BY <1>1, <1>2 DEF ReadInv, TypeInv

LEMMA ReadStep ==
    ASSUME TypeInv, ReadInv, [Next]_vars
    PROVE  ReadInv'
  <1>1. CASE UNCHANGED vars \/ Wait \/ TimerDisable
    BY <1>1, ReadFrame DEF vars, hardware, Wait, Clock, TimerDisable
  <1>2. CASE TimerRead \/ Return \/ Unmask \/ Trap \/ CountUp \/ \E p \in Periods : TimerEnable(p)
    <2>1. mtime' = mtime
      BY <1>2 DEF TimerRead, Return, Unmask, Trap, CountUp, TimerEnable, hardware
    <2>2. PICK s \in Threads : \E f : Step(s, f) /\ f.pc \in {"idle", "high", "mstatus"}
      <3>1. CASE TimerRead \/ Trap \/ \E p \in Periods : TimerEnable(p)
        <4>1. \A p \in Periods : Armed(p).pc = "high"
          BY TimerAssumption, ArmedTyped
        <4>2. Armed(increment).pc = "high"
          BY ArmedTyped DEF TypeInv
        <4>3. QED
          BY <3>1, <4>1, <4>2, IdleTyped DEF TimerRead, Trap, TimerEnable, Call, Armed
      <3>2. CASE Return \/ CountUp
        BY <3>2, IdleTyped DEF Return, CountUp
      <3>3. CASE Unmask
        <4>1. frame["main"] \in Frame /\ Idle.pc = "idle"
          BY IdleTyped, NewTyped DEF Idle
        <4>2. [frame["main"] EXCEPT !.pc = "mstatus"].pc = "mstatus"
          BY <4>1 DEF Frame
        <4>3. QED
          BY <3>3, <4>1, <4>2, IdleTyped DEF Unmask
      <3>4. QED
        BY <1>2, <3>1, <3>2, <3>3
    <2>3. frame'[s].pc \in {"idle", "high", "mstatus"} /\ \A u \in Threads : u # s => frame'[u] = frame[u]
      BY <2>2 DEF Step, TypeInv
    <2>4. QED
      BY <2>1, <2>3, ReadFrame
  <1>3. ASSUME NEW t \in Threads, ReadHigh(t) \/ ReadLow(t) \/ ReadAgain(t)
                                 \/ Mask(t) \/ WriteHigh(t) \/ WriteLow(t)
        PROVE  ReadInv'
    <2>1. /\ mtime' = mtime + 1 /\ mtime \in Nat
          /\ \A u \in Threads : u # t => frame'[u] = frame[u]
      BY <1>3, ReadHighStep, ReadLowStep, ReadAgainStep, MaskStep, WriteHighStep, WriteLowStep
         DEF Clock, TypeInv
    <2> DEFINE f == frame'[t]
    <2>2. SUFFICES \/ f.pc \in {"mie", "count", "high"}
                   \/ /\ f.pc = "low" /\ f.high = High(f.from) /\ f.from <= mtime'
                   \/ /\ f.pc = "check" /\ f.high = High(f.from) /\ f.from <= mtime'
                      /\ \E u \in f.from..mtime' : f.low = Low(u)
                   \/ /\ f.pc \in Writes \cup {"known"}
                      /\ f.high * Base + f.low \in f.from..mtime'
      <3>1. ASSUME NEW s \in Threads, s # t
            PROVE  /\ frame[s].pc \in {"low", "check"} =>
                        frame[s].high = High(frame[s].from) /\ frame[s].from <= mtime'
                   /\ frame[s].pc = "check" => \E u \in frame[s].from..mtime' : frame[s].low = Low(u)
                   /\ frame[s].pc \in Writes \cup {"known"} => Value(s) \in frame[s].from..mtime'
        <4>1. frame[s].from \in Nat /\ Value(s) \in Nat
          BY NewTyped
        <4>2. frame[s].from..mtime \subseteq frame[s].from..mtime'
          BY <2>1, <4>1
        <4>3. QED
          BY <2>1, <4>1, <4>2 DEF ReadInv
      <3>2. QED
        BY <2>1, <2>2, <3>1 DEF ReadInv, Value, High, Low, Writes
    <2>3. frame[t] \in Frame /\ frame[t].from \in Nat /\ Value(t) \in Nat
      BY NewTyped
    <2>4. CASE ReadHigh(t)
      BY <2>1, <2>4, ReadHighStep
    <2>5. CASE ReadLow(t)
      <3>1. /\ f.pc = "check" /\ f.high = frame[t].high /\ f.from = frame[t].from
            /\ f.low = Low(mtime) /\ frame[t].pc = "low"
        BY <2>5, ReadLowStep
      <3>2. frame[t].high = High(frame[t].from) /\ frame[t].from <= mtime
        BY <3>1 DEF ReadInv
      <3>3. mtime \in f.from..mtime'
        BY <2>1, <2>3, <3>1, <3>2
      <3>4. QED
        BY <2>1, <2>3, <3>1, <3>2, <3>3
    <2>6. CASE ReadAgain(t)
      <3>1. /\ f.pc = IF High(mtime) # frame[t].high THEN "high"
                      ELSE IF frame[t].arms THEN "mask" ELSE "known"
            /\ f.high = frame[t].high /\ f.low = frame[t].low /\ f.from = frame[t].from
            /\ frame[t].pc = "check"
        BY <2>6, ReadAgainStep
      <3>2. PICK u \in frame[t].from..mtime : frame[t].low = Low(u)
        BY <3>1 DEF ReadInv
      <3>3. /\ frame[t].high = High(frame[t].from) /\ u \in Nat
            /\ frame[t].from <= u /\ u <= mtime
        BY <2>1, <2>3, <3>1, <3>2 DEF ReadInv
      <3>4. CASE High(mtime) = frame[t].high
        <4>1. High(frame[t].from) <= High(u) /\ High(u) <= High(mtime)
          BY <2>1, <2>3, <3>3, HighMonotone
        <4>2. High(u) \in Nat /\ High(mtime) \in Nat /\ High(u) * Base + Low(u) = u
          BY <2>1, <3>3, Words
        <4>3. High(u) = frame[t].high
          BY <3>3, <3>4, <4>1, <4>2
        <4>4. f.high * Base + f.low = u
          BY <3>1, <3>2, <4>2, <4>3
        <4>5. u \in f.from..mtime'
          BY <2>1, <2>3, <3>1, <3>3
        <4>6. f.pc \in {"mask", "known"}
          BY <3>1, <3>4
        <4>7. QED
          BY <4>4, <4>5, <4>6 DEF Writes
      <3>5. QED
        BY <3>1, <3>4
    <2>7. CASE Mask(t) \/ WriteHigh(t) \/ WriteLow(t)
      <3>1. /\ frame[t].pc \in Writes /\ f.pc \in Writes \cup {"mie", "count"}
            /\ f.high = frame[t].high /\ f.low = frame[t].low /\ f.from = frame[t].from
        BY <2>7, MaskStep, WriteHighStep, WriteLowStep DEF Writes, Then
      <3>2. Value(t) \in frame[t].from..mtime
        BY <3>1 DEF ReadInv
      <3>3. f.high * Base + f.low \in f.from..mtime'
        BY <2>1, <2>3, <3>1, <3>2 DEF Value
      <3>4. QED
        BY <3>1, <3>3
    <2>8. QED
      BY <1>3, <2>4, <2>5, <2>6, <2>7
  <1>4. QED
    BY <1>1, <1>2, <1>3, Steps

LEMMA ReadInit == Init => ReadInv
  BY DEF Init, ReadInv, Idle, Writes

(* timer_read returns a time that was current while it ran, in every        *)
(* interleaving with the handler and for every width of the words.         *)
THEOREM TimesAreRead == Spec => []ReadIsTime
  <1>1. TypeInv /\ ReadInv /\ [Next]_vars => (TypeInv /\ ReadInv)'
    BY TypeStep, ReadStep
  <1>2. ReadInv => ReadIsTime
    BY DEF ReadInv, ReadIsTime, Writes
  <1>3. QED
    BY <1>1, <1>2, TypeInit, ReadInit, PTL DEF Spec
----------------------------------------------------------------------------
(***************************************************************************)
(* Who arms the timer.  Callers that enable only a disabled timer do so    *)
(* with the timer interrupt masked, so the handler never runs between      *)
(* their stores, and the words a thread has written are still there when   *)
(* it writes the next one.                                                 *)
(***************************************************************************)
Arming(t) == frame[t].arms /\ frame[t].pc \in Reads \cup Writes

ArmInv ==
    /\ \A t \in Threads :
         /\ frame[t].pc \in Writes \cup {"mie", "count"} => frame[t].arms
         /\ frame[t].pc = "cmpl" => High(mtimecmp) = High(New(t))
    /\ frame["main"].pc # "count"
    /\ frame["handler"].pc \in {"idle", "count"} \cup Reads \cup Writes
    /\ frame["handler"].pc # "idle" => frame["handler"].arms /\ mie
    /\ Arming("main") \/ frame["main"].pc = "mie" => ~mie

(* The steps that are not accesses, as what they do to the frames. *)
LEMMA TimerReadStep ==
    ASSUME TypeInv, TimerRead
    PROVE  /\ frame["main"].pc = "idle" /\ frame["handler"].pc = "idle"
           /\ frame'["main"].pc = "high" /\ frame'["main"].arms = FALSE
           /\ frame'["handler"] = frame["handler"]
           /\ UNCHANGED <<mtime, mtimecmp, interrupt, mie, mstatus, elapsed, increment, start, due>>
  BY IdleTyped, Stepped DEF TimerRead, Call, At, Runs, hardware, cpu, counters, history

LEMMA ReturnStep ==
    ASSUME TypeInv, Return
    PROVE  /\ frame["handler"].pc = "idle"
           /\ frame'["main"].pc = "idle" /\ frame'["main"].arms = FALSE
           /\ frame'["handler"] = frame["handler"]
           /\ UNCHANGED <<mtime, mtimecmp, interrupt, mie, mstatus, elapsed, increment, start, due>>
  BY IdleTyped, Stepped DEF Return, At, Runs, hardware, cpu, counters, history

LEMMA UnmaskStep ==
    ASSUME TypeInv, Unmask
    PROVE  /\ frame["handler"].pc = "idle"
           /\ frame'["handler"] = frame["handler"]
           /\ UNCHANGED <<mtime, mtimecmp, interrupt, elapsed, increment, start, due>>
           /\ \/ /\ frame["main"].pc = "mie" /\ frame'["main"].pc = "mstatus"
                 /\ mie' = TRUE
              \/ /\ frame["main"].pc = "mstatus" /\ frame'["main"].pc = "idle"
                 /\ mie' = mie
  <1>1. frame["main"] \in Frame
    BY IdleTyped, NewTyped
  <1> DEFINE f == [frame["main"] EXCEPT !.pc = "mstatus"]
  <1>2. f \in Frame /\ f.pc = "mstatus"
    BY <1>1 DEF Frame
  <1> HIDE DEF f
  <1>3. CASE At("main", "mie") /\ mie' = TRUE /\ Step("main", f)
                /\ UNCHANGED <<hardware, mstatus, counters, history>>
    BY <1>2, <1>3, IdleTyped, Stepped DEF At, Runs, hardware, counters, history
  <1>4. CASE At("main", "mstatus") /\ mstatus' = TRUE /\ Step("main", Idle)
                /\ UNCHANGED <<hardware, mie, counters, history>>
    BY <1>4, IdleTyped, Stepped DEF At, Runs, hardware, counters, history
  <1>5. QED
    BY <1>3, <1>4 DEF Unmask, f

LEMMA TrapStep ==
    ASSUME TypeInv, Trap
    PROVE  /\ interrupt /\ mie /\ frame["handler"].pc = "idle"
           /\ frame'["handler"].pc = "high" /\ frame'["handler"].arms = TRUE
           /\ frame'["handler"].add = increment
           /\ frame'["main"] = frame["main"]
           /\ UNCHANGED <<mtime, mtimecmp, interrupt, mie, mstatus, elapsed, increment, start, due>>
  <1>1. Armed(increment) \in Frame /\ Step("handler", Armed(increment))
    BY ArmedTyped DEF TypeInv, Trap, Armed
  <1>2. frame'["handler"] = Armed(increment) /\ frame'["main"] = frame["main"]
    BY <1>1, IdleTyped, Stepped
  <1>3. increment \in Nat
    BY DEF TypeInv
  <1>4. QED
    BY <1>2, <1>3, ArmedTyped DEF Trap, hardware, cpu, counters, history

LEMMA CountUpStep ==
    ASSUME TypeInv, CountUp
    PROVE  /\ frame["handler"].pc = "count" /\ frame'["handler"].pc = "idle"
           /\ frame'["handler"].arms = FALSE
           /\ frame'["main"] = frame["main"]
           /\ elapsed' = elapsed + 1
           /\ UNCHANGED <<mtime, mtimecmp, interrupt, mie, mstatus, increment, start, due>>
  BY IdleTyped, Stepped DEF CountUp, At, hardware, cpu, history

LEMMA EnableStep ==
    ASSUME TypeInv, NEW p \in Periods, TimerEnable(p), ~Reenables
    PROVE  /\ p \in Nat /\ mie = FALSE
           /\ frame["main"].pc = "idle" /\ frame["handler"].pc = "idle"
           /\ frame'["main"].pc = "high" /\ frame'["main"].arms = TRUE /\ frame'["main"].add = p
           /\ frame'["handler"] = frame["handler"]
           /\ elapsed' = 0 /\ increment' = p /\ start' = mtime
           /\ UNCHANGED <<mtime, mtimecmp, interrupt, mie, mstatus, due>>
  <1>1. p \in Nat
    BY TimerAssumption
  <1>2. Armed(p) \in Frame /\ Step("main", Armed(p)) /\ At("main", "idle")
    BY <1>1, ArmedTyped DEF TimerEnable, Call, Armed
  <1>3. frame'["main"] = Armed(p) /\ frame'["handler"] = frame["handler"]
    BY <1>2, IdleTyped, Stepped
  <1>4. frame["handler"].pc = "idle" /\ frame["main"].pc = "idle"
    BY <1>2 DEF At, Runs
  <1>5. mie = FALSE
    BY DEF TimerEnable, TypeInv
  <1>6. QED
    BY <1>1, <1>3, <1>4, <1>5, ArmedTyped DEF TimerEnable, hardware, cpu

(* At most one thread is between two stores. *)
LEMMA OneArms ==
    ASSUME ArmInv, NEW t \in Threads, NEW u \in Threads, u # t, frame[t].pc \in Writes
    PROVE  frame[u].pc \notin Writes
  BY DEF ArmInv, Arming, Threads, Reads, Writes

(* A thread that does not step keeps its part, if no store of the other    *)
(* one comes between its own.                                              *)
LEMMA ArmOther ==
    ASSUME ArmInv, NEW u \in Threads, frame'[u] = frame[u],
           frame[u].pc = "cmpl" => mtimecmp' = mtimecmp
    PROVE  /\ frame'[u].pc \in Writes \cup {"mie", "count"} => frame'[u].arms
           /\ frame'[u].pc = "cmpl" => High(mtimecmp') = High(New(u)')
  BY DEF ArmInv, New, Value, High

LEMMA ArmAccess ==
    ASSUME TypeInv, ArmInv, NEW t \in Threads,
           ReadHigh(t) \/ ReadLow(t) \/ ReadAgain(t) \/ Mask(t) \/ WriteHigh(t) \/ WriteLow(t)
    PROVE  ArmInv'
  <1>1. /\ frame[t].pc \in Reads \cup Writes
        /\ frame'[t].pc \in Reads \cup Writes \cup {"known", Then(t)}
        /\ frame'[t].pc = Then(t) => frame[t].pc = "cmpl"
        /\ frame'[t].pc \in Writes => frame[t].pc \in Writes \/ frame[t].arms
        /\ frame'[t].pc = "known" => ~frame[t].arms
        /\ frame'[t].arms = frame[t].arms /\ Runs(t)
        /\ \A u \in Threads : u # t => frame'[u] = frame[u]
        /\ mie' = mie
    BY ReadHighStep, ReadLowStep, ReadAgainStep, MaskStep, WriteHighStep, WriteLowStep
       DEF Reads, Writes, Then
  <1>2. frame[t].pc \notin Writes => mtimecmp' = mtimecmp
    BY ReadHighStep, ReadLowStep, ReadAgainStep, MaskStep, WriteHighStep, WriteLowStep
       DEF Writes, Clock
  <1>3. frame'[t].pc = "cmpl" => High(mtimecmp') = High(New(t)')
    <2>1. SUFFICES ASSUME frame'[t].pc = "cmpl"
                   PROVE  High(mtimecmp') = High(New(t)')
      OBVIOUS
    <2>2. WriteHigh(t)
      BY <2>1, ReadHighStep, ReadLowStep, ReadAgainStep, MaskStep, WriteLowStep DEF Then
    <2>3. New(t) \in Nat /\ mtimecmp \in Nat
      BY NewTyped DEF TypeInv
    <2>4. New(t)' = New(t)
      BY <2>2, WriteHighStep DEF New, Value
    <2>5. mtimecmp' = High(New(t)) * Base + Low(mtimecmp)
      BY <2>2, WriteHighStep DEF Clock
    <2>6. High(New(t)) \in Nat /\ Low(mtimecmp) \in Nat /\ Low(mtimecmp) < Base
      BY <2>3, Words
    <2>7. QED
      BY <2>4, <2>5, <2>6, HighOfWords
  <1>4. \A u \in Threads :
            /\ frame'[u].pc \in Writes \cup {"mie", "count"} => frame'[u].arms
            /\ frame'[u].pc = "cmpl" => High(mtimecmp') = High(New(u)')
    <2>1. frame'[t].pc \in Writes \cup {"mie", "count"} => frame'[t].arms
      BY <1>1 DEF ArmInv, Reads, Writes, Then
    <2>2. ASSUME NEW u \in Threads, u # t
          PROVE  /\ frame'[u].pc \in Writes \cup {"mie", "count"} => frame'[u].arms
                 /\ frame'[u].pc = "cmpl" => High(mtimecmp') = High(New(u)')
      <3>1. frame[u].pc = "cmpl" => frame[t].pc \notin Writes
        BY <2>2, OneArms DEF Writes
      <3>2. QED
        BY <1>1, <1>2, <2>2, <3>1, ArmOther
    <2>3. QED
      BY <1>3, <2>1, <2>2
  <1>5. frame'["main"].pc # "count"
    BY <1>1, IdleTyped DEF ArmInv, Reads, Writes, Then
  <1>6. /\ frame'["handler"].pc \in {"idle", "count"} \cup Reads \cup Writes
        /\ frame'["handler"].pc # "idle" => frame'["handler"].arms /\ mie'
    BY <1>1, IdleTyped DEF ArmInv, Reads, Writes, Then
  <1>7. Arming("main")' \/ frame'["main"].pc = "mie" => ~mie'
    BY <1>1, IdleTyped DEF ArmInv, Arming, Reads, Writes, Then
  <1>8. QED
    BY <1>4, <1>5, <1>6, <1>7 DEF ArmInv, High

LEMMA ArmStep ==
    ASSUME TypeInv, ArmInv, [Next]_vars, ~Reenables
    PROVE  ArmInv'
  <1>1. CASE UNCHANGED vars \/ Wait \/ TimerDisable
    <2>1. /\ frame' = frame /\ mtimecmp' = mtimecmp
          /\ mie' = mie \/ (mie' = FALSE /\ frame["handler"].pc = "idle")
      BY <1>1 DEF vars, hardware, cpu, Wait, Clock, TimerDisable, At, Runs
    <2>2. QED
      BY <2>1, IdleTyped, ArmOther DEF ArmInv, Arming, High
  <1>2. CASE TimerRead \/ Return
    BY <1>2, TimerReadStep, ReturnStep, IdleTyped, ArmOther DEF ArmInv, Arming, High, Reads, Writes
  <1>3. CASE Unmask
    BY <1>3, UnmaskStep, IdleTyped, ArmOther DEF ArmInv, Arming, High, Reads, Writes
  <1>4. CASE Trap
    BY <1>4, TrapStep, IdleTyped, ArmOther DEF ArmInv, Arming, High, Reads, Writes
  <1>5. CASE CountUp
    BY <1>5, CountUpStep, IdleTyped, ArmOther DEF ArmInv, Arming, High, Reads, Writes
  <1>6. CASE \E p \in Periods : TimerEnable(p)
    BY <1>6, EnableStep, IdleTyped, ArmOther DEF ArmInv, Arming, High, Reads, Writes
  <1>7. QED
    BY <1>1, <1>2, <1>3, <1>4, <1>5, <1>6, ArmAccess, Steps

LEMMA ArmInit == Init => ArmInv
  BY IdleTyped DEF Init, ArmInv, Arming, Idle, Reads, Writes, Threads

(* The last store makes the compare value the new one, and nothing is      *)
(* pending after it.                                                       *)
LEMMA WholeValue ==
    ASSUME TypeInv, ArmInv, NEW t \in Threads, WriteLow(t)
    PROVE  mtimecmp' = New(t) /\ interrupt' = FALSE /\ mtime' = mtime + 1
  <1>1. High(mtimecmp) = High(New(t)) /\ New(t) \in Nat
    BY WriteLowStep, NewTyped DEF ArmInv
  <1>2. High(New(t)) * Base + Low(New(t)) = New(t)
    BY <1>1, Words
  <1>3. QED
    BY <1>1, <1>2, WriteLowStep DEF Clock

----------------------------------------------------------------------------
(***************************************************************************)
(* The ticks.  The run of the handler that is to come is owed a time, and  *)
(* from the moment the handler may run again the compare value is at least *)
(* that time; what is pending was raised by this compare value.            *)
(***************************************************************************)
Owed(n) == start + (elapsed + n) * increment

TickInv ==
    /\ Owed(0) <= mtime
    /\ \A t \in Threads : Arming(t) => frame[t].add = increment
    /\ Arming("main") \/ frame["main"].pc = "mie" => elapsed = 0
    /\ Arming("main") /\ frame["main"].pc # "high" => start <= frame["main"].from
    /\ frame["handler"].pc # "idle" => Owed(1) <= mtime
    /\ frame["handler"].pc \in {"low", "check"} \cup Writes => Owed(1) <= frame["handler"].from
    /\ frame["handler"].pc = "count" => Owed(2) <= mtimecmp /\ (interrupt => mtimecmp <= mtime)
    /\ frame["handler"].pc = "idle" /\ (mie \/ frame["main"].pc = "mie") =>
         Owed(1) <= mtimecmp /\ (interrupt => mtimecmp <= mtime)

LEMMA OwedFacts ==
    ASSUME TypeInv
    PROVE  /\ Owed(0) \in Nat /\ Owed(1) \in Nat /\ Owed(2) \in Nat
           /\ Owed(1) = Owed(0) + increment /\ Owed(2) = Owed(1) + increment
           /\ elapsed = 0 => Owed(0) = start
  <1>1. ASSUME NEW x \in Nat, NEW e \in Nat, NEW i \in Nat
        PROVE  /\ (e + 0) * i \in Nat
               /\ (e + 1) * i = (e + 0) * i + i
               /\ (e + 2) * i = (e + 1) * i + i
               /\ e = 0 => (e + 0) * i = 0
    <2>1. e * i \in Nat /\ 0 * i = 0
      OBVIOUS
    <2>2. (e + 1) * i = e * i + i /\ (e + 2) * i = e * i + i + i /\ e + 0 = e
      OBVIOUS
    <2>3. QED
      BY <2>1, <2>2
  <1>2. start \in Nat /\ elapsed \in Nat /\ increment \in Nat
    BY DEF TypeInv
  <1> DEFINE a(n) == (elapsed + n) * increment
  <1>3. /\ a(0) \in Nat /\ a(1) = a(0) + increment /\ a(2) = a(1) + increment
        /\ elapsed = 0 => a(0) = 0
    BY <1>1, <1>2
  <1>4. Owed(0) = start + a(0) /\ Owed(1) = start + a(1) /\ Owed(2) = start + a(2)
    BY DEF Owed
  <1> HIDE DEF a
  <1>5. QED
    BY <1>2, <1>3, <1>4

LEMMA OwedSame ==
    ASSUME UNCHANGED <<start, elapsed, increment>>
    PROVE  Owed(0)' = Owed(0) /\ Owed(1)' = Owed(1) /\ Owed(2)' = Owed(2)
  BY DEF Owed

LEMMA OwedNext ==
    ASSUME TypeInv, elapsed' = elapsed + 1, UNCHANGED <<start, increment>>
    PROVE  Owed(0)' = Owed(1) /\ Owed(1)' = Owed(2)
  BY DEF Owed, TypeInv

(* Time goes on without a store. *)
LEMMA TickQuiet ==
    ASSUME TypeInv, TypeInv', TickInv, UNCHANGED <<start, elapsed, increment, mtimecmp, frame>>,
           mie' => mie,
           \/ UNCHANGED <<mtime, interrupt>>
           \/ mtime' = mtime + 1 /\ (interrupt' => mtime >= mtimecmp \/ interrupt)
    PROVE  TickInv'
  <1>1. mtime <= mtime' /\ mtime \in Nat /\ mtimecmp \in Nat /\ mtime' \in Nat
    BY DEF TypeInv
  <1>2. (interrupt => mtimecmp <= mtime) => (interrupt' => mtimecmp <= mtime')
    <2>1. interrupt' => interrupt \/ mtimecmp <= mtime
      <3>1. CASE UNCHANGED <<mtime, interrupt>>
        BY <3>1
      <3>2. CASE interrupt' => mtime >= mtimecmp \/ interrupt
        BY <1>1, <3>2
      <3>3. QED
        BY <3>1, <3>2
    <2>2. mtimecmp <= mtime => mtimecmp <= mtime'
      BY <1>1
    <2>3. QED
      BY <2>1, <2>2
  <1>3. \A t \in Threads : Arming(t)' = Arming(t)
    BY DEF Arming
  <1>4. frame["handler"].from \in Nat /\ frame["main"].from \in Nat
    BY IdleTyped, NewTyped
  <1>5. QED
    BY <1>1, <1>2, <1>3, <1>4, OwedFacts, OwedSame, IdleTyped DEF TickInv

LEMMA TickAccess ==
    ASSUME TypeInv, ArmInv, TickInv, ReadInv, NEW t \in Threads,
           ReadHigh(t) \/ ReadLow(t) \/ ReadAgain(t) \/ Mask(t) \/ WriteHigh(t) \/ WriteLow(t)
    PROVE  TickInv'
  <1> DEFINE f == frame[t]
             g == frame'[t]
  <1>1. /\ f.pc \in Reads \cup Writes
        /\ g.pc \in Reads \cup Writes \cup {"known", Then(t)}
        /\ g.pc = Then(t) <=> f.pc = "cmpl"
        /\ g.pc = "known" => ~f.arms
        /\ f.pc \in Writes => f.arms
        /\ g.arms = f.arms /\ g.add = f.add /\ Runs(t)
        /\ \A u \in Threads : u # t => frame'[u] = frame[u]
        /\ mtime' = mtime + 1 /\ mie' = mie
        /\ UNCHANGED <<start, elapsed, increment>>
    BY ReadHighStep, ReadLowStep, ReadAgainStep, MaskStep, WriteHighStep, WriteLowStep
       DEF Reads, Writes, Then, Clock, ArmInv
  <1>2. /\ f.pc = "high" => g.pc = "low" /\ g.from = mtime
        /\ f.pc # "high" => g.from = f.from /\ g.pc # "low"
    BY ReadHighStep, ReadLowStep, ReadAgainStep, MaskStep, WriteHighStep, WriteLowStep
       DEF Then, Reads, Writes
  <1>3. f.pc = "cmpl" => WriteLow(t)
    BY ReadHighStep, ReadLowStep, ReadAgainStep, MaskStep, WriteHighStep
  <1>4. /\ mtime \in Nat /\ f.from \in Nat /\ f.add \in Nat /\ start \in Nat /\ increment \in Nat
        /\ Owed(0)' = Owed(0) /\ Owed(1)' = Owed(1) /\ Owed(2)' = Owed(2)
    BY <1>1, NewTyped, OwedSame DEF TypeInv
  <1>5. f.pc = "cmpl" => /\ mtimecmp' = New(t) /\ interrupt' = FALSE
                         /\ f.from + increment <= mtimecmp'
    <2>1. SUFFICES ASSUME f.pc = "cmpl"
                   PROVE  /\ mtimecmp' = New(t) /\ interrupt' = FALSE
                          /\ f.from + increment <= New(t)
      BY <1>3, WholeValue
    <2>2. Value(t) \in f.from..mtime /\ f.add = increment
      BY <1>1, <2>1 DEF ReadInv, TickInv, Arming, Writes
    <2>3. New(t) = Value(t) + f.add /\ Value(t) \in Nat
      BY NewTyped
    <2>4. \A x \in Nat, y, z \in Nat : x \in y..z => y + f.add <= x + f.add
      BY <1>4
    <2>5. f.from + increment <= New(t)
      BY <1>4, <2>2, <2>3, <2>4
    <2>6. QED
      BY <1>3, <2>1, <2>5, WholeValue
  <1>6. Owed(0)' <= mtime'
    BY <1>1, <1>4, OwedFacts DEF TickInv
  <1>7. \A u \in Threads : Arming(u)' => frame'[u].add = increment'
    BY <1>1 DEF TickInv, Arming
  <1>8. CASE t = "main"
    <2>1. frame["handler"].pc = "idle" /\ frame'["handler"] = frame["handler"]
      BY <1>1, <1>8, IdleTyped DEF Runs
    <2>2. f.arms => ~mie /\ elapsed = 0
      BY <1>1, <1>8 DEF ArmInv, TickInv, Arming
    <2>3. Arming("main")' \/ frame'["main"].pc = "mie" => elapsed' = 0
      BY <1>1, <1>8, <2>2 DEF Arming, Then, Reads, Writes
    <2>4. Arming("main")' /\ frame'["main"].pc # "high" => start' <= frame'["main"].from
      <3>1. SUFFICES ASSUME f.arms, g.pc # "high"
                     PROVE  start <= g.from
        BY <1>1, <1>8 DEF Arming
      <3>2. CASE f.pc = "high"
        <4>1. Owed(0) = start /\ Owed(0) <= mtime
          BY <2>2, <3>1, OwedFacts DEF TickInv
        <4>2. QED
          BY <1>2, <3>2, <4>1
      <3>3. CASE f.pc # "high"
        BY <1>1, <1>2, <1>8, <3>1, <3>3 DEF TickInv, Arming
      <3>4. QED
        BY <3>2, <3>3
    <2>5. mie' \/ frame'["main"].pc = "mie" =>
             Owed(1)' <= mtimecmp' /\ (interrupt' => mtimecmp' <= mtime')
      <3>1. CASE f.pc = "cmpl"
        <4>1. f.arms /\ start <= f.from
          BY <1>1, <1>8, <3>1 DEF TickInv, Arming, Writes
        <4>2. Owed(1) = start + increment
          BY <2>2, <4>1, OwedFacts
        <4>3. Owed(1) <= mtimecmp'
          <5>1. New(t) \in Nat
            BY NewTyped
          <5>2. QED
            BY <1>4, <1>5, <3>1, <4>1, <4>2, <5>1
        <4>4. QED
          BY <1>4, <1>5, <3>1, <4>3
      <3>2. CASE f.pc # "cmpl"
        <4>1. SUFFICES ASSUME mie
                       PROVE  Owed(1) <= mtimecmp' /\ (interrupt' => mtimecmp' <= mtime')
          BY <1>1, <1>4, <1>8, <3>2 DEF Then, Reads, Writes
        <4>2. f.pc \notin Writes
          BY <1>1, <2>2, <4>1
        <4>3. Clock("read", mtimecmp)
          BY <4>2, ReadHighStep, ReadLowStep, ReadAgainStep, MaskStep, WriteHighStep, WriteLowStep
             DEF Writes
        <4>4. mtimecmp' = mtimecmp /\ (interrupt' => mtime >= mtimecmp \/ interrupt)
          BY <4>3 DEF Clock
        <4>5. Owed(1) <= mtimecmp /\ (interrupt => mtimecmp <= mtime)
          BY <2>1, <4>1 DEF TickInv
        <4>6. mtimecmp \in Nat
          BY DEF TypeInv
        <4>7. mtimecmp <= mtime => mtimecmp <= mtime'
          BY <1>1, <1>4, <4>6
        <4>8. mtime >= mtimecmp => mtimecmp <= mtime
          BY <1>4, <4>6
        <4>9. QED
          BY <4>4, <4>5, <4>7, <4>8
      <3>3. QED
        BY <3>1, <3>2
    <2>6. QED
      BY <1>6, <1>7, <2>1, <2>3, <2>4, <2>5 DEF TickInv, Writes
  <1>9. CASE t = "handler"
    <2>1. f.arms /\ mie /\ f.pc # "idle" /\ Owed(1) <= mtime
      BY <1>1, <1>9 DEF ArmInv, TickInv, Reads, Writes
    <2>2. ~(Arming("main") \/ frame["main"].pc = "mie")
      BY <2>1 DEF ArmInv
    <2>3. frame'["main"] = frame["main"]
      BY <1>1, <1>9, IdleTyped
    <2>4. ~(Arming("main")' \/ frame'["main"].pc = "mie")
      BY <2>2, <2>3 DEF Arming
    <2>5. Owed(1)' <= mtime'
      BY <1>1, <1>4, <2>1, OwedFacts
    <2>6. g.pc # "idle"
      BY <1>1, <1>9 DEF Reads, Writes, Then
    <2>7. g.pc \in {"low", "check"} \cup Writes => Owed(1) <= g.from
      BY <1>1, <1>2, <1>9, <2>1 DEF TickInv, Reads, Writes
    <2>8. g.pc = "count" => Owed(2) <= mtimecmp' /\ interrupt' = FALSE
      <3>1. SUFFICES ASSUME g.pc = "count"
                     PROVE  Owed(2) <= mtimecmp' /\ interrupt' = FALSE
        OBVIOUS
      <3>2. f.pc = "cmpl"
        BY <1>1, <1>9, <3>1 DEF Then, Reads, Writes
      <3>3. Owed(1) <= f.from
        BY <1>9, <3>2 DEF TickInv, Writes
      <3>4. New(t) \in Nat
        BY NewTyped
      <3>5. QED
        BY <1>4, <1>5, <3>2, <3>3, <3>4, OwedFacts
    <2>9. QED
      BY <1>4, <1>6, <1>7, <1>9, <2>4, <2>5, <2>6, <2>7, <2>8 DEF TickInv
  <1>10. QED
    BY <1>8, <1>9, IdleTyped

LEMMA TickStep ==
    ASSUME TypeInv, TypeInv', ArmInv, TickInv, ReadInv, [Next]_vars, ~Reenables
    PROVE  TickInv'
  <1>1. CASE UNCHANGED vars
    BY <1>1, TickQuiet DEF vars, hardware, cpu, counters, history
  <1>2. CASE Wait
    BY <1>2, TickQuiet DEF Wait, Clock, cpu, counters, history
  <1>3. CASE TimerDisable
    BY <1>3, TickQuiet DEF TimerDisable, hardware, counters, history
  <1>4. CASE TimerRead \/ Return
    <2>1. /\ frame'["main"].pc \in {"idle", "high"} /\ ~frame'["main"].arms
          /\ frame["handler"].pc = "idle" /\ frame'["handler"] = frame["handler"]
          /\ UNCHANGED <<mtime, mtimecmp, interrupt, mie, elapsed, increment, start>>
      BY <1>4, TimerReadStep, ReturnStep
    <2>2. QED
      BY <2>1, OwedSame, IdleTyped DEF TickInv, Arming, Writes
  <1>5. CASE Unmask
    <2>1. /\ frame'["main"].pc \in {"mstatus", "idle"}
          /\ frame["handler"].pc = "idle" /\ frame'["handler"] = frame["handler"]
          /\ UNCHANGED <<mtime, mtimecmp, interrupt, elapsed, increment, start>>
      BY <1>5, UnmaskStep
    <2>2. mie' => mie \/ frame["main"].pc = "mie"
      <3>1. frame["main"].pc = "mie" \/ mie' = mie
        BY <1>5, UnmaskStep
      <3>2. QED
        BY <3>1
    <2>3. QED
      BY <2>1, <2>2, OwedSame, IdleTyped DEF TickInv, Arming, Reads, Writes
  <1>6. CASE Trap
    <2>1. /\ interrupt /\ mie /\ frame["handler"].pc = "idle"
          /\ frame'["handler"].pc = "high" /\ frame'["handler"].add = increment
          /\ frame'["main"] = frame["main"]
          /\ UNCHANGED <<mtime, mtimecmp, interrupt, mie, elapsed, increment, start>>
      BY <1>6, TrapStep
    <2>2. Owed(1) <= mtimecmp /\ mtimecmp <= mtime
      BY <2>1 DEF TickInv
    <2>3. Owed(1) <= mtime
      BY <2>2, OwedFacts DEF TypeInv
    <2>4. QED
      BY <2>1, <2>3, OwedSame, IdleTyped DEF TickInv, Arming, Writes
  <1>7. CASE CountUp
    <2>1. /\ frame["handler"].pc = "count" /\ frame'["handler"].pc = "idle"
          /\ frame'["main"] = frame["main"] /\ frame'["handler"].arms = FALSE
          /\ elapsed' = elapsed + 1
          /\ UNCHANGED <<mtime, mtimecmp, interrupt, mie, increment, start>>
      BY <1>7, CountUpStep
    <2>2. ~(Arming("main") \/ frame["main"].pc = "mie")
      BY <2>1 DEF ArmInv
    <2>3. Owed(0)' = Owed(1) /\ Owed(1)' = Owed(2)
      BY <2>1, OwedNext
    <2>4. QED
      BY <2>1, <2>2, <2>3, IdleTyped DEF TickInv, Arming, Writes
  <1>8. CASE \E p \in Periods : TimerEnable(p)
    <2>1. PICK p \in Periods : TimerEnable(p)
      BY <1>8
    <2>2. /\ mie' = FALSE /\ p \in Nat
          /\ frame'["main"].pc = "high" /\ frame'["main"].add = p
          /\ frame["handler"].pc = "idle" /\ frame'["handler"] = frame["handler"]
          /\ elapsed' = 0 /\ increment' = p /\ start' = mtime /\ mtime' = mtime
      BY <2>1, EnableStep
    <2>3. Owed(0)' = mtime'
      <3>1. (elapsed' + 0) * increment' = 0
        BY <2>2
      <3>2. mtime \in Nat
        BY DEF TypeInv
      <3>3. QED
        BY <2>2, <3>1, <3>2 DEF Owed
    <2>4. ~Arming("handler")'
      BY <2>2 DEF Arming, Reads, Writes
    <2>5. mtime' \in Nat
      BY DEF TypeInv
    <2>6. QED
      BY <2>2, <2>3, <2>4, <2>5, IdleTyped DEF TickInv, Arming, Writes
  <1>9. QED
    BY <1>1, <1>2, <1>3, <1>4, <1>5, <1>6, <1>7, <1>8, TickAccess, Steps

LEMMA TickInit == Init => TickInv
  <1> SUFFICES ASSUME Init PROVE TickInv
    OBVIOUS
  <1>1. /\ frame["main"].pc = "idle" /\ frame["handler"].pc = "idle"
        /\ mtime = 0 /\ mie = FALSE
    BY IdleTyped DEF Init
  <1>2. Owed(0) = 0
    BY DEF Init, Owed
  <1>3. QED
    BY <1>1, <1>2, IdleTyped DEF TickInv, Arming, Reads, Writes

(* The handler never runs early, for every period and width of the words,  *)
(* if software enables only a disabled timer.                              *)
THEOREM NoTickIsEarly ==
    ASSUME ~Reenables
    PROVE  Spec => []TicksNotEarly
  <1>1. TypeInv /\ ReadInv /\ ArmInv /\ TickInv /\ [Next]_vars
            => (TypeInv /\ ReadInv /\ ArmInv /\ TickInv)'
    BY TypeStep, ReadStep, ArmStep, TickStep
  <1>2. TypeInv /\ TickInv => TicksNotEarly
    <2>1. SUFFICES ASSUME TypeInv, TickInv
                   PROVE  TicksNotEarly
      OBVIOUS
    <2>2. /\ elapsed * increment = (elapsed + 0) * increment
          /\ elapsed \in Nat /\ start \in Nat /\ mtime \in Nat /\ increment \in Nat
      BY <2>1 DEF TypeInv
    <2>3. ASSUME NEW n \in Nat, Owed(n) <= mtime
          PROVE  (elapsed + n) * increment <= mtime - start
      <3>1. (elapsed + n) * increment \in Nat
        BY <2>2
      <3>2. start + (elapsed + n) * increment <= mtime
        BY <2>3 DEF Owed
      <3>3. QED
        BY <2>2, <3>1, <3>2
    <2>4. CASE frame["handler"].pc = "idle"
      BY <2>1, <2>2, <2>3, <2>4 DEF TickInv, TicksNotEarly
    <2>5. CASE frame["handler"].pc # "idle"
      BY <2>1, <2>3, <2>5 DEF TickInv, TicksNotEarly
    <2>6. QED
      BY <2>4, <2>5
  <1>3. QED
    BY <1>1, <1>2, TypeInit, ReadInit, ArmInit, TickInit, PTL DEF Spec

----------------------------------------------------------------------------
(***************************************************************************)
(* No tick is lost.  Outside the two stores that make it whole, the        *)
(* compare value is not later than what was asked for, so the comparator   *)
(* raises the interrupt in time.                                           *)
(***************************************************************************)
DueInv ==
    (\A t \in Threads : frame[t].pc \notin {"cmph", "cmpl"}) =>
        mtimecmp <= due /\ (mtime > due => interrupt)

LEMMA DueStep ==
    ASSUME TypeInv, ArmInv, DueInv, [Next]_vars, ~Reenables
    PROVE  DueInv'
  <1>1. mtime \in Nat /\ mtimecmp \in Nat /\ due \in Nat
    BY DEF TypeInv
  <1>2. ASSUME NEW access \in {"none", "read"}, NEW c, Clock(access, c), due' = due,
               \A t \in Threads : frame'[t].pc \notin {"cmph", "cmpl"} => frame[t].pc \notin {"cmph", "cmpl"}
        PROVE  DueInv'
    <2>1. /\ mtimecmp' = mtimecmp /\ mtime' = mtime + 1
          /\ mtime >= mtimecmp \/ interrupt => interrupt'
      BY <1>2 DEF Clock
    <2>2. SUFFICES ASSUME mtimecmp <= due
                   PROVE  mtimecmp' <= due' /\ (mtime' > due' => interrupt')
      BY <1>2 DEF DueInv
    <2>3. mtime' > due => mtime >= mtimecmp
      BY <1>1, <2>1, <2>2
    <2>4. QED
      BY <1>2, <2>1, <2>2, <2>3
  <1>3. ASSUME UNCHANGED <<mtime, mtimecmp, interrupt, due>>,
               \A t \in Threads : frame'[t].pc \notin {"cmph", "cmpl"} => frame[t].pc \notin {"cmph", "cmpl"}
        PROVE  DueInv'
    BY <1>3 DEF DueInv
  <1>4. CASE UNCHANGED vars \/ TimerDisable
    BY <1>3, <1>4 DEF vars, hardware, history, TimerDisable
  <1>5. CASE Wait
    BY <1>2, <1>5 DEF Wait, history
  <1>6. CASE TimerRead \/ Return \/ Unmask \/ Trap \/ CountUp \/ \E p \in Periods : TimerEnable(p)
    <2>1. UNCHANGED <<mtime, mtimecmp, interrupt, due>>
      BY <1>6, TimerReadStep, ReturnStep, UnmaskStep, TrapStep, CountUpStep, EnableStep
    <2>2. \A t \in Threads : frame'[t].pc \notin {"cmph", "cmpl"} => frame[t].pc \notin {"cmph", "cmpl"}
      <3>1. CASE Return
        BY <3>1, ReturnStep, IdleTyped DEF Return, At
      <3>2. CASE TimerRead \/ Unmask \/ Trap \/ CountUp \/ \E p \in Periods : TimerEnable(p)
        BY <3>2, TimerReadStep, UnmaskStep, TrapStep, CountUpStep, EnableStep, IdleTyped
      <3>3. QED
        BY <1>6, <3>1, <3>2
    <2>3. QED
      BY <1>3, <2>1, <2>2
  <1>7. ASSUME NEW t \in Threads, ReadHigh(t) \/ ReadLow(t) \/ ReadAgain(t)
        PROVE  DueInv'
    <2>1. /\ Clock("read", mtimecmp) /\ due' = due
          /\ frame[t].pc \in Reads
          /\ \A u \in Threads : u # t => frame'[u] = frame[u]
      BY <1>7, ReadHighStep, ReadLowStep, ReadAgainStep DEF Reads
    <2>2. QED
      BY <1>2, <2>1 DEF Reads
  <1>8. ASSUME NEW t \in Threads, Mask(t) \/ WriteHigh(t)
        PROVE  DueInv'
    BY <1>8, MaskStep, WriteHighStep DEF DueInv
  <1>9. ASSUME NEW t \in Threads, WriteLow(t)
        PROVE  DueInv'
    <2>1. /\ mtimecmp' = New(t) /\ mtime' = mtime + 1 /\ New(t) \in Nat
          /\ due' = IF New(t) > mtime THEN New(t) ELSE mtime + 1
      BY <1>9, WholeValue, WriteLowStep, NewTyped
    <2>2. mtimecmp' <= due' /\ ~(mtime' > due')
      BY <1>1, <2>1
    <2>3. QED
      BY <2>2 DEF DueInv
  <1>10. QED
    BY <1>4, <1>5, <1>6, <1>7, <1>8, <1>9, Steps

LEMMA DueInit == Init => DueInv
  BY DEF Init, DueInv

(* No tick is lost, for every period and width of the words, if software   *)
(* enables only a disabled timer.                                          *)
THEOREM NoTickIsLost ==
    ASSUME ~Reenables
    PROVE  Spec => []DueIsPending
  <1>1. TypeInv /\ ArmInv /\ DueInv /\ [Next]_vars => (TypeInv /\ ArmInv /\ DueInv)'
    BY TypeStep, ArmStep, DueStep
  <1>2. ArmInv /\ DueInv => DueIsPending
    BY DEF ArmInv, DueInv, DueIsPending, Writes
  <1>3. QED
    BY <1>1, <1>2, TypeInit, ArmInit, DueInit, PTL DEF Spec
=============================================================================

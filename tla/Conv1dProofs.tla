---------------------------- MODULE Conv1dProofs ----------------------------
(* Proofs about Conv1d, for every word size, kernel, length and sample set.  *)
EXTENDS Conv1d, TLAPS

\* A request as the CPU's actions build them.
Request(r) ==
    /\ r.op \in {"src", "dst"} => r.val \in Word
    /\ r.op = "length" => r.val \in Lengths
    /\ r.op = "kernel" => r.val \in 1 .. MaxKernel
    /\ r.op = "padding" => r.val \in BOOLEAN
    /\ r.op = "ctrl" => r.stream \in BOOLEAN /\ Lawful(r.go, r.reset)

----------------------------------------------------------------------------
(* Arithmetic and sequences.                                                *)

LEMMA Arithmetic ==
    ASSUME NEW a \in Word, NEW b \in Word
    PROVE  Add(a, b) \in Word /\ Sub(a, b) \in Word
  BY ConvAssumption DEF Add, Sub, Word

LEMMA SmallWords == 0 \in Word /\ 1 \in Word /\ 1 .. MaxKernel \subseteq Word
  BY ConvAssumption DEF Word

LEMMA LengthsAreWords == Lengths \subseteq Word
  BY ConvAssumption DEF Word

\* What appending does to a history.
LEMMA Appended ==
    ASSUME NEW S, NEW s \in Seq(S), NEW x \in S
    PROVE  /\ Append(s, x) \in Seq(S)
           /\ Len(Append(s, x)) = Len(s) + 1
           /\ Append(s, x)[Len(s) + 1] = x
           /\ \A i \in 1 .. Len(s) : Append(s, x)[i] = s[i]
  OBVIOUS

LEMMA TapsTyped ==
    ASSUME shift \in Taps, NEW x \in Samples
    PROVE  NoTaps \in Taps /\ Shifted(x) \in Taps /\ Product(x) \in Taps
  <1>1. NoTaps \in Taps
    BY ConvAssumption DEF NoTaps, Taps
  <1>2. \A k \in Tap : k # 0 => k - 1 \in Tap
    BY ConvAssumption DEF Tap
  <1>3. Shifted(x) \in Taps
    BY <1>2 DEF Shifted, Taps
  <1>4. Product(x) \in Taps
    BY <1>3, ConvAssumption DEF Product, Taps
  <1>5. QED
    BY <1>1, <1>3, <1>4

----------------------------------------------------------------------------
(* Types.                                                                   *)

Read == [addr : Word, sample : Samples]
Out == [sink : {"memory", "stream"}, at : Word, taps : Taps, last : BOOLEAN]
Job == [src : Word, dst : Word, len : Lengths \cup {0}, kernel : 1 .. MaxKernel,
        same : BOOLEAN, mode : BOOLEAN]

RegistersOK ==
    /\ src_addr \in Word /\ dst_addr \in Word /\ length \in Lengths \cup {0}
    /\ kernel_size \in 1 .. MaxKernel
    /\ same \in BOOLEAN /\ mode \in BOOLEAN

WorkingOK ==
    /\ state \in {"IDLE"} \cup Active /\ busy \in BOOLEAN /\ done \in BOOLEAN
    /\ cur_src \in Word /\ cur_dst \in Word /\ fill_count \in Word
    /\ wr_remaining \in Word /\ pe_result \in Taps

HistoryOK ==
    /\ job \in Job /\ reads \in Seq(Read) /\ outs \in Seq(Out)
    /\ quiet \in BOOLEAN /\ clean \in BOOLEAN

LEMMA TypeParts == TypeOK <=> RegistersOK /\ WorkingOK /\ shift \in Taps /\ HistoryOK
  BY DEF TypeOK, RegistersOK, WorkingOK, HistoryOK, Job, Read, Out

LEMMA RegistersStep ==
    ASSUME RegistersOK, NEW r, Request(r), Registers(r)
    PROVE  RegistersOK'
  BY DEF RegistersOK, Request, Registers, Written

LEMMA ShiftStep ==
    ASSUME shift \in Taps, NEW r, NEW loads, NEW x \in Samples, ShiftReg(r, loads, x)
    PROVE  shift' \in Taps
  BY TapsTyped DEF ShiftReg

LEMMA GotoTypes ==
    ASSUME WorkingOK, shift \in Taps, HistoryOK, NEW r, NEW s \in {"IDLE"} \cup Active,
           Goto(s, r), Noted(r)
    PROVE  WorkingOK' /\ shift' \in Taps /\ HistoryOK'
  <1>1. shift' \in Taps
    BY ShiftStep, ConvAssumption DEF Goto
  <1>2. busy' \in BOOLEAN /\ done' \in BOOLEAN /\ quiet' \in BOOLEAN /\ clean' \in BOOLEAN
    BY DEF Goto, Status, Noted
  <1>3. fill_count' \in Word /\ wr_remaining' \in Word
    BY SmallWords DEF Goto, Fill, Remaining, WorkingOK
  <1>4. QED
    BY <1>1, <1>2, <1>3 DEF Goto, Noted, WorkingOK, HistoryOK

LEMMA StartTypes ==
    ASSUME RegistersOK, WorkingOK, shift \in Taps, HistoryOK, NEW r, Request(r),
           r.op = "ctrl", Start(r)
    PROVE  WorkingOK' /\ shift' \in Taps /\ HistoryOK'
  <1>1. shift' \in Taps
    BY ShiftStep, ConvAssumption DEF Start, Begin
  <1>2. length \in Word /\ kernel_size \in Word
    BY LengthsAreWords, SmallWords DEF RegistersOK
  <1>3. Results \in Word /\ Sub(kernel_size, 1) \in Word
    BY <1>2, SmallWords, Arithmetic DEF Results
  <1>4. job' \in Job
    BY DEF Start, Begin, Request, Job, RegistersOK
  <1>5. WorkingOK'
    BY <1>3, SmallWords DEF Start, Begin, WorkingOK, RegistersOK, Active
  <1>6. HistoryOK'
    <2>1. reads' = <<>> /\ outs' = <<>> /\ quiet' = TRUE /\ clean' = FALSE
      BY DEF Start, Begin
    <2>2. reads' \in Seq(Read) /\ outs' \in Seq(Out)
      BY <2>1
    <2>3. quiet' \in BOOLEAN /\ clean' \in BOOLEAN
      BY <2>1
    <2>4. QED
      BY <1>4, <2>2, <2>3 DEF HistoryOK
  <1>7. QED
    BY <1>1, <1>5, <1>6

LEMMA LoadedTypes ==
    ASSUME WorkingOK, shift \in Taps, HistoryOK, NEW r, NEW x \in Samples, NEW more,
           Loaded(r, x, more), Noted(r)
    PROVE  WorkingOK' /\ shift' \in Taps /\ HistoryOK'
  <1>1. shift' \in Taps /\ pe_result' \in Taps
    BY ShiftStep, TapsTyped DEF Loaded
  <1>2. fill_count' \in Word /\ cur_src' \in Word /\ wr_remaining' \in Word
    BY Arithmetic, SmallWords DEF Loaded, WorkingOK, Remaining
  <1>3. busy' \in BOOLEAN /\ done' \in BOOLEAN /\ state' \in Active /\ cur_dst' \in Word
    BY DEF Loaded, Status, Active, WorkingOK
  <1>4. WorkingOK'
    BY <1>1, <1>2, <1>3 DEF WorkingOK
  <1>5. [addr |-> cur_src, sample |-> x] \in Read
    BY DEF Read, WorkingOK
  <1>6. reads' \in Seq(Read) /\ outs' \in Seq(Out)
    BY <1>5, Appended DEF Loaded, HistoryOK
  <1>7. HistoryOK'
    BY <1>6 DEF Noted, HistoryOK
  <1>8. QED
    BY <1>1, <1>4, <1>7

LEMMA PutOutTypes ==
    ASSUME WorkingOK, shift \in Taps, HistoryOK, NEW r, NEW sink \in {"memory", "stream"},
           NEW at \in Word, NEW last \in BOOLEAN, PutOut(r, sink, at, last),
           cur_dst' \in Word, Noted(r)
    PROVE  WorkingOK' /\ shift' \in Taps /\ HistoryOK'
  <1>1. shift' \in Taps
    BY ShiftStep, ConvAssumption DEF PutOut
  <1>2. fill_count' \in Word /\ wr_remaining' \in Word
    BY Arithmetic, SmallWords DEF PutOut, WorkingOK, Fill
  <1>3. busy' \in BOOLEAN /\ done' \in BOOLEAN /\ state' \in {"IDLE"} \cup Active
    BY DEF PutOut, Status, Active, WorkingOK
  <1>4. WorkingOK'
    BY <1>2, <1>3 DEF WorkingOK, PutOut
  <1>5. [sink |-> sink, at |-> at, taps |-> pe_result, last |-> last] \in Out
    BY DEF Out, WorkingOK
  <1>6. outs' \in Seq(Out) /\ reads' \in Seq(Read)
    BY <1>5, Appended DEF PutOut, HistoryOK
  <1>7. HistoryOK'
    BY <1>6 DEF Noted, HistoryOK
  <1>8. QED
    BY <1>1, <1>4, <1>7

LEMMA FsmTypes ==
    ASSUME TypeOK, NEW r, Request(r), NEW ok \in BOOLEAN, NEW x \in Samples, Fsm(r, ok, x)
    PROVE  WorkingOK' /\ shift' \in Taps /\ HistoryOK'
  <1>1. RegistersOK /\ WorkingOK /\ shift \in Taps /\ HistoryOK
    BY TypeParts
  <1>2. CASE Go(r) /\ Start(r)
    BY <1>1, <1>2, StartTypes DEF Go
  <1>3. CASE StartEmpty(r) /\ Noted(r)
    <2>1. shift' \in Taps
      BY <1>1, <1>3, ShiftStep, ConvAssumption DEF StartEmpty
    <2>2. fill_count' \in Word /\ wr_remaining' \in Word
      BY <1>1, <1>3, SmallWords DEF StartEmpty, Fill, Remaining, WorkingOK
    <2>3. busy' \in BOOLEAN
      BY <1>3 DEF StartEmpty
    <2>4. WorkingOK'
      BY <1>1, <1>3, <2>2, <2>3 DEF StartEmpty, WorkingOK
    <2>5. HistoryOK'
      BY <1>1, <1>3 DEF StartEmpty, Noted, HistoryOK
    <2>6. QED
      BY <2>1, <2>4, <2>5
  <1>4. ASSUME NEW from \in {"IDLE"} \cup Active, NEW to \in {"IDLE"} \cup Active, NEW b,
               Await(from, to, r, b), Noted(r)
        PROVE  WorkingOK' /\ shift' \in Taps /\ HistoryOK'
    BY <1>1, <1>4, GotoTypes DEF Await
  <1>5. CASE Goto("IDLE", r) /\ Noted(r)
    BY <1>1, <1>5, GotoTypes
  <1>6. CASE RdWait(r, ok, x) /\ Noted(r)
    BY <1>1, <1>6, LoadedTypes DEF RdWait
  <1>7. CASE WrWait(r, ok) /\ Noted(r)
    <2>1. cur_dst' \in Word /\ cur_dst \in Word
      BY <1>1, <1>7, Arithmetic, SmallWords DEF WrWait, WorkingOK
    <2>2. QED
      BY <1>1, <1>7, <2>1, PutOutTypes DEF WrWait
  <1>8. CASE StreamOut(r, ok) /\ Noted(r)
    <2>1. cur_dst' \in Word
      BY <1>1, <1>8 DEF StreamOut, WorkingOK
    <2>2. QED
      BY <1>1, <1>8, <2>1, SmallWords, PutOutTypes DEF StreamOut
  <1>9. CASE Busy(r, ok, x) /\ Noted(r)
    BY <1>4, <1>6, <1>7, <1>8, <1>9 DEF Busy, Active
  <1>10. QED
    BY <1>2, <1>3, <1>5, <1>9 DEF Fsm

\* Every step is a clock cycle with a request that software may make.
LEMMA NextIsCycle ==
    ASSUME Next
    PROVE  \E r : Request(r) /\ Cycle(r)
  <1>1. CASE NoWrite
    <2>1. Request([op |-> "none"])
      BY DEF Request
    <2>2. QED
      BY <1>1, <2>1 DEF NoWrite
  <1>2. ASSUME NEW reg \in {"src", "dst"}, NEW v \in Word, Write(reg, v)
        PROVE  \E r : Request(r) /\ Cycle(r)
    <2>1. Request([op |-> reg, val |-> v])
      BY DEF Request
    <2>2. QED
      BY <1>2, <2>1 DEF Write
  <1>3. ASSUME NEW v \in Lengths, Write("length", v) PROVE \E r : Request(r) /\ Cycle(r)
    <2>1. Request([op |-> "length", val |-> v])
      BY DEF Request
    <2>2. QED
      BY <1>3, <2>1 DEF Write
  <1>4. ASSUME NEW v \in Kernels, Write("kernel", v) PROVE \E r : Request(r) /\ Cycle(r)
    <2>1. Request([op |-> "kernel", val |-> v])
      BY ConvAssumption DEF Request
    <2>2. QED
      BY <1>4, <2>1 DEF Write
  <1>5. ASSUME NEW b \in BOOLEAN, Write("padding", b) PROVE \E r : Request(r) /\ Cycle(r)
    <2>1. Request([op |-> "padding", val |-> b])
      BY DEF Request
    <2>2. QED
      BY <1>5, <2>1 DEF Write
  <1>6. ASSUME NEW go \in BOOLEAN, NEW reset \in BOOLEAN, NEW stream \in BOOLEAN,
               WriteCtrl(go, reset, stream)
        PROVE  \E r : Request(r) /\ Cycle(r)
    <2>1. Request([op |-> "ctrl", go |-> go, reset |-> reset, stream |-> stream])
      BY <1>6 DEF Request, WriteCtrl
    <2>2. QED
      BY <1>6, <2>1 DEF WriteCtrl
  <1>7. QED
    BY <1>1, <1>2, <1>3, <1>4, <1>5, <1>6, ConvAssumption DEF Next

LEMMA CycleInputs ==
    ASSUME NEW r, Cycle(r)
    PROVE  \E ok \in BOOLEAN, x \in Samples : Registers(r) /\ Fsm(r, ok, x)
  <1>1. PICK ok \in Handshakes, x \in ReadSamples : Registers(r) /\ Fsm(r, ok, x)
    BY DEF Cycle
  <1>2. ok \in BOOLEAN /\ x \in Samples
    BY ConvAssumption DEF Handshakes, ReadSamples
  <1>3. QED
    BY <1>1, <1>2

LEMMA TypeStep == TypeOK /\ [Next]_vars => TypeOK'
  <1> SUFFICES ASSUME TypeOK, [Next]_vars PROVE TypeOK'
    OBVIOUS
  <1>1. CASE Next
    <2>0. PICK r : Request(r) /\ Cycle(r)
      BY <1>1, NextIsCycle
    <2>1. PICK ok \in BOOLEAN, x \in Samples : Registers(r) /\ Fsm(r, ok, x)
      BY <2>0, CycleInputs
    <2>2. RegistersOK'
      BY <2>0, <2>1, RegistersStep, TypeParts
    <2>3. WorkingOK' /\ shift' \in Taps /\ HistoryOK'
      BY <2>0, <2>1, FsmTypes
    <2>4. QED
      BY <2>2, <2>3 DEF TypeOK, RegistersOK, WorkingOK, HistoryOK, Job, Read, Out
  <1>2. CASE UNCHANGED vars
    BY <1>2 DEF vars, config, status, working, history, TypeOK, Sample
  <1>3. QED
    BY <1>1, <1>2

LEMMA TypeInit == Init => TypeOK
  <1> SUFFICES ASSUME Init PROVE TypeOK
    OBVIOUS
  <1>1. NoTaps \in Taps
    BY ConvAssumption DEF NoTaps, Taps
  <1>2. 1 \in 1 .. MaxKernel /\ 0 \in Word
    BY ConvAssumption DEF Word
  <1>3. job \in Job
    BY <1>2 DEF Init, Job
  <1>4. RegistersOK /\ WorkingOK
    BY <1>1, <1>2 DEF Init, RegistersOK, WorkingOK
  <1>5. quiet = TRUE /\ clean = TRUE /\ reads = <<>> /\ outs = <<>> /\ shift \in Taps
    BY <1>1 DEF Init
  <1>6. QED
    BY <1>3, <1>4, <1>5, TypeParts DEF HistoryOK

\* The registers keep their types for every software, also one that keeps to
\* no rule and resets the engine in the middle of a transfer.
THEOREM TypeCorrect == Spec => []TypeOK
  BY TypeInit, TypeStep, PTL DEF Spec

----------------------------------------------------------------------------
(* Status and results, for software that cuts no transfer off.              *)

\* A SOFT_RESET finds the engine idle.
LEMMA ResetIdle ==
    ASSUME "patient" \in Rules, NEW r, Request(r), SoftReset(r)
    PROVE  ~busy
  BY DEF Request, Lawful, SoftReset

LEMMA PutOutStatus ==
    ASSUME "patient" \in Rules, StatusCoherent, NEW r, Request(r), state # "IDLE",
           NEW sink, NEW at, NEW last, PutOut(r, sink, at, last)
    PROVE  StatusCoherent'
  <1>1. busy = TRUE /\ done = FALSE /\ ~SoftReset(r)
    BY ResetIdle DEF StatusCoherent
  <1>2. CASE state' = "IDLE" /\ busy' = FALSE /\ done' = TRUE
    BY <1>2 DEF StatusCoherent
  <1>3. CASE state' = "RD_REQ" /\ Status(r)
    BY <1>1, <1>3 DEF StatusCoherent, Status
  <1>4. QED
    BY <1>2, <1>3 DEF PutOut

LEMMA KeptStatus ==
    ASSUME "patient" \in Rules, StatusCoherent, NEW r, Request(r), Status(r),
           state' = "IDLE" <=> state = "IDLE"
    PROVE  StatusCoherent'
  <1>1. SoftReset(r) => ~busy
    BY ResetIdle
  <1>2. QED
    BY <1>1 DEF StatusCoherent, Status

LEMMA StatusStep ==
    ASSUME "patient" \in Rules, StatusCoherent, NEW r, Request(r),
           NEW ok \in BOOLEAN, NEW x, Fsm(r, ok, x)
    PROVE  StatusCoherent'
  <1>1. CASE Start(r)
    BY <1>1 DEF Start, Begin, StatusCoherent
  <1>2. CASE state = "IDLE" /\ Go(r) /\ StartEmpty(r)
    BY <1>2 DEF StartEmpty, Go, StatusCoherent
  <1>3. ASSUME NEW s, Goto(s, r), s = "IDLE" <=> state = "IDLE"
        PROVE  StatusCoherent'
    BY <1>3, KeptStatus DEF Goto
  <1>4. ASSUME NEW from \in Active, NEW to \in Active, NEW b, Await(from, to, r, b)
        PROVE  StatusCoherent'
    BY <1>3, <1>4 DEF Await, Active
  <1>5. CASE RdWait(r, ok, x)
    BY <1>5, KeptStatus DEF RdWait, Loaded
  <1>6. CASE WrWait(r, ok)
    BY <1>6, PutOutStatus DEF WrWait
  <1>7. CASE StreamOut(r, ok)
    BY <1>7, PutOutStatus DEF StreamOut
  <1>8. CASE Busy(r, ok, x)
    BY <1>4, <1>5, <1>6, <1>7, <1>8 DEF Busy, Active
  <1>9. QED
    BY <1>1, <1>2, <1>3, <1>8 DEF Fsm

\* BUSY follows the FSM and excludes DONE for every software that never writes
\* SOFT_RESET during a transfer; the length may be below the kernel size.
THEOREM StatusIsCoherent == ASSUME "patient" \in Rules PROVE Spec => []StatusCoherent
  <1>1. Init => StatusCoherent
    BY DEF Init, StatusCoherent
  <1>2. StatusCoherent /\ [Next]_vars => StatusCoherent'
    <2> SUFFICES ASSUME StatusCoherent, [Next]_vars PROVE StatusCoherent'
      OBVIOUS
    <2>1. CASE Next
      BY <2>1, NextIsCycle, CycleInputs, StatusStep
    <2>2. CASE UNCHANGED vars
      BY <2>2 DEF vars, status, StatusCoherent
    <2>3. QED
      BY <2>1, <2>2
  <1>3. QED
    BY <1>1, <1>2, PTL DEF Spec

\* A length of 0 starts no transfer, and one that starts has a result.
Counted == ResultsCounted /\ (job.len > 0 => OutLength >= 1)

LEMMA OutLengthBounded ==
    ASSUME TypeOK
    PROVE  OutLength \in Int /\ OutLength <= job.len /\ job.len \in Nat /\ job.len < Words
  <1>1. job.len \in Lengths \cup {0} /\ job.kernel \in 1 .. MaxKernel
    BY DEF TypeOK
  <1>2. job.len \in Nat /\ job.len < Words /\ job.kernel \in Nat /\ job.kernel >= 1
    <2>1. Words \in Nat /\ MaxKernel \in Nat /\ Words > MaxKernel
      BY ConvAssumption
    <2>2. job.len \in 0 .. Words - MaxKernel - 1 \/ job.len = 0
      BY <1>1, ConvAssumption
    <2>3. QED
      BY <1>1, <2>1, <2>2
  <1>3. QED
    BY <1>2 DEF OutLength

LEMMA StartCounts ==
    ASSUME "fits" \in Rules, TypeOK, NEW r, Request(r), Go(r), Start(r)
    PROVE  Counted'
  <1> DEFINE n == length  k == kernel_size
  <1>1. /\ n \in Nat /\ n > 0 /\ n + MaxKernel < Words
        /\ k \in Nat /\ k > 0 /\ k <= MaxKernel
        /\ MaxKernel \in Nat /\ Words \in Nat
    BY ConvAssumption DEF TypeOK, Word, Start, Begin
  <1>2. ~same => n >= k
    BY <1>1 DEF Request, Lawful, Go
  <1>3. Results = (IF same THEN n ELSE n - k + 1)
    BY <1>1, <1>2 DEF Results, Add, Sub
  <1>4. job'.len = n /\ job'.kernel = k /\ job'.same = same
    BY DEF Start, Begin
  <1>5. OutLength' = Results
    BY <1>3, <1>4 DEF OutLength
  <1>6. OutLength' \in Nat /\ OutLength' >= 1
    BY <1>1, <1>2, <1>3, <1>5
  <1>7. busy' = TRUE /\ wr_remaining' = OutLength' /\ outs' = <<>>
    BY <1>5 DEF Start, Begin
  <1>8. Len(outs') = 0
    BY <1>7
  <1>9. ResultsCounted'
    <2>1. busy' => wr_remaining' \in 1 .. OutLength'
      BY <1>6, <1>7
    <2>2. Len(outs') = (IF job'.len = 0 THEN 0 ELSE OutLength')
                         - (IF busy' THEN wr_remaining' ELSE 0)
      <3>1. job'.len # 0
        BY <1>1, <1>4
      <3>2. OutLength' - wr_remaining' = 0
        <4>1. \A i \in Nat : i - i = 0
          OBVIOUS
        <4>2. wr_remaining' = OutLength'
          BY <1>7
        <4>3. QED
          BY <1>6, <4>1, <4>2
      <3>3. QED
        BY <1>7, <1>8, <3>1, <3>2
    <2>3. 1 .. Len(outs') = {}
      BY <1>8
    <2>4. QED
      BY <2>1, <2>2, <2>3 DEF ResultsCounted
  <1>10. QED
    BY <1>6, <1>9 DEF Counted

\* Steps that put nothing out and reset nothing.
LEMMA KeptCount ==
    ASSUME Counted, UNCHANGED <<busy, outs, job>>, busy => wr_remaining' = wr_remaining
    PROVE  Counted'
  <1>1. OutLength' = OutLength
    BY DEF OutLength
  <1>2. QED
    BY <1>1 DEF Counted, ResultsCounted

LEMMA StatusKept ==
    ASSUME "patient" \in Rules, TypeOK, NEW r, Request(r), Status(r), Remaining(r)
    PROVE  busy' = busy /\ (busy => wr_remaining' = wr_remaining)
  <1>1. SoftReset(r) => ~busy
    BY ResetIdle
  <1>2. QED
    BY <1>1 DEF Status, Remaining, TypeOK

LEMMA PutOutCounts ==
    ASSUME "patient" \in Rules, TypeOK, Counted, busy, NEW r, Request(r),
           NEW sink \in {"memory", "stream"}, NEW at \in Word, NEW last \in BOOLEAN,
           PutOut(r, sink, at, last), UNCHANGED job,
           sink = "stream" => (last <=> wr_remaining = 1)
    PROVE  Counted'
  <1> DEFINE out == [sink |-> sink, at |-> at, taps |-> pe_result, last |-> last]
  <1>1. OutLength' = OutLength
    BY DEF OutLength
  <1>2. /\ wr_remaining \in 1 .. OutLength /\ OutLength \in Int
        /\ Len(outs) \in Nat /\ outs \in Seq(Out) /\ out \in Out
        /\ OutLength <= job.len /\ job.len < Words /\ job.len \in Nat
    BY OutLengthBounded DEF Counted, ResultsCounted, TypeOK, Out
  <1>3. job.len # 0 /\ Len(outs) = OutLength - wr_remaining
    BY <1>2 DEF Counted, ResultsCounted
  <1>4. outs' = Append(outs, out)
    BY <1>2, <1>3 DEF PutOut
  <1>5. /\ Len(outs') = Len(outs) + 1
        /\ \A i \in 1 .. Len(outs) : outs'[i] = outs[i]
        /\ outs'[Len(outs) + 1] = out
    BY <1>2, <1>4, Appended
  <1>6. wr_remaining' = wr_remaining - 1
    BY <1>2 DEF PutOut, Sub
  <1>7. busy' <=> wr_remaining # 1
    <2>1. CASE wr_remaining = 1 /\ busy' = FALSE
      BY <2>1
    <2>2. CASE wr_remaining # 1 /\ Status(r)
      BY <2>2, ResetIdle DEF Status
    <2>3. QED
      BY <2>1, <2>2 DEF PutOut
  <1>8. busy' => wr_remaining' \in 1 .. OutLength'
    <2> SUFFICES ASSUME busy' PROVE wr_remaining' \in 1 .. OutLength'
      OBVIOUS
    <2>1. wr_remaining # 1
      BY <1>7
    <2>2. QED
      BY <1>1, <1>2, <1>6, <2>1
  <1>9. Len(outs') = (IF job'.len = 0 THEN 0 ELSE OutLength')
                       - (IF busy' THEN wr_remaining' ELSE 0)
    <2>1. CASE busy'
      <3>1. wr_remaining # 1
        BY <1>7, <2>1
      <3>2. Len(outs') = OutLength' - wr_remaining'
        BY <1>1, <1>2, <1>3, <1>5, <1>6
      <3>3. QED
        BY <1>3, <2>1, <3>2
    <2>2. CASE ~busy'
      <3>1. wr_remaining = 1
        BY <1>7, <2>2
      <3>2. Len(outs') = OutLength' /\ OutLength' \in Int
        BY <1>1, <1>2, <1>3, <1>5, <3>1
      <3>3. \A n \in Int : n - 0 = n
        OBVIOUS
      <3>4. job'.len # 0
        BY <1>3
      <3>5. QED
        BY <2>2, <3>2, <3>3, <3>4
    <2>3. QED
      BY <2>1, <2>2
  <1>10. \A i \in 1 .. Len(outs') : outs'[i].sink = "stream" => (outs'[i].last <=> i = OutLength')
    <2> SUFFICES ASSUME NEW i \in 1 .. Len(outs'), outs'[i].sink = "stream"
                 PROVE  outs'[i].last <=> i = OutLength'
      OBVIOUS
    <2>1. CASE i \in 1 .. Len(outs)
      <3>1. outs[i].sink = "stream" /\ outs'[i] = outs[i]
        BY <1>5, <2>1
      <3>2. QED
        BY <1>1, <2>1, <3>1 DEF Counted, ResultsCounted
    <2>2. CASE i = Len(outs) + 1
      <3>1. outs'[i] = out
        BY <1>5, <2>2
      <3>2. (wr_remaining = 1) <=> (i = OutLength')
        BY <1>1, <1>2, <1>3, <2>2
      <3>3. QED
        BY <3>1, <3>2
    <2>3. QED
      BY <1>2, <1>5, <2>1, <2>2
  <1>11. QED
    BY <1>1, <1>8, <1>9, <1>10 DEF Counted, ResultsCounted

LEMMA CountStep ==
    ASSUME "patient" \in Rules, "fits" \in Rules, TypeOK, StatusCoherent, Counted,
           NEW r, Request(r), NEW ok \in BOOLEAN, NEW x \in Samples, Fsm(r, ok, x)
    PROVE  Counted'
  <1>1. CASE Go(r) /\ Start(r)
    BY <1>1, StartCounts
  <1>2. CASE state = "IDLE" /\ StartEmpty(r) /\ Noted(r)
    <2>1. ~busy /\ ~busy'
      BY <1>2 DEF StartEmpty, StatusCoherent
    <2>2. UNCHANGED <<busy, outs, job>>
      BY <1>2, <2>1 DEF StartEmpty, Noted, TypeOK
    <2>3. QED
      BY <2>1, <2>2, KeptCount
  <1>3. ASSUME NEW s, Goto(s, r), Noted(r)
        PROVE  Counted'
    BY <1>3, StatusKept, KeptCount DEF Goto, Noted
  <1>4. CASE RdWait(r, ok, x) /\ Noted(r)
    BY <1>4, StatusKept, KeptCount DEF RdWait, Loaded, Noted
  <1>5. CASE WrWait(r, ok) /\ Noted(r)
    <2>1. busy /\ cur_dst \in Word
      BY <1>5 DEF WrWait, StatusCoherent, TypeOK
    <2>2. PutOut(r, "memory", cur_dst, FALSE) /\ UNCHANGED job
      BY <1>5 DEF WrWait, Noted
    <2>3. QED
      BY <2>1, <2>2, PutOutCounts
  <1>6. CASE StreamOut(r, ok) /\ Noted(r)
    <2>1. busy /\ 0 \in Word /\ (wr_remaining = 1) \in BOOLEAN
      BY <1>6, SmallWords DEF StreamOut, StatusCoherent
    <2>2. PutOut(r, "stream", 0, wr_remaining = 1) /\ UNCHANGED job
      BY <1>6 DEF StreamOut, Noted
    <2>3. QED
      BY <2>1, <2>2, PutOutCounts
  <1>7. CASE Busy(r, ok, x) /\ Noted(r)
    BY <1>3, <1>4, <1>5, <1>6, <1>7 DEF Busy, Await
  <1>8. QED
    BY <1>1, <1>2, <1>3, <1>7 DEF Fsm

LEMMA CountInit == Init => Counted
  BY DEF Init, Counted, ResultsCounted

LEMMA CountedAlways ==
    ASSUME "patient" \in Rules, "fits" \in Rules
    PROVE  Spec => []Counted
  <1>1. TypeOK /\ StatusCoherent /\ Counted /\ [Next]_vars => Counted'
    <2> SUFFICES ASSUME TypeOK, StatusCoherent, Counted, [Next]_vars PROVE Counted'
      OBVIOUS
    <2>1. CASE Next
      BY <2>1, NextIsCycle, CycleInputs, CountStep
    <2>2. CASE UNCHANGED vars
      BY <2>2, KeptCount DEF vars, status, working, history
    <2>3. QED
      BY <2>1, <2>2
  <1>2. QED
    BY <1>1, CountInit, TypeCorrect, StatusIsCoherent, PTL DEF Spec

\* Every transfer has exactly its number of results, with TLAST on the last,
\* whatever software writes meanwhile except a SOFT_RESET, for every length
\* that fits the kernel.
THEOREM ResultsAreCounted ==
    ASSUME "patient" \in Rules, "fits" \in Rules
    PROVE  Spec => []ResultsCounted
  <1>1. Counted => ResultsCounted
    BY DEF Counted
  <1>2. QED
    BY <1>1, CountedAlways, PTL

----------------------------------------------------------------------------
(* The samples and results of a transfer.                                    *)

(* The inductive invariant says what the registers hold in a transfer during *)
(* which software has left CTRL and KERNEL_SIZE alone.                       *)

\* Every counter is determined by the histories, and the shift register holds
\* the last samples.
CountersFlow ==
    quiet /\ busy =>
        /\ kernel_size = job.kernel
        /\ mode = job.mode
        /\ cur_src = Add(job.src, Len(reads))
        /\ ~job.mode => cur_dst = Add(job.dst, Len(outs))
        /\ fill_count = Len(reads) + (IF job.same THEN job.kernel - 1 ELSE 0)

ShiftFlow ==
    /\ quiet /\ busy =>
         \A k \in Tap : job.same \/ k < Len(reads) => shift[k] = Sample(Len(reads) - k)
    /\ clean => shift = NoTaps

\* How far the reads are ahead of the results.
Reading ==
    quiet /\ state \in {"RD_REQ", "RD_WAIT"} =>
        /\ Len(reads) < First + Len(outs)
        /\ Len(outs) > 0 => Len(reads) = First + Len(outs) - 1

\* The result on its way out is the window at the last sample.
Writing ==
    quiet /\ state \in OutStates =>
        /\ Len(reads) = First + Len(outs)
        /\ pe_result = Window(Len(reads))
        /\ job.mode <=> state = "STREAM_OUT"

Flow == CountersFlow /\ ShiftFlow /\ Reading /\ Writing

FlowInv == Flow /\ ConvCorrect /\ BuffersRespected

Strong == TypeOK /\ StatusCoherent /\ Counted

----------------------------------------------------------------------------
(* Arithmetic of a transfer.                                                *)

LEMMA AddNext ==
    ASSUME NEW a \in Word, NEW n \in Nat, n + 1 < Words
    PROVE  /\ Add(Add(a, n), 1) = Add(a, n + 1)
           /\ Add(n, 1) = n + 1 /\ Add(a, 0) = a
  BY ConvAssumption DEF Add, Word

\* In a transfer the samples and the results fit together.
LEMMA Numbers ==
    ASSUME TypeOK, Counted
    PROVE  /\ job.len \in Nat /\ job.len + MaxKernel < Words
           /\ job.kernel \in 1 .. MaxKernel /\ MaxKernel \in Nat /\ Words \in Nat
           /\ First \in Nat /\ First >= 1 /\ OutLength = job.len + 1 - First
           /\ job.same => First = 1
           /\ ~job.same => First = job.kernel
           /\ busy => /\ wr_remaining \in 1 .. OutLength
                       /\ job.len > 0 /\ Len(outs) = OutLength - wr_remaining
           /\ Len(outs) \in Nat /\ Len(reads) \in Nat
  <1>1. job.len \in Lengths \cup {0} /\ job.kernel \in 1 .. MaxKernel /\ job.same \in BOOLEAN
    BY DEF TypeOK
  <1>2. Words \in Nat /\ MaxKernel \in Nat /\ Words > MaxKernel
    BY ConvAssumption
  <1>3. job.len \in 0 .. Words - MaxKernel - 1 \/ job.len = 0
    BY <1>1, ConvAssumption
  <1>4. job.len \in Nat /\ job.len + MaxKernel < Words
    BY <1>2, <1>3
  <1>5. First \in Nat /\ First >= 1 /\ OutLength = job.len + 1 - First
    BY <1>1, <1>2, <1>4 DEF First, OutLength
  <1>6. Len(outs) \in Nat /\ Len(reads) \in Nat
    BY DEF TypeOK
  <1>7. ASSUME busy
        PROVE  /\ wr_remaining \in 1 .. OutLength
               /\ job.len > 0 /\ Len(outs) = OutLength - wr_remaining
    <2>1. wr_remaining \in 1 .. OutLength
      BY <1>7 DEF Counted, ResultsCounted
    <2>2. Len(outs) = (IF job.len = 0 THEN 0 ELSE OutLength) - wr_remaining
      BY <1>7 DEF Counted, ResultsCounted
    <2>3. wr_remaining \in Nat /\ wr_remaining >= 1
      BY <1>4, <1>5, <2>1
    <2>4. job.len # 0
      <3> SUFFICES ASSUME job.len = 0 PROVE FALSE
        OBVIOUS
      <3>1. Len(outs) = 0 - wr_remaining
        BY <2>2
      <3>2. QED
        BY <1>6, <2>3, <3>1
    <2>5. QED
      BY <1>4, <2>1, <2>2, <2>4
  <1>8. QED
    BY <1>1, <1>2, <1>4, <1>5, <1>6, <1>7 DEF First

\* Sample and Window, of a given history and configuration.
SampleIn(s, m) == IF m >= 1 THEN s[m].sample ELSE 0
WindowIn(s, j, m) == [k \in Tap |-> IF k < j.kernel THEN SampleIn(s, m - k) ELSE 0]

LEMMA SampleIs == \A m : Sample(m) = SampleIn(reads, m) /\ Window(m) = WindowIn(reads, job, m)
  BY DEF Sample, Window, SampleIn, WindowIn

LEMMA WindowStays ==
    ASSUME NEW s, NEW t, NEW j, NEW m \in Int, \A i \in 1 .. m : t[i] = s[i]
    PROVE  WindowIn(t, j, m) = WindowIn(s, j, m)
  <1>1. ASSUME NEW k \in Tap PROVE SampleIn(t, m - k) = SampleIn(s, m - k)
    BY ConvAssumption DEF SampleIn, Tap
  <1>2. QED
    BY <1>1 DEF WindowIn

LEMMA WindowByTaps ==
    ASSUME NEW s, NEW j, NEW m, NEW f, \A k \in Tap : k < j.kernel => f[k] = SampleIn(s, m - k)
    PROVE  WindowIn(s, j, m) = [k \in Tap |-> IF k < j.kernel THEN f[k] ELSE 0]
  BY DEF WindowIn

\* Correct results, in these terms.
LEMMA ConvIs ==
    ConvCorrect <=>
        (quiet => \A i \in 1 .. Len(outs) : outs[i].taps = WindowIn(reads, job, First + i - 1))
  BY SampleIs DEF ConvCorrect

\* While a transfer goes on quietly, software has not touched what it reads live.
LEMMA QuietCycle ==
    ASSUME StatusCoherent, NEW r, Registers(r), Noted(r), state # "IDLE", quiet'
    PROVE  /\ quiet /\ busy /\ ~SoftReset(r)
           /\ kernel_size' = kernel_size /\ mode' = mode /\ job' = job
  <1>1. busy
    BY DEF StatusCoherent
  <1>2. quiet /\ r.op # "ctrl" /\ r.op # "kernel"
    BY <1>1 DEF Noted
  <1>3. QED
    BY <1>1, <1>2 DEF SoftReset, Registers, Written, Noted

\* Of a transfer that software has disturbed only the shift register matters.
LEMMA Disturbed ==
    ASSUME ~quiet', ~clean'
    PROVE  FlowInv'
  BY DEF FlowInv, Flow, CountersFlow, ShiftFlow, Reading, Writing, ConvCorrect, BuffersRespected

----------------------------------------------------------------------------
(* A sample arrives.                                                        *)

\* Whether the first result needs another sample.
LEMMA MoreSamples ==
    ASSUME Strong, FlowInv, quiet, state = "RD_WAIT"
    PROVE  LET n == Len(reads)
               o == Len(outs)
               more == Add(fill_count, 1) < kernel_size
           IN  /\ n < job.len
               /\ Add(fill_count, 1) = n + 1 + (IF job.same THEN job.kernel - 1 ELSE 0)
               /\ more => n + 1 < First + o /\ o = 0
               /\ ~more => n + 1 = First + o
  <1> DEFINE n == Len(reads)
             o == Len(outs)
             extra == IF job.same THEN job.kernel - 1 ELSE 0
  <1>1. busy /\ TypeOK /\ Counted
    BY DEF Strong, StatusCoherent
  <1>2. /\ n \in Nat /\ o \in Nat /\ job.len \in Nat /\ job.len + MaxKernel < Words
        /\ job.kernel \in 1 .. MaxKernel /\ MaxKernel \in Nat /\ Words \in Nat
        /\ First \in Nat /\ First >= 1 /\ o <= job.len - First
        /\ First = (IF job.same THEN 1 ELSE job.kernel)
    BY <1>1, Numbers
  <1>3. n < First + o /\ (o > 0 => n = First + o - 1)
    BY DEF FlowInv, Flow, Reading
  <1>4. fill_count = n + extra /\ kernel_size = job.kernel
    BY <1>1 DEF FlowInv, Flow, CountersFlow
  <1>5. n < job.len
    BY <1>2, <1>3
  <1>6. extra \in Nat /\ extra < MaxKernel
    BY <1>2
  <1> HIDE DEF n, o, extra
  <1>7. Add(fill_count, 1) = n + 1 + extra
    BY <1>2, <1>4, <1>5, <1>6 DEF Add
  <1>8. CASE job.same
    <2>1. extra = job.kernel - 1 /\ First = 1
      BY <1>2, <1>8 DEF extra
    <2>2. ~(n + 1 + extra < job.kernel)
      BY <1>2, <2>1
    <2>3. n + 1 = First + o
      BY <1>2, <1>3, <2>1
    <2>4. QED
      BY <1>4, <1>5, <1>7, <2>2, <2>3 DEF n, o, extra
  <1>9. CASE ~job.same
    <2>1. extra = 0 /\ First = job.kernel
      BY <1>2, <1>9 DEF extra
    <2>2. n + 1 + extra < job.kernel => n + 1 < First + o /\ o = 0
      BY <1>2, <1>3, <2>1
    <2>3. ~(n + 1 + extra < job.kernel) => n + 1 = First + o
      BY <1>2, <1>3, <2>1
    <2>4. QED
      BY <1>4, <1>5, <1>7, <2>2, <2>3 DEF n, o, extra
  <1>10. QED
    BY <1>8, <1>9

LEMMA LoadedFlow ==
    ASSUME Strong, FlowInv, NEW r, Registers(r), Noted(r), NEW ok, NEW x \in Samples,
           RdWait(r, ok, x), quiet'
    PROVE  FlowInv'
  <1> DEFINE n == Len(reads)
             o == Len(outs)
             more == Add(fill_count, 1) < kernel_size
             extra == IF job.same THEN job.kernel - 1 ELSE 0
             rec == [addr |-> cur_src, sample |-> x]
  <1>1. state = "RD_WAIT" /\ Loaded(r, x, more)
    BY DEF RdWait
  <1>2. /\ quiet /\ busy /\ ~SoftReset(r)
        /\ kernel_size' = kernel_size /\ mode' = mode /\ job' = job
    BY <1>1, QuietCycle DEF Strong
  <1>3. /\ n < job.len
        /\ Add(fill_count, 1) = n + 1 + extra
        /\ more => n + 1 < First + o /\ o = 0
        /\ ~more => n + 1 = First + o
    BY <1>1, <1>2, MoreSamples
  <1>4. /\ n \in Nat /\ o \in Nat /\ job.len \in Nat /\ job.len + MaxKernel < Words
        /\ job.kernel \in 1 .. MaxKernel /\ MaxKernel \in Nat /\ Words \in Nat
        /\ First \in Nat /\ First >= 1
    BY Numbers DEF Strong
  <1>5. reads' = Append(reads, rec) /\ outs' = outs /\ cur_dst' = cur_dst
    BY <1>1, <1>3, <1>4 DEF Loaded
  <1>6. rec \in Read /\ reads \in Seq(Read)
    BY DEF Read, Strong, TypeOK
  <1>7. Len(reads') = n + 1 /\ reads'[n + 1] = rec /\ \A i \in 1 .. n : reads'[i] = reads[i]
    BY <1>5, <1>6, Appended
  <1>8. First' = First /\ Len(outs') = o
    BY <1>2, <1>5 DEF First
  <1>9. CountersFlow'
    <2>1. cur_src = Add(job.src, n) /\ mode = job.mode /\ kernel_size = job.kernel
          /\ (~job.mode => cur_dst = Add(job.dst, o))
      BY <1>2 DEF FlowInv, Flow, CountersFlow
    <2>2. job.src \in Word
      BY DEF Strong, TypeOK
    <2>3. n + 1 < Words
      BY <1>3, <1>4
    <2>4. cur_src' = Add(job.src, n + 1)
      BY <1>1, <1>4, <2>1, <2>2, <2>3, AddNext DEF Loaded
    <2>5. fill_count' = n + 1 + extra
      BY <1>1, <1>3 DEF Loaded
    <2>6. QED
      BY <1>2, <1>5, <1>7, <1>8, <2>1, <2>4, <2>5 DEF CountersFlow
  <1>10. SampleIn(reads', n + 1) = x
    BY <1>4, <1>7 DEF SampleIn
  <1>11. \A m \in Int : m <= n => SampleIn(reads', m) = SampleIn(reads, m)
    BY <1>4, <1>7 DEF SampleIn
  <1>12. \A k \in Tap : job.same \/ k < n + 1 => Shifted(x)[k] = SampleIn(reads', (n + 1) - k)
    <2> SUFFICES ASSUME NEW k \in Tap, job.same \/ k < n + 1
                 PROVE  Shifted(x)[k] = SampleIn(reads', (n + 1) - k)
      OBVIOUS
    <2>1. k \in Nat /\ k < MaxKernel
      BY <1>4 DEF Tap
    <2>2. CASE k = 0
      <3>1. Shifted(x)[k] = x
        BY <2>2 DEF Shifted
      <3>2. (n + 1) - k = n + 1
        BY <1>4, <2>2
      <3>3. QED
        BY <1>10, <3>1, <3>2
    <2>3. CASE k # 0
      <3>1. k - 1 \in Tap /\ (job.same \/ k - 1 < n)
        BY <1>4, <2>1, <2>3 DEF Tap
      <3>2. shift[k - 1] = SampleIn(reads, n - (k - 1))
        BY <1>2, <3>1, SampleIs DEF FlowInv, Flow, ShiftFlow
      <3>3. n - (k - 1) = (n + 1) - k /\ (n + 1) - k \in Int /\ (n + 1) - k <= n
        BY <1>4, <2>1, <2>3
      <3>4. Shifted(x)[k] = shift[k - 1]
        BY <2>3 DEF Shifted
      <3>5. QED
        BY <1>11, <3>2, <3>3, <3>4
    <2>4. QED
      BY <2>2, <2>3
  <1>13. shift' = Shifted(x)
    BY <1>1, <1>2 DEF Loaded, ShiftReg
  <1>14. ShiftFlow'
    <2>1. ~clean'
      BY <1>1 DEF Noted
    <2>2. \A k \in Tap : job'.same \/ k < Len(reads') => shift'[k] = SampleIn(reads', Len(reads') - k)
      <3> SUFFICES ASSUME NEW k \in Tap, job.same \/ k < n + 1
                   PROVE  shift'[k] = SampleIn(reads', Len(reads') - k)
        BY <1>2, <1>7
      <3>1. Shifted(x)[k] = SampleIn(reads', (n + 1) - k)
        BY <1>12
      <3>2. Len(reads') - k = (n + 1) - k
        BY <1>4, <1>7 DEF Tap
      <3>3. QED
        BY <1>13, <3>1, <3>2
    <2>3. QED
      BY <2>1, <2>2 DEF ShiftFlow, Sample, SampleIn
  <1>15. Reading'
    <2>1. CASE more
      BY <1>3, <1>7, <1>8, <2>1 DEF Reading
    <2>2. CASE ~more
      <3>1. state' \notin {"RD_REQ", "RD_WAIT"}
        BY <1>1, <2>2 DEF Loaded
      <3>2. QED
        BY <3>1 DEF Reading
    <2>3. QED
      BY <2>1, <2>2
  <1>16. Writing'
    <2>1. CASE more
      <3>1. state' \notin OutStates
        BY <1>1, <2>1 DEF Loaded, OutStates
      <3>2. QED
        BY <3>1 DEF Writing
    <2>2. CASE ~more
      <3>1. Len(reads') = First' + Len(outs')
        BY <1>3, <1>7, <1>8, <2>2
      <3>2. job'.mode <=> state' = "STREAM_OUT"
        BY <1>1, <1>2, <2>2 DEF Loaded, FlowInv, Flow, CountersFlow
      <3>3. \A k \in Tap : k < job.kernel => job.same \/ k < n + 1
        BY <1>3, <1>4, <2>2, Numbers DEF Strong, Tap
      <3>4. WindowIn(reads', job', n + 1) = Product(x)
        <4>1. kernel_size = job.kernel
          BY <1>2 DEF FlowInv, Flow, CountersFlow
        <4>2. \A k \in Tap : k < job.kernel => Shifted(x)[k] = SampleIn(reads', (n + 1) - k)
          BY <1>12, <3>3
        <4>3. Product(x) = [k \in Tap |-> IF k < job.kernel THEN Shifted(x)[k] ELSE 0]
          BY <4>1 DEF Product
        <4>4. WindowIn(reads', job, n + 1)
                = [k \in Tap |-> IF k < job.kernel THEN Shifted(x)[k] ELSE 0]
          BY <4>2, WindowByTaps
        <4>5. QED
          BY <1>2, <4>3, <4>4
      <3>5. pe_result' = Window(Len(reads))'
        BY <1>1, <1>7, <3>4 DEF Loaded, Window, WindowIn, Sample, SampleIn
      <3>6. QED
        BY <3>1, <3>2, <3>5 DEF Writing
    <2>3. QED
      BY <2>1, <2>2
  <1>17. ConvCorrect'
    <2> SUFFICES ASSUME NEW i \in 1 .. Len(outs')
                 PROVE  outs'[i].taps = WindowIn(reads', job', First' + i - 1)
      BY DEF ConvCorrect, Window, WindowIn, Sample, SampleIn
    <2>1. i \in 1 .. o
      BY <1>8
    <2>2. outs[i].taps = WindowIn(reads, job, First + i - 1)
      BY <1>2, <2>1, ConvIs DEF FlowInv
    <2>3. First + i - 1 \in Int /\ First + i - 1 <= n
      BY <1>1, <1>2, <1>4, <2>1 DEF FlowInv, Flow, Reading
    <2>4. \A j \in 1 .. First + i - 1 : reads'[j] = reads[j]
      BY <1>4, <1>7, <2>3
    <2>5. WindowIn(reads', job, First + i - 1) = WindowIn(reads, job, First + i - 1)
      BY <2>3, <2>4, WindowStays
    <2>6. job' = job /\ First' = First /\ outs' = outs
      BY <1>2, <1>5, <1>8
    <2>7. QED
      BY <2>2, <2>5, <2>6
  <1>18. BuffersRespected'
    <2>1. Len(reads') <= job'.len
      BY <1>2, <1>3, <1>4, <1>7
    <2>2. busy'
      BY <1>1, <1>2 DEF Loaded, Status
    <2>3. \A i \in 1 .. Len(reads') : reads'[i].addr = Add(job'.src, i - 1)
      <3> SUFFICES ASSUME NEW i \in 1 .. n + 1 PROVE reads'[i].addr = Add(job.src, i - 1)
        BY <1>2, <1>7
      <3>1. CASE i \in 1 .. n
        BY <1>2, <1>7, <3>1 DEF FlowInv, BuffersRespected
      <3>2. CASE i = n + 1
        <4>1. reads'[i].addr = cur_src /\ i - 1 = n
          BY <1>4, <1>7, <3>2
        <4>2. cur_src = Add(job.src, n)
          BY <1>2 DEF FlowInv, Flow, CountersFlow
        <4>3. QED
          BY <4>1, <4>2
      <3>3. QED
        BY <1>4, <3>1, <3>2
    <2>4. \A i \in 1 .. Len(outs') :
             IF job'.mode THEN outs'[i].sink = "stream"
             ELSE outs'[i].sink = "memory" /\ outs'[i].at = Add(job'.dst, i - 1)
      BY <1>2, <1>5 DEF FlowInv, BuffersRespected
    <2>5. QED
      BY <2>1, <2>2, <2>3, <2>4 DEF BuffersRespected
  <1>19. QED
    BY <1>9, <1>14, <1>15, <1>16, <1>17, <1>18 DEF FlowInv, Flow

----------------------------------------------------------------------------
(* The other steps.                                                         *)

LEMMA StartFlow ==
    ASSUME "clear" \in Rules, TypeOK, FlowInv, NEW r, Request(r), Go(r), Registers(r), Start(r)
    PROVE  FlowInv'
  <1>1. /\ state' = "RD_REQ" /\ busy' = TRUE /\ quiet' = TRUE /\ clean' = FALSE
        /\ reads' = <<>> /\ outs' = <<>>
        /\ cur_src' = src_addr /\ cur_dst' = dst_addr
        /\ fill_count' = (IF same THEN Sub(kernel_size, 1) ELSE 0)
        /\ job' = [src |-> src_addr, dst |-> dst_addr, len |-> length,
                    kernel |-> kernel_size, same |-> same, mode |-> r.stream]
    BY DEF Start, Begin
  <1>2. Len(reads') = 0 /\ Len(outs') = 0
    BY <1>1
  <1>3. kernel_size \in 1 .. MaxKernel /\ src_addr \in Word /\ dst_addr \in Word
    BY DEF TypeOK
  <1>4. Add(src_addr, 0) = src_addr /\ Add(dst_addr, 0) = dst_addr
    BY <1>3, ConvAssumption, SmallWords DEF Add, Word
  <1>5. Sub(kernel_size, 1) = kernel_size - 1 /\ 0 + (kernel_size - 1) = kernel_size - 1
    BY <1>3, ConvAssumption DEF Sub
  <1>6. kernel_size' = kernel_size /\ mode' = r.stream
    BY DEF Registers, Written, Go
  <1>7. fill_count' = 0 + (IF same THEN kernel_size - 1 ELSE 0)
    BY <1>1, <1>5
  <1>8. CountersFlow'
    BY <1>1, <1>2, <1>4, <1>6, <1>7 DEF CountersFlow
  <1>9. same => shift' = NoTaps
    <2> SUFFICES ASSUME same PROVE shift' = NoTaps
      OBVIOUS
    <2>1. clean \/ r.reset
      BY DEF Request, Lawful, Go
    <2>2. clean => shift = NoTaps
      BY DEF FlowInv, Flow, ShiftFlow
    <2>3. QED
      BY <2>1, <2>2 DEF Start, Begin, ShiftReg, SoftReset, Go
  <1>10. ShiftFlow'
    <2>1. ASSUME NEW k \in Tap, same \/ k < 0
          PROVE  shift'[k] = SampleIn(reads', 0 - k)
      <3>1. k \in Nat /\ ~(k < 0) /\ ~(0 - k >= 1)
        BY ConvAssumption DEF Tap
      <3>2. shift'[k] = 0
        BY <1>9, <2>1, <3>1 DEF NoTaps
      <3>3. QED
        BY <3>1, <3>2 DEF SampleIn
    <2>2. QED
      BY <1>1, <1>2, <2>1 DEF ShiftFlow, Sample, SampleIn
  <1>11. First' \in Nat /\ First' >= 1
    BY <1>1, <1>3, ConvAssumption DEF First
  <1>12. Reading' /\ Writing'
    <2>1. Len(reads') = 0 /\ Len(outs') = 0
      BY <1>2
    <2>2. state' \notin OutStates
      BY <1>1 DEF OutStates
    <2>3. (\A f \in Nat : f >= 1 => 0 < f + 0) /\ ~(0 > 0)
      OBVIOUS
    <2>4. 0 < First' + 0
      BY <1>11, <2>3
    <2>5. QED
      BY <2>1, <2>2, <2>3, <2>4 DEF Reading, Writing
  <1>13. 1 .. Len(outs') = {} /\ 1 .. Len(reads') = {}
    BY <1>2
  <1>14. ConvCorrect'
    BY <1>13 DEF ConvCorrect
  <1>15. Len(reads') <= job'.len
    BY <1>1, <1>2, ConvAssumption DEF TypeOK, Word
  <1>16. BuffersRespected'
    BY <1>1, <1>13, <1>15 DEF BuffersRespected
  <1>17. QED
    BY <1>8, <1>10, <1>12, <1>14, <1>16 DEF FlowInv, Flow

LEMMA IdleFlow ==
    ASSUME FlowInv, NEW r, Noted(r), state = "IDLE", state' = "IDLE", ~busy, ~busy',
           UNCHANGED <<reads, outs>>, ShiftReg(r, FALSE, 0)
    PROVE  FlowInv'
  <1>1. (quiet' => quiet) /\ job' = job /\ (clean' => clean \/ SoftReset(r))
    BY DEF Noted
  <1>2. clean' => shift' = NoTaps
    BY <1>1 DEF ShiftReg, FlowInv, Flow, ShiftFlow
  <1>3. Flow'
    BY <1>2 DEF Flow, CountersFlow, ShiftFlow, Reading, Writing, OutStates
  <1>4. ConvCorrect'
    BY <1>1 DEF FlowInv, ConvCorrect, Window, Sample, First
  <1>5. BuffersRespected'
    BY <1>1 DEF FlowInv, BuffersRespected
  <1>6. QED
    BY <1>3, <1>4, <1>5 DEF FlowInv

\* A wait, and the step from a request to the wait for its answer.
LEMMA WaitFlow ==
    ASSUME Strong, FlowInv, NEW r, Registers(r), Noted(r), NEW s, Goto(s, r),
           state # "IDLE", s # "IDLE", s \in OutStates <=> state \in OutStates,
           s = "STREAM_OUT" <=> state = "STREAM_OUT", state \in Active, quiet'
    PROVE  FlowInv'
  <1>1. /\ quiet /\ busy /\ ~SoftReset(r)
        /\ kernel_size' = kernel_size /\ mode' = mode /\ job' = job
    BY QuietCycle DEF Strong
  <1>2. /\ state' = s /\ busy' = busy /\ fill_count' = fill_count /\ shift' = shift
        /\ cur_src' = cur_src /\ cur_dst' = cur_dst /\ pe_result' = pe_result
        /\ reads' = reads /\ outs' = outs
    BY <1>1 DEF Goto, Status, Fill, ShiftReg, Strong, TypeOK
  <1>3. ~clean'
    BY DEF Noted
  <1>4. CountersFlow'
    BY <1>1, <1>2 DEF FlowInv, Flow, CountersFlow
  <1>5. ShiftFlow'
    BY <1>1, <1>2, <1>3 DEF FlowInv, Flow, ShiftFlow, Sample
  <1>6. Reading'
    <2>1. state' \in {"RD_REQ", "RD_WAIT"} => state \in {"RD_REQ", "RD_WAIT"}
      BY <1>2 DEF OutStates, Active
    <2>2. First' = First
      BY <1>1 DEF First
    <2>3. QED
      BY <1>1, <1>2, <2>1, <2>2 DEF FlowInv, Flow, Reading
  <1>7. Writing'
    <2>1. state' \in OutStates => state \in OutStates
      BY <1>2
    <2>2. First' = First
      BY <1>1 DEF First
    <2>3. QED
      BY <1>1, <1>2, <2>1, <2>2 DEF FlowInv, Flow, Writing, Window, Sample
  <1>8. ConvCorrect'
    BY <1>1, <1>2 DEF FlowInv, ConvCorrect, Window, Sample, First
  <1>9. BuffersRespected'
    BY <1>1, <1>2 DEF FlowInv, BuffersRespected
  <1>10. QED
    BY <1>4, <1>5, <1>6, <1>7, <1>8, <1>9 DEF FlowInv, Flow

\* A result goes out.
LEMMA PutOutFlow ==
    ASSUME Strong, FlowInv, NEW r, Registers(r), Noted(r), NEW sink \in {"memory", "stream"},
           NEW at \in Word, NEW last \in BOOLEAN, PutOut(r, sink, at, last),
           state \in OutStates, quiet',
           IF job.mode THEN sink = "stream"
           ELSE sink = "memory" /\ at = cur_dst /\ cur_dst' = Add(cur_dst, 1)
    PROVE  FlowInv'
  <1> DEFINE n == Len(reads)
             o == Len(outs)
             out == [sink |-> sink, at |-> at, taps |-> pe_result, last |-> last]
  <1>1. /\ quiet /\ busy /\ ~SoftReset(r)
        /\ kernel_size' = kernel_size /\ mode' = mode /\ job' = job
    BY QuietCycle DEF Strong, OutStates
  <1>2. /\ n \in Nat /\ o \in Nat /\ job.len \in Nat /\ job.len + MaxKernel < Words
        /\ job.kernel \in 1 .. MaxKernel /\ MaxKernel \in Nat /\ Words \in Nat
        /\ First \in Nat /\ First >= 1 /\ OutLength = job.len + 1 - First
        /\ wr_remaining \in 1 .. OutLength /\ o = OutLength - wr_remaining
    BY <1>1, Numbers DEF Strong
  <1>3. n = First + o /\ pe_result = Window(n)
    BY <1>1 DEF FlowInv, Flow, Writing
  <1>4. /\ shift' = shift /\ fill_count' = fill_count /\ cur_src' = cur_src /\ reads' = reads
        /\ ~clean'
    BY <1>1 DEF PutOut, Fill, ShiftReg, Noted, OutStates
  <1>5. o <= job.len /\ ~(o > job.len)
    BY <1>2
  <1>6. out \in Out /\ outs \in Seq(Out)
    BY DEF Out, Strong, TypeOK
  <1>7. outs' = Append(outs, out)
    BY <1>5 DEF PutOut
  <1>8. Len(outs') = o + 1 /\ outs'[o + 1] = out /\ \A i \in 1 .. o : outs'[i] = outs[i]
    BY <1>6, <1>7, Appended
  <1>9. First' = First
    BY <1>1 DEF First
  <1>10. \/ wr_remaining = 1 /\ state' = "IDLE" /\ busy' = FALSE
         \/ wr_remaining # 1 /\ state' = "RD_REQ" /\ busy' = busy
    BY <1>1 DEF PutOut, Status, Strong, TypeOK
  <1>11. CountersFlow'
    <2>1. /\ cur_src = Add(job.src, n) /\ mode = job.mode /\ kernel_size = job.kernel
          /\ ~job.mode => cur_dst = Add(job.dst, o)
          /\ fill_count = n + (IF job.same THEN job.kernel - 1 ELSE 0)
      BY <1>1 DEF FlowInv, Flow, CountersFlow
    <2>2. job.dst \in Word
      BY DEF Strong, TypeOK
    <2>3. o + 1 < Words
      BY <1>2
    <2>4. ~job.mode => cur_dst' = Add(job.dst, o + 1)
      BY <1>2, <2>1, <2>2, <2>3, AddNext
    <2>5. QED
      BY <1>1, <1>4, <1>8, <2>1, <2>4 DEF CountersFlow
  <1>12. ShiftFlow'
    <2>1. \A k \in Tap : job.same \/ k < n => shift[k] = Sample(n - k)
      BY <1>1 DEF FlowInv, Flow, ShiftFlow
    <2>2. QED
      BY <1>1, <1>4, <2>1 DEF ShiftFlow, Sample
  <1>13. Reading'
    <2>1. n < First + (o + 1) /\ n = First + (o + 1) - 1
      BY <1>2, <1>3
    <2>2. QED
      BY <1>4, <1>8, <1>9, <2>1 DEF Reading
  <1>14. Writing'
    <2>1. state' \notin OutStates
      BY <1>10 DEF OutStates
    <2>2. QED
      BY <2>1 DEF Writing
  <1>15. ConvCorrect'
    <2> SUFFICES ASSUME NEW i \in 1 .. o + 1
                 PROVE  outs'[i].taps = WindowIn(reads', job', First' + i - 1)
      BY <1>8 DEF ConvCorrect, Window, WindowIn, Sample, SampleIn
    <2>1. CASE i \in 1 .. o
      <3>1. outs[i].taps = WindowIn(reads, job, First + i - 1)
        BY <1>1, <2>1, ConvIs DEF FlowInv
      <3>2. QED
        BY <1>1, <1>4, <1>8, <1>9, <2>1, <3>1
    <2>2. CASE i = o + 1
      <3>1. First + i - 1 = n
        BY <1>2, <1>3, <2>2
      <3>2. outs'[i].taps = WindowIn(reads, job, n)
        BY <1>3, <1>8, <2>2, SampleIs
      <3>3. QED
        BY <1>1, <1>4, <1>9, <3>1, <3>2
    <2>3. QED
      BY <1>2, <2>1, <2>2
  <1>16. BuffersRespected'
    <2>1. Len(reads') <= job'.len
      BY <1>1, <1>4 DEF FlowInv, BuffersRespected
    <2>2. ~busy' => Len(reads') = job'.len
      <3> SUFFICES ASSUME ~busy' PROVE n = job.len
        BY <1>1, <1>4
      <3>1. wr_remaining = 1
        BY <1>1, <1>10
      <3>2. QED
        BY <1>2, <1>3, <3>1
    <2>3. \A i \in 1 .. Len(reads') : reads'[i].addr = Add(job'.src, i - 1)
      BY <1>1, <1>4 DEF FlowInv, BuffersRespected
    <2>4. \A i \in 1 .. Len(outs') :
             IF job'.mode THEN outs'[i].sink = "stream"
             ELSE outs'[i].sink = "memory" /\ outs'[i].at = Add(job'.dst, i - 1)
      <3> SUFFICES ASSUME NEW i \in 1 .. o + 1
                   PROVE  IF job.mode THEN outs'[i].sink = "stream"
                          ELSE outs'[i].sink = "memory" /\ outs'[i].at = Add(job.dst, i - 1)
        BY <1>1, <1>8
      <3>1. CASE i \in 1 .. o
        BY <1>1, <1>8, <3>1 DEF FlowInv, BuffersRespected
      <3>2. CASE i = o + 1
        <4>1. outs'[i].sink = sink /\ outs'[i].at = at /\ i - 1 = o
          BY <1>2, <1>8, <3>2
        <4>2. ~job.mode => cur_dst = Add(job.dst, o)
          BY <1>1 DEF FlowInv, Flow, CountersFlow
        <4>3. QED
          BY <4>1, <4>2
      <3>3. QED
        BY <1>2, <3>1, <3>2
    <2>5. QED
      BY <2>1, <2>2, <2>3, <2>4 DEF BuffersRespected
  <1>17. QED
    BY <1>11, <1>12, <1>13, <1>14, <1>15, <1>16 DEF FlowInv, Flow

----------------------------------------------------------------------------
(* Every transfer.                                                          *)

LEMMA FlowStep ==
    ASSUME "clear" \in Rules, Strong, FlowInv, NEW r, Request(r), Registers(r),
           NEW ok \in BOOLEAN, NEW x \in Samples, Fsm(r, ok, x)
    PROVE  FlowInv'
  <1>0. TypeOK /\ StatusCoherent
    BY DEF Strong
  <1>1. CASE Go(r) /\ Start(r)
    BY <1>0, <1>1, StartFlow
  <1>2. CASE state = "IDLE" /\ StartEmpty(r) /\ Noted(r)
    <2>1. ~busy /\ ~busy' /\ state' = "IDLE"
      BY <1>0, <1>2 DEF StatusCoherent, StartEmpty
    <2>2. QED
      BY <1>2, <2>1, IdleFlow DEF StartEmpty
  <1>3. CASE state = "IDLE" /\ Goto("IDLE", r) /\ Noted(r)
    <2>1. ~busy /\ ~busy' /\ state' = "IDLE"
      BY <1>0, <1>3 DEF StatusCoherent, Goto, Status
    <2>2. QED
      BY <1>3, <2>1, IdleFlow DEF Goto
  <1>4. CASE Busy(r, ok, x) /\ Noted(r) /\ state # "IDLE" /\ ~quiet'
    <2>1. ~clean'
      BY <1>4 DEF Noted
    <2>2. QED
      BY <1>4, <2>1, Disturbed
  <1>5. CASE Busy(r, ok, x) /\ Noted(r) /\ quiet'
    <2>1. ASSUME NEW from \in Active, NEW to \in Active, NEW b, Await(from, to, r, b),
                 to \in OutStates <=> from \in OutStates,
                 to = "STREAM_OUT" <=> from = "STREAM_OUT"
          PROVE  FlowInv'
      BY <1>5, <2>1, WaitFlow DEF Await, Active
    <2>2. CASE RdWait(r, ok, x)
      BY <1>5, <2>2, LoadedFlow
    <2>3. CASE WrWait(r, ok)
      <3>1. quiet
        BY <1>5, <2>3 DEF Noted
      <3>2. ~job.mode
        BY <2>3, <3>1 DEF WrWait, FlowInv, Flow, Writing, OutStates
      <3>3. cur_dst \in Word /\ state \in OutStates
        BY <1>0, <2>3 DEF WrWait, TypeOK, OutStates
      <3>4. QED
        BY <1>5, <2>3, <3>2, <3>3, PutOutFlow DEF WrWait
    <2>4. CASE StreamOut(r, ok)
      <3>1. quiet
        BY <1>5, <2>4 DEF Noted
      <3>2. job.mode
        BY <2>4, <3>1 DEF StreamOut, FlowInv, Flow, Writing, OutStates
      <3>3. 0 \in Word /\ state \in OutStates /\ (wr_remaining = 1) \in BOOLEAN
        BY <2>4, SmallWords DEF StreamOut, OutStates
      <3>4. QED
        BY <1>5, <2>4, <3>2, <3>3, PutOutFlow DEF StreamOut
    <2>5. QED
      BY <1>5, <2>1, <2>2, <2>3, <2>4 DEF Busy, Active, OutStates
  <1>6. Busy(r, ok, x) => state # "IDLE"
    BY DEF Busy, Await, RdWait, WrWait, StreamOut
  <1>7. QED
    BY <1>1, <1>2, <1>3, <1>4, <1>5, <1>6 DEF Fsm

LEMMA FlowInit == Init => FlowInv
  <1> SUFFICES ASSUME Init PROVE FlowInv
    OBVIOUS
  <1>1. Len(reads) = 0 /\ Len(outs) = 0 /\ job.len = 0 /\ busy = FALSE /\ state = "IDLE"
    BY DEF Init
  <1>2. 1 .. Len(reads) = {} /\ 1 .. Len(outs) = {}
    BY <1>1
  <1>3. Flow
    BY <1>1 DEF Init, Flow, CountersFlow, ShiftFlow, Reading, Writing, OutStates
  <1>4. ConvCorrect /\ BuffersRespected
    BY <1>1, <1>2 DEF ConvCorrect, BuffersRespected
  <1>5. QED
    BY <1>3, <1>4 DEF FlowInv

LEMMA FlowCorrect == ASSUME Rules = AllRules PROVE Spec => []FlowInv
  <1>0. "clear" \in Rules /\ "fits" \in Rules /\ "patient" \in Rules
    BY DEF AllRules
  <1>1. Strong /\ FlowInv /\ [Next]_vars => FlowInv'
    <2> SUFFICES ASSUME Strong, FlowInv, [Next]_vars PROVE FlowInv'
      OBVIOUS
    <2>1. CASE Next
      BY <1>0, <2>1, NextIsCycle, CycleInputs, FlowStep
    <2>2. CASE UNCHANGED vars
      BY <2>2 DEF vars, config, status, working, history, FlowInv, Flow, CountersFlow, ShiftFlow,
                  Reading, Writing, ConvCorrect, BuffersRespected, Window, Sample, First
    <2>3. QED
      BY <2>1, <2>2
  <1>2. Spec => []Strong
    BY <1>0, TypeCorrect, StatusIsCoherent, CountedAlways, PTL DEF Strong
  <1>3. QED
    BY <1>1, <1>2, FlowInit, PTL DEF Spec

\* Every result of a transfer that software leaves alone is the convolution of
\* that transfer's own samples, zero before the first in SAME mode, for every
\* kernel and length and every sequence of transfers.
THEOREM ResultsAreConvolutions == ASSUME Rules = AllRules PROVE Spec => []ConvCorrect
  <1>1. FlowInv => ConvCorrect
    BY DEF FlowInv
  <1>2. QED
    BY <1>1, FlowCorrect, PTL

\* The engine reads LENGTH samples from SRC_ADDR up, puts results nowhere but
\* on the stream or from DST_ADDR up, as GO chose, and has read all its samples
\* when it is done.
THEOREM BuffersAreRespected == ASSUME Rules = AllRules PROVE Spec => []BuffersRespected
  <1>1. FlowInv => BuffersRespected
    BY DEF FlowInv
  <1>2. QED
    BY <1>1, FlowCorrect, PTL
=============================================================================

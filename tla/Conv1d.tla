------------------------------- MODULE Conv1d -------------------------------
(***************************************************************************)
(* The 1D convolution engine hw/ip/conv1d/rtl: samples come from memory one *)
(* word at a time, pass through a shift register in front of the multiplier *)
(* row, and every result goes to memory or to an AXI-Stream consumer.       *)
(*                                                                         *)
(* One step is one clock cycle, because a SOFT_RESET and the FSM may assign *)
(* the same registers in it.  A result is represented by the samples that   *)
(* enter its sum, tap by tap: equal taps give equal sums for all weights.   *)
(* Memory is not modelled, every read may return any sample.  Addresses     *)
(* count words.  ZERO_PAD, which the code stores and never uses, and IER, which   *)
(* only gates the interrupt line, are left out.                             *)
(***************************************************************************)
EXTENDS Integers, Sequences

CONSTANTS
    Words,          \* the modulus of 32-bit arithmetic
    MaxKernel,      \* taps of the shift register (MAX_KERNEL)
    Samples,        \* sample values
    Sources, Destinations, Lengths, Kernels,  \* values software writes
    Rules           \* what software keeps to, out of AllRules

\* In valid mode LENGTH is at least KERNEL_SIZE ("fits"); a SOFT_RESET
\* precedes every SAME-mode transfer ("clear") and never cuts one off
\* ("patient").
AllRules == {"fits", "clear", "patient"}

Word == 0 .. Words - 1

\* KERNEL_SIZE outside 1..MAX_KERNEL is undefined (conv1d.md), and a sample
\* takes four bytes, so a length is far below the modulus.
ASSUME ConvAssumption ==
    /\ MaxKernel \in Nat \ {0} /\ Words \in Nat /\ Words > MaxKernel
    /\ 0 \in Samples
    /\ Sources \subseteq Word /\ Destinations \subseteq Word
    /\ Kernels \subseteq 1 .. MaxKernel
    /\ Lengths \subseteq 0 .. Words - MaxKernel - 1
    /\ Rules \subseteq AllRules

Tap == 0 .. MaxKernel - 1

VARIABLES
    src_addr, dst_addr, length, kernel_size, same, mode,
    state, busy, done,
    cur_src, cur_dst, fill_count, wr_remaining, pe_result,
    shift,          \* reg_q of conv1d_shift_reg
    job,            \* history: configuration at the last GO
    reads, outs,    \* history: samples read and results put out since
    quiet,          \* history: CTRL and KERNEL_SIZE have been left alone since
    clean           \* history: the shift register has been cleared and not used since

config  == <<src_addr, dst_addr, length, kernel_size, same, mode>>
status  == <<busy, done>>
working == <<cur_src, cur_dst, fill_count, wr_remaining, pe_result, shift>>
history == <<job, reads, outs, quiet, clean>>
vars    == <<config, state, status, working, history>>

\* Mutant of Add: the sum does not wrap.
AddUnbounded(x, y) == x + y

Add(x, y) == IF x + y >= Words THEN x + y - Words ELSE x + y
Sub(x, y) == IF x < y THEN x - y + Words ELSE x - y

NoTaps == [k \in Tap |-> 0]

----------------------------------------------------------------------------
Init ==
    /\ src_addr = 0 /\ dst_addr = 0 /\ length = 0 /\ kernel_size = 1
    /\ same = FALSE /\ mode = FALSE
    /\ state = "IDLE" /\ busy = FALSE /\ done = FALSE
    /\ cur_src = 0 /\ cur_dst = 0 /\ fill_count = 0 /\ wr_remaining = 0
    /\ pe_result = NoTaps /\ shift = NoTaps
    /\ job = [src |-> 0, dst |-> 0, len |-> 0, kernel |-> 1, same |-> FALSE, mode |-> FALSE]
    /\ reads = <<>> /\ outs = <<>> /\ quiet = TRUE /\ clean = TRUE

----------------------------------------------------------------------------
(* The register writes of a cycle.                                          *)

Go(r) == r.op = "ctrl" /\ r.go /\ ~busy
SoftReset(r) == r.op = "ctrl" /\ r.reset

Written(r, reg, old) == IF r.op = reg THEN r.val ELSE old

Registers(r) ==
    /\ src_addr' = Written(r, "src", src_addr)
    /\ dst_addr' = Written(r, "dst", dst_addr)
    /\ length' = Written(r, "length", length)
    /\ kernel_size' = Written(r, "kernel", kernel_size)
    /\ same' = Written(r, "padding", same)
    /\ mode' = IF r.op = "ctrl" THEN r.stream ELSE mode

----------------------------------------------------------------------------
(* The datapath: the sample x that arrives bypasses the shift register.      *)

Shifted(x) == [k \in Tap |-> IF k = 0 THEN x ELSE shift[k - 1]]

Product(x) == [k \in Tap |-> IF k < kernel_size THEN Shifted(x)[k] ELSE 0]

\* Mutant of ShiftReg: SOFT_RESET leaves the samples where they are.
ShiftRegNotCleared(r, loads, x) == shift' = IF loads THEN Shifted(x) ELSE shift

\* The clear wins over a load in the same cycle.
ShiftReg(r, loads, x) ==
    shift' = IF SoftReset(r) THEN NoTaps ELSE IF loads THEN Shifted(x) ELSE shift

----------------------------------------------------------------------------
(* The FSM in a cycle with request r; ok is the handshake it waits for.      *)

\* What SOFT_RESET leaves of the registers the FSM does not assign.
Status(r) == busy' = (busy /\ ~SoftReset(r)) /\ done' = (done /\ ~SoftReset(r))
Fill(r) == fill_count' = IF SoftReset(r) THEN 0 ELSE fill_count
Remaining(r) == wr_remaining' = IF SoftReset(r) THEN 0 ELSE wr_remaining

Goto(s, r) ==
    /\ state' = s
    /\ Status(r) /\ Fill(r) /\ Remaining(r) /\ ShiftReg(r, FALSE, 0)
    /\ UNCHANGED <<cur_src, cur_dst, pe_result, reads, outs>>

\* Mutant of Results: a valid-mode transfer is one result short.
ResultsShort == IF same THEN length ELSE Sub(length, kernel_size)

Results == IF same THEN length ELSE Add(Sub(length, kernel_size), 1)

Begin(r) ==
    /\ length # 0
    /\ state' = "RD_REQ" /\ busy' = TRUE
    /\ cur_src' = src_addr /\ cur_dst' = dst_addr
    /\ fill_count' = IF same THEN Sub(kernel_size, 1) ELSE 0
    /\ wr_remaining' = Results
    /\ ShiftReg(r, FALSE, 0)
    /\ UNCHANGED pe_result
    /\ job' = [src |-> src_addr, dst |-> dst_addr, len |-> length,
               kernel |-> kernel_size, same |-> same, mode |-> r.stream]
    /\ reads' = <<>> /\ outs' = <<>> /\ quiet' = TRUE /\ clean' = FALSE

\* Mutant of Start: DONE of the last transfer stays.
StartKeepsDone(r) == Begin(r) /\ UNCHANGED done

\* The FSM's assignments come after those of SOFT_RESET: a GO together with
\* it starts a transfer on a cleared shift register.
Start(r) == Begin(r) /\ done' = FALSE

StartEmpty(r) ==
    /\ length = 0
    /\ state' = "IDLE" /\ done' = TRUE /\ busy' = (busy /\ ~SoftReset(r))
    /\ Fill(r) /\ Remaining(r) /\ ShiftReg(r, FALSE, 0)
    /\ UNCHANGED <<cur_src, cur_dst, pe_result, reads, outs>>

Await(from, to, r, ok) == state = from /\ Goto(IF ok THEN to ELSE from, r)

\* A sample enters the sum and the shift register at once; more says that the
\* first result needs another.  Bound: the histories reads and outs stop one
\* entry past LENGTH, where they are already wrong.
Loaded(r, x, more) ==
    /\ pe_result' = Product(x)
    /\ fill_count' = Add(fill_count, 1) /\ cur_src' = Add(cur_src, 1)
    /\ state' = IF more THEN "RD_REQ" ELSE IF mode THEN "STREAM_OUT" ELSE "WR_REQ"
    /\ Status(r) /\ Remaining(r) /\ ShiftReg(r, TRUE, x)
    /\ reads' = IF Len(reads) > job.len THEN reads
                ELSE Append(reads, [addr |-> cur_src, sample |-> x])
    /\ UNCHANGED <<cur_dst, outs>>

\* Mutant of RdWait: the first result comes a sample too late.
RdWaitLate(r, ok, x) == state = "RD_WAIT" /\ ok /\ Loaded(r, x, fill_count < kernel_size)

RdWait(r, ok, x) ==
    state = "RD_WAIT" /\ ok /\ Loaded(r, x, Add(fill_count, 1) < kernel_size)

PutOut(r, sink, at, isLast) ==
    /\ wr_remaining' = Sub(wr_remaining, 1)
    /\ \/ wr_remaining = 1 /\ state' = "IDLE" /\ busy' = FALSE /\ done' = TRUE
       \/ wr_remaining # 1 /\ state' = "RD_REQ" /\ Status(r)
    /\ Fill(r) /\ ShiftReg(r, FALSE, 0)
    /\ outs' = IF Len(outs) > job.len THEN outs
               ELSE Append(outs, [sink |-> sink, at |-> at, taps |-> pe_result, last |-> isLast])
    /\ UNCHANGED <<cur_src, pe_result, reads>>

WrWait(r, ok) ==
    /\ state = "WR_WAIT" /\ ok
    /\ cur_dst' = Add(cur_dst, 1)
    /\ PutOut(r, "memory", cur_dst, FALSE)

\* Mutants of StreamOut: TLAST comes a beat too late; the beat is not counted.
StreamOutLateLast(r, ok) ==
    /\ state = "STREAM_OUT" /\ ok
    /\ PutOut(r, "stream", 0, wr_remaining = 0)
    /\ UNCHANGED cur_dst

StreamOutUncounted(r, ok) ==
    /\ state = "STREAM_OUT" /\ ok
    /\ state' = IF wr_remaining = 1 THEN "IDLE" ELSE "RD_REQ"
    /\ Status(r) /\ Fill(r) /\ Remaining(r) /\ ShiftReg(r, FALSE, 0)
    /\ UNCHANGED <<cur_src, cur_dst, pe_result, reads, outs>>

StreamOut(r, ok) ==
    /\ state = "STREAM_OUT" /\ ok
    /\ PutOut(r, "stream", 0, wr_remaining = 1)
    /\ UNCHANGED cur_dst

\* The history flags in a cycle that starts no transfer.
Noted(r) ==
    /\ quiet' = (quiet /\ ~(busy /\ r.op \in {"ctrl", "kernel"}))
    /\ clean' = (state = "IDLE" /\ (clean \/ SoftReset(r)))
    /\ UNCHANGED job

Busy(r, ok, x) ==
    \/ Await("RD_REQ", "RD_WAIT", r, ok)
    \/ Await("RD_WAIT", "RD_WAIT", r, FALSE) /\ ~ok
    \/ RdWait(r, ok, x)
    \/ Await("WR_REQ", "WR_WAIT", r, ok)
    \/ Await("WR_WAIT", "WR_WAIT", r, FALSE) /\ ~ok
    \/ WrWait(r, ok)
    \/ Await("STREAM_OUT", "STREAM_OUT", r, FALSE) /\ ~ok
    \/ StreamOut(r, ok)

Fsm(r, ok, x) ==
    \/ state = "IDLE" /\ Go(r) /\ Start(r)
    \/ state = "IDLE" /\ Go(r) /\ StartEmpty(r) /\ Noted(r)
    \/ state = "IDLE" /\ ~Go(r) /\ Goto("IDLE", r) /\ Noted(r)
    \/ Busy(r, ok, x) /\ Noted(r)

----------------------------------------------------------------------------
(* A clock cycle, by what the CPU writes in it.                             *)

\* Nobody looks at a handshake in IDLE, nor at a sample outside RD_WAIT.
Handshakes == IF state = "IDLE" THEN {FALSE} ELSE BOOLEAN
ReadSamples == IF state = "RD_WAIT" THEN Samples ELSE {0}

Cycle(r) == \E ok \in Handshakes, x \in ReadSamples : Registers(r) /\ Fsm(r, ok, x)

NoWrite == Cycle([op |-> "none"])

Write(reg, v) == Cycle([op |-> reg, val |-> v])

Lawful(go, reset) ==
    /\ "patient" \in Rules => ~(reset /\ busy)
    /\ "clear" \in Rules => (go /\ ~busy /\ same => clean \/ reset)
    /\ "fits" \in Rules => (go /\ ~busy /\ ~same => length = 0 \/ length >= kernel_size)

WriteCtrl(go, reset, stream) ==
    /\ Lawful(go, reset)
    /\ Cycle([op |-> "ctrl", go |-> go, reset |-> reset, stream |-> stream])

Next ==
    \/ NoWrite
    \/ \E v \in Sources : Write("src", v)
    \/ \E v \in Destinations : Write("dst", v)
    \/ \E v \in Lengths : Write("length", v)
    \/ \E v \in Kernels : Write("kernel", v)
    \/ \E b \in BOOLEAN : Write("padding", b)
    \/ \E go, reset, stream \in BOOLEAN : WriteCtrl(go, reset, stream)

Spec == Init /\ [][Next]_vars

\* The bus grants and answers, and the consumer accepts: the FSM waits in no
\* state for ever.
Active == {"RD_REQ", "RD_WAIT", "WR_REQ", "WR_WAIT", "STREAM_OUT"}

Fairness == \A s \in Active : []<>(state # s)

FairSpec == Spec /\ Fairness

----------------------------------------------------------------------------
(* Properties.                                                              *)

OutStates == {"WR_REQ", "WR_WAIT", "STREAM_OUT"}
Taps == [Tap -> Samples]

TypeOK ==
    /\ src_addr \in Word /\ dst_addr \in Word /\ length \in Lengths \cup {0}
    /\ kernel_size \in 1 .. MaxKernel
    /\ same \in BOOLEAN /\ mode \in BOOLEAN
    /\ state \in {"IDLE"} \cup Active /\ busy \in BOOLEAN /\ done \in BOOLEAN
    /\ cur_src \in Word /\ cur_dst \in Word /\ fill_count \in Word
    /\ wr_remaining \in Word /\ pe_result \in Taps /\ shift \in Taps
    /\ job \in [src : Word, dst : Word, len : Lengths \cup {0}, kernel : 1 .. MaxKernel,
                same : BOOLEAN, mode : BOOLEAN]
    /\ reads \in Seq([addr : Word, sample : Samples])
    /\ outs \in Seq([sink : {"memory", "stream"}, at : Word, taps : Taps, last : BOOLEAN])
    /\ quiet \in BOOLEAN /\ clean \in BOOLEAN

\* conv1d.md of SOFT_RESET: "Clears BUSY and DONE, resets shift register and
\* FSM to IDLE".  BUSY clear means that the FSM is in IDLE and takes a GO.
StatusCoherent == (busy <=> state # "IDLE") /\ ~(busy /\ done)

OutLength == IF job.same THEN job.len ELSE job.len - job.kernel + 1

\* The number of results is right whatever software writes meanwhile, and TLAST
\* is on the last result of the transfer and on no other.
ResultsCounted ==
    /\ busy => wr_remaining \in 1 .. OutLength
    /\ Len(outs) = (IF job.len = 0 THEN 0 ELSE OutLength) - (IF busy THEN wr_remaining ELSE 0)
    /\ \A i \in 1 .. Len(outs) : outs[i].sink = "stream" => (outs[i].last <=> i = OutLength)

\* The sample of index n in the input, zero before its first.
Sample(n) == IF n >= 1 THEN reads[n].sample ELSE 0

\* The taps of the convolution at input position n, newest sample first.
Window(n) == [k \in Tap |-> IF k < job.kernel THEN Sample(n - k) ELSE 0]

\* The input position of the first result.
First == IF job.same THEN 1 ELSE job.kernel

\* If software leaves CTRL and KERNEL_SIZE alone during the transfer, every
\* result is the convolution of the input at its position, with zeros before
\* its start in SAME mode (conv1d.md: "with x[negative] = 0"), and none of a
\* transfer before it.  The order of the weights is that of conv1d_test.c:52,
\* "w[0] applied to the newest sample in the window, matching hardware", and of
\* conv1d.md:101.  It is NOT that of conv1d.sv:8 and conv1d.md:8, "y[n] =
\* sum(x[n+k] * w[k])", nor of conv1d.md:168, "Weight 0 is applied to the oldest
\* sample in the shift register", which the code does not do.
ConvCorrect ==
    quiet => \A i \in 1 .. Len(outs) : outs[i].taps = Window(First + i - 1)

\* The engine reads LENGTH samples from SRC_ADDR up and no further, and writes
\* results only from DST_ADDR up, on the side GO selected.
BuffersRespected ==
    quiet =>
        /\ Len(reads) <= job.len
        /\ ~busy /\ job.len # 0 => Len(reads) = job.len
        /\ \A i \in 1 .. Len(reads) : reads[i].addr = Add(job.src, i - 1)
        /\ \A i \in 1 .. Len(outs) :
             IF job.mode THEN outs[i].sink = "stream"
             ELSE outs[i].sink = "memory" /\ outs[i].at = Add(job.dst, i - 1)

\* A transfer ends with DONE if the bus answers and the consumer accepts.
Terminates == busy ~> done
=============================================================================

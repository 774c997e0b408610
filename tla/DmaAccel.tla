------------------------------ MODULE DmaAccel ------------------------------
(***************************************************************************)
(* The accelerator core hw/ip/relu_accel/rtl/dma_accel_core.sv: words come  *)
(* from memory or from an AXI-Stream producer, pass through a combinational *)
(* function and go to memory or to an AXI-Stream consumer.  ReLU is this    *)
(* core with the function max(0, x).                                        *)
(*                                                                         *)
(* The CPU's register writes and the bus interleave with the FSM as in      *)
(* SgDma.  In the one cycle in which the FSM and a CTRL write touch the     *)
(* same registers, the FSM goes to IDLE and the GO is ignored: the write    *)
(* comes first.  Addresses count words.                                     *)
(***************************************************************************)
EXTENDS Integers, Sequences

CONSTANTS
    Words,          \* the modulus of 32-bit arithmetic
    Proc,           \* the function between proc_data_o and proc_result_i
    Memories,       \* the memory contents the software may have prepared
    Sources, Destinations, Lengths, \* values the CPU writes to the registers
    StreamWords     \* what the upstream producer may send

Word == 0 .. Words - 1

ASSUME AccelAssumption ==
    /\ Words \in Nat /\ Words >= 2
    /\ Proc \in [Word -> Word]
    /\ Memories \subseteq [Word -> Word]
    /\ Sources \subseteq Word /\ Destinations \subseteq Word /\ Lengths \subseteq Word
    /\ StreamWords \subseteq Word

VARIABLES
    mem, port, rdata,                       \* RAM and the bus in front of it
    src_addr, dst_addr, len, ier,           \* configuration registers
    mode, mode_out,                         \* CTRL: stream in, stream out
    state, busy, done,
    cur_src, cur_dst, remaining, proc_result,
    job,        \* history: configuration and memory at the last GO accepted
    taken,      \* history: the words that transfer has taken in
    outputs,    \* history: the words it has put out, with sink and position
    quiet       \* history: software has not written CTRL since

bus     == <<mem, port, rdata>>
config  == <<src_addr, dst_addr, len, ier>>
modes   == <<mode, mode_out>>
status  == <<busy, done>>
working == <<cur_src, cur_dst, remaining, proc_result>>
history == <<job, taken, outputs, quiet>>
vars    == <<bus, config, modes, state, status, working, history>>

\* Mutant of Add: the address does not wrap.
AddUnbounded(x, y) == x + y

Add(x, y) == IF x + y >= Words THEN x + y - Words ELSE x + y
Dec(x) == IF x = 0 THEN Words - 1 ELSE x - 1

\* ReLU on two's complement words: max(0, x).
Relu == [x \in Word |-> IF 2 * x >= Words THEN 0 ELSE x]

irq == done /\ ier

----------------------------------------------------------------------------
Init ==
    /\ mem \in Memories /\ port = "idle" /\ rdata = 0
    /\ src_addr = 0 /\ dst_addr = 0 /\ len = 0 /\ ier = FALSE
    /\ mode = FALSE /\ mode_out = FALSE
    /\ state = "IDLE" /\ busy = FALSE /\ done = FALSE
    /\ cur_src = 0 /\ cur_dst = 0 /\ remaining = 0 /\ proc_result = 0
    /\ job = [src |-> 0, dst |-> 0, len |-> 0, in |-> FALSE, out |-> FALSE,
              mem |-> mem]
    /\ taken = <<>> /\ outputs = <<>> /\ quiet = TRUE

----------------------------------------------------------------------------
(* The CPU.                                                                 *)

WriteSrcAddr(v) ==
    /\ src_addr' = v
    /\ UNCHANGED <<dst_addr, len, ier, bus, modes, state, status, working, history>>

WriteDstAddr(v) ==
    /\ dst_addr' = v
    /\ UNCHANGED <<src_addr, len, ier, bus, modes, state, status, working, history>>

WriteLen(v) ==
    /\ len' = v
    /\ UNCHANGED <<src_addr, dst_addr, ier, bus, modes, state, status, working, history>>

WriteIer(b) ==
    /\ ier' = b
    /\ UNCHANGED <<src_addr, dst_addr, len, bus, modes, state, status, working, history>>

\* A GO that is accepted; the source of the first word comes from the write
\* itself, because mode_q is only being updated.
Start(in, out) ==
    /\ len # 0
    /\ state' = IF in THEN "STREAM_IN" ELSE "RD_REQ"
    /\ busy' = TRUE /\ done' = FALSE
    /\ cur_src' = src_addr /\ cur_dst' = dst_addr /\ remaining' = len
    /\ job' = [src |-> src_addr, dst |-> dst_addr, len |-> len, in |-> in,
               out |-> out, mem |-> mem]
    /\ taken' = <<>> /\ outputs' = <<>> /\ quiet' = TRUE
    /\ UNCHANGED proc_result

StartEmpty ==
    /\ len = 0
    /\ done' = TRUE
    /\ UNCHANGED <<state, busy, working, history>>

CtrlWrite(in, out) ==
    /\ mode' = in /\ mode_out' = out
    /\ UNCHANGED <<bus, config>>

NoStart ==
    /\ quiet' = (quiet /\ ~busy)
    /\ UNCHANGED <<state, status, working, job, taken, outputs>>

\* Mutant of WriteCtrl: a GO restarts a busy engine.
WriteCtrlRestarts(go, in, out) ==
    /\ CtrlWrite(in, out)
    /\ \/ go /\ (Start(in, out) \/ StartEmpty)
       \/ ~go /\ NoStart

\* A write to CTRL.  The mode bits are written whether or not the engine is
\* busy; the GO counts only if it is not.
WriteCtrl(go, in, out) ==
    /\ CtrlWrite(in, out)
    /\ \/ go /\ ~busy /\ state = "IDLE" /\ (Start(in, out) \/ StartEmpty)
       \/ ~(go /\ ~busy /\ state = "IDLE") /\ NoStart

----------------------------------------------------------------------------
(* The bus.                                                                 *)

Granted(from, to) ==
    /\ state = from
    /\ state' = to
    /\ port' = "granted"
    /\ UNCHANGED <<mem, rdata, config, modes, status, working, history>>

Grant == Granted("RD_REQ", "RD_WAIT") \/ Granted("WR_REQ", "WR_WAIT")

ServeRead ==
    /\ port = "granted" /\ state = "RD_WAIT"
    /\ rdata' = mem[cur_src]
    /\ port' = "served"
    /\ UNCHANGED <<mem, config, modes, state, status, working, history>>

ServeWrite ==
    /\ port = "granted" /\ state = "WR_WAIT"
    /\ mem' = [mem EXCEPT ![cur_dst] = proc_result]
    /\ port' = "served"
    /\ UNCHANGED <<rdata, config, modes, state, status, working, history>>

Serve == ServeRead \/ ServeWrite

----------------------------------------------------------------------------
(* The FSM.                                                                 *)

\* Mutant of TakeIn: the output side follows the bit of the input side.
TakeInOtherBit(x) ==
    /\ proc_result' = Proc[x]
    /\ state' = IF mode THEN "MAXIS_OUT" ELSE "WR_REQ"
    /\ taken' = Append(taken, x)
    /\ UNCHANGED <<mem, rdata, config, modes, status, cur_src, cur_dst, remaining,
                   job, outputs, quiet>>

\* A word has come in, from either side: process it and go to the output side.
TakeIn(x) ==
    /\ proc_result' = Proc[x]
    /\ state' = IF mode_out THEN "MAXIS_OUT" ELSE "WR_REQ"
    /\ taken' = Append(taken, x)
    /\ UNCHANGED <<mem, rdata, config, modes, status, cur_src, cur_dst, remaining,
                   job, outputs, quiet>>

ReadDone ==
    /\ port = "served" /\ state = "RD_WAIT"
    /\ port' = "idle"
    /\ TakeIn(rdata)

StreamIn(x) ==
    /\ state = "STREAM_IN"
    /\ TakeIn(x)
    /\ UNCHANGED port

Emitted(sink, at, isLast) ==
    /\ remaining' = Dec(remaining)
    /\ outputs' = Append(outputs, [sink |-> sink, at |-> at, data |-> proc_result, last |-> isLast])
    /\ UNCHANGED <<mem, rdata, config, modes, proc_result, job, taken, quiet>>

NextInput == IF mode THEN "STREAM_IN" ELSE "RD_REQ"

\* Mutants of PutOut: the transfer ends a word early, the source does not
\* advance, DONE is not set.
PutOutStopsEarly(sink, at, isLast) ==
    /\ Emitted(sink, at, isLast)
    /\ cur_src' = Add(cur_src, 1)
    /\ IF remaining <= 2
         THEN state' = "IDLE" /\ busy' = FALSE /\ done' = TRUE
         ELSE state' = NextInput /\ UNCHANGED status

PutOutSameSource(sink, at, isLast) ==
    /\ Emitted(sink, at, isLast)
    /\ IF remaining = 1
         THEN state' = "IDLE" /\ busy' = FALSE /\ done' = TRUE
         ELSE state' = NextInput /\ UNCHANGED status
    /\ UNCHANGED cur_src

PutOutNotDone(sink, at, isLast) ==
    /\ Emitted(sink, at, isLast)
    /\ cur_src' = Add(cur_src, 1)
    /\ state' = IF remaining = 1 THEN "IDLE" ELSE NextInput
    /\ busy' = (remaining # 1)
    /\ UNCHANGED done

\* The word has gone out: take the next one, or stop.
PutOut(sink, at, isLast) ==
    /\ Emitted(sink, at, isLast)
    /\ cur_src' = Add(cur_src, 1)
    /\ \/ remaining = 1 /\ state' = "IDLE" /\ busy' = FALSE /\ done' = TRUE
       \/ remaining # 1 /\ state' = NextInput /\ UNCHANGED status

\* Mutant of WriteDone: the destination does not advance.
WriteDoneSameAddress ==
    /\ port = "served" /\ state = "WR_WAIT"
    /\ port' = "idle"
    /\ PutOut("memory", cur_dst, FALSE)
    /\ UNCHANGED cur_dst

WriteDone ==
    /\ port = "served" /\ state = "WR_WAIT"
    /\ port' = "idle"
    /\ cur_dst' = Add(cur_dst, 1)
    /\ PutOut("memory", cur_dst, FALSE)

\* The consumer accepts the beat; TLAST marks the last of the transfer.
StreamOut ==
    /\ state = "MAXIS_OUT"
    /\ PutOut("stream", 0, remaining = 1)
    /\ UNCHANGED <<port, cur_dst>>

----------------------------------------------------------------------------
Cpu == \/ \E v \in Sources : WriteSrcAddr(v)
       \/ \E v \in Destinations : WriteDstAddr(v)
       \/ \E v \in Lengths : WriteLen(v)
       \/ \E b \in BOOLEAN : WriteIer(b)
       \/ \E go, in, out \in BOOLEAN : WriteCtrl(go, in, out)

Upstream == \E x \in StreamWords : StreamIn(x)

Next == Cpu \/ Grant \/ Serve \/ ReadDone \/ WriteDone \/ Upstream \/ StreamOut

Spec == Init /\ [][Next]_vars

\* The bus grants and answers and the FSM is clocked; the producer keeps
\* sending and the consumer keeps accepting.  The CPU owes nothing.
Fairness == /\ WF_vars(Grant) /\ WF_vars(Serve) /\ WF_vars(ReadDone \/ WriteDone)
            /\ WF_vars(Upstream) /\ WF_vars(StreamOut)

FairSpec == Spec /\ Fairness

----------------------------------------------------------------------------
(* Properties.                                                              *)

OutStates == {"WR_REQ", "WR_WAIT", "MAXIS_OUT"}
States == {"IDLE", "RD_REQ", "RD_WAIT", "STREAM_IN"} \cup OutStates

Output == [sink : {"memory", "stream"}, at : Word, data : Word, last : BOOLEAN]

TypeOK ==
    /\ mem \in [Word -> Word] /\ port \in {"idle", "granted", "served"} /\ rdata \in Word
    /\ src_addr \in Word /\ dst_addr \in Word /\ len \in Word /\ ier \in BOOLEAN
    /\ mode \in BOOLEAN /\ mode_out \in BOOLEAN
    /\ state \in States /\ busy \in BOOLEAN /\ done \in BOOLEAN
    /\ cur_src \in Word /\ cur_dst \in Word /\ remaining \in Word /\ proc_result \in Word
    /\ taken \in Seq(Word) /\ outputs \in Seq(Output) /\ quiet \in BOOLEAN
    /\ job \in [src : Word, dst : Word, len : Word, in : BOOLEAN, out : BOOLEAN,
                mem : [Word -> Word]]

\* STATUS and the bus follow the FSM.
StatusCoherent ==
    /\ busy <=> state # "IDLE"
    /\ ~(busy /\ done)
    /\ port # "idle" <=> state \in {"RD_WAIT", "WR_WAIT"}

\* No word is lost, repeated or reordered between input and output, whatever
\* the CPU writes to CTRL meanwhile: outputs are the processed inputs in order,
\* at most one word is inside the engine, and the count is exactly LEN.
WordsConserved ==
    /\ Len(taken) = Len(outputs) + (IF state \in OutStates THEN 1 ELSE 0)
    /\ \A i \in 1 .. Len(outputs) : outputs[i].data = Proc[taken[i]]
    /\ state \in OutStates => proc_result = Proc[taken[Len(taken)]]
    /\ busy => remaining \in 1 .. job.len
    /\ Len(outputs) = job.len - (IF busy THEN remaining ELSE 0)

\* Every word written to memory is still there: no later word of the transfer
\* overwrites it, and a word counts as put out only after memory has it.
MemoryHoldsOutputs ==
    \A i \in 1 .. Len(outputs) :
        outputs[i].sink = "memory" => mem[outputs[i].at] = outputs[i].data

\* If software leaves CTRL alone until DONE, a transfer from memory processes
\* the source as it was at GO, except where the destination overlaps it from
\* above: there it meets its own output.
InputsFromSource ==
    quiet /\ ~job.in =>
        \A i \in 1 .. Len(taken) :
            LET d == (job.dst - job.src) % Words
            IN  taken[i] = IF ~job.out /\ d \in 1 .. i - 1
                             THEN Proc[taken[i - d]]
                             ELSE job.mem[(job.src + i - 1) % Words]

\* TLAST marks the last word of a transfer and no other, also when its sides
\* change on the way.  If software leaves CTRL alone, every word leaves on the
\* side GO selected, and the words to memory go to consecutive places from
\* DST_ADDR up.
OutputsPlaced ==
    /\ \A i \in 1 .. Len(outputs) :
         outputs[i].sink = "stream" => (outputs[i].last <=> i = job.len)
    /\ quiet =>
         \A i \in 1 .. Len(outputs) :
             IF job.out THEN outputs[i].sink = "stream"
             ELSE outputs[i].sink = "memory" /\ outputs[i].at = (job.dst + i - 1) % Words

\* A transfer whose producer keeps sending and whose consumer keeps accepting
\* ends with DONE, also when its sides change on the way.
Terminates == busy ~> done
=============================================================================

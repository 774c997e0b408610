------------------------------ MODULE PioFifo ------------------------------
(***************************************************************************)
(* The FIFOs of hw/ip/pio/rtl/pio.sv with their users: the CPU on the       *)
(* register bus, the DMA engine and the state machines (pio_sm.sv).         *)
(*                                                                         *)
(* One step is one clock cycle.  Every user reads the registers as they     *)
(* were before the edge, and several of them may touch one FIFO in one      *)
(* cycle, so the cycle and not the operation is the unit of interleaving.   *)
(*                                                                         *)
(* A state machine is reduced to its FIFO port: in each cycle a program may *)
(* execute a PULL or a PUSH, explicit or automatic, or neither.  Addresses  *)
(* are left out: dma_cur_addr_q steps by one word with dma_remaining_q.     *)
(* The bridge in front of the register bus sends no request in the cycle    *)
(* after another and keeps the write data on the bus in that cycle.         *)
(***************************************************************************)
EXTENDS Integers, Sequences

CONSTANTS
    NumSm,      \* state machines
    Depth,      \* words per FIFO (FifoDepth)
    Data,       \* words
    Lengths,    \* lengths of the DMA transfers software starts
    Rules       \* what software and programs keep to, out of AllRules

\* Software polls FSTAT before it accesses a FIFO ("poll"), leaves a FIFO to
\* the DMA while the DMA serves it ("leave"), and starts a transfer only to
\* or from the FIFO of the last GO ("target"); programs do not pull, or push,
\* in two cycles in a row ("spaced").
AllRules == {"poll", "leave", "target", "spaced"}

ASSUME FifoAssumption ==
    /\ NumSm \in Nat \ {0} /\ Depth \in Nat \ {0}
    /\ 0 \in Data
    /\ Lengths \subseteq Nat
    /\ Rules \subseteq AllRules

Sm == 0 .. NumSm - 1

VARIABLES
    tx, rx,             \* the FIFOs of each state machine
    cpu_tx,             \* cpu_tx_push, cpu_tx_sm, cpu_tx_wdata: a TXF write on its way
    quiet, seen,        \* a request has just been made; what FSTAT has just shown
    pull, osr,          \* tx_pull_o; the last word a PULL took
    push,               \* rx_push_o and rx_data_o
    got,                \* the last word that left RX for the CPU or the DMA
    dma_state, busy, done, remaining, dma_data,
    dir, sm_sel,        \* DIR and SM_SEL in dma_ctrl_q
    latch,              \* dma_latch_ctrl and the word it latches
    job, moved, passed  \* history: the transfer, its words on the bus and at the FIFO

fifos    == <<tx, rx>>
cpu      == <<cpu_tx, quiet, seen>>
ports    == <<pull, osr, push, got>>
dma      == <<dma_state, busy, done, remaining, dma_data>>
dma_ctrl == <<dir, sm_sel, latch>>
history  == <<job, moved, passed>>
vars     == <<fifos, cpu, ports, dma, dma_ctrl, history>>

----------------------------------------------------------------------------
(* The FIFOs: pointers with one bit more than an index needs.               *)

Pointer == 0 .. 2 * Depth - 1
Fifo == [mem : [0 .. Depth - 1 -> Data], wr : Pointer, rd : Pointer]

Inc(p) == IF p = 2 * Depth - 1 THEN 0 ELSE p + 1
Slot(p) == IF p < Depth THEN p ELSE p - Depth

Empty(f) == f.wr = f.rd

\* Mutant of Full: it is never seen.
FullNever(f) == FALSE

Full(f) == Slot(f.wr) = Slot(f.rd) /\ f.wr # f.rd
Front(f) == f.mem[Slot(f.rd)]
Level(f) == IF f.wr >= f.rd THEN f.wr - f.rd ELSE f.wr - f.rd + 2 * Depth

\* What one writer brings in one cycle.
None == [on |-> FALSE, word |-> 0]
Bring(w) == [on |-> TRUE, word |-> w]

\* Of two writers in one cycle the second assigns last, to the same slot and
\* pointer.
Override(first, second) == IF second.on THEN second ELSE first

\* One cycle of a FIFO.
Clocked(f, pop, in) ==
    [mem |-> IF in.on /\ ~Full(f) THEN [f.mem EXCEPT ![Slot(f.wr)] = in.word] ELSE f.mem,
     wr |-> IF in.on /\ ~Full(f) THEN Inc(f.wr) ELSE f.wr,
     rd |-> IF pop /\ ~Empty(f) THEN Inc(f.rd) ELSE f.rd]

----------------------------------------------------------------------------
\* Memories of the FIFOs have no reset.
Init ==
    /\ tx \in [Sm -> [mem : [0 .. Depth - 1 -> Data], wr : {0}, rd : {0}]]
    /\ rx \in [Sm -> [mem : [0 .. Depth - 1 -> Data], wr : {0}, rd : {0}]]
    /\ cpu_tx = [on |-> FALSE, sm |-> 0, word |-> 0] /\ quiet = FALSE /\ seen = {}
    /\ pull = [i \in Sm |-> FALSE] /\ osr = [i \in Sm |-> 0]
    /\ push = [i \in Sm |-> None] /\ got = [i \in Sm |-> 0]
    /\ dma_state = "IDLE" /\ busy = FALSE /\ done = FALSE
    /\ remaining = 0 /\ dma_data = 0
    /\ dir = FALSE /\ sm_sel = 0
    /\ latch = [on |-> FALSE, dir |-> FALSE, sm |-> 0]
    /\ job = [dir |-> FALSE, sm |-> 0, len |-> 0] /\ moved = <<>> /\ passed = <<>>

----------------------------------------------------------------------------
(* Inputs of a cycle: the CPU's request r, the state machines' FIFO         *)
(* operations ops, and whether the bus answers the DMA (ok), with word w.   *)

CpuPush(i) == [on |-> cpu_tx.on /\ cpu_tx.sm = i, word |-> cpu_tx.word]
CpuPop(i, r) == r.op = "rxf" /\ r.sm = i

DmaGo(r) == r.op = "dma" /\ r.go /\ ~busy
DmaPush(i, ok, w) ==
    [on |-> dma_state = "TX_RD_WAIT" /\ ok /\ ~dir /\ sm_sel = i, word |-> w]

\* Mutant of DmaPop: the word is latched and stays in the FIFO.
DmaPopNever(i) == FALSE

DmaPop(i) == dma_state = "RX_FIFO_WAIT" /\ dir /\ sm_sel = i

Fifos(r, ok, w) ==
    /\ tx' = [i \in Sm |-> Clocked(tx[i], pull[i], Override(CpuPush(i), DmaPush(i, ok, w)))]
    /\ rx' = [i \in Sm |-> Clocked(rx[i], CpuPop(i, r) \/ DmaPop(i), push[i])]

\* What a program does at the FIFO ports in one cycle.
Ops == [kind : {"none", "pull"}, word : {0}] \cup [kind : {"push"}, word : Data]

\* Mutant of Machines: tx_pull_o also when there was nothing to take.
MachinesPullEmpty(ops) ==
    /\ pull' = [i \in Sm |-> ops[i].kind = "pull"]
    /\ osr' = [i \in Sm |-> IF pull'[i] THEN Front(tx[i]) ELSE osr[i]]
    /\ push' = [i \in Sm |-> IF ops[i].kind = "push" /\ ~Full(rx[i])
                               THEN Bring(ops[i].word) ELSE None]

\* A PULL takes the word at once and moves the pointer in the next cycle; a
\* PUSH writes the FIFO in the next cycle.
Machines(ops) ==
    /\ pull' = [i \in Sm |-> ops[i].kind = "pull" /\ ~Empty(tx[i])]
    /\ osr' = [i \in Sm |-> IF pull'[i] THEN Front(tx[i]) ELSE osr[i]]
    /\ push' = [i \in Sm |-> IF ops[i].kind = "push" /\ ~Full(rx[i])
                               THEN Bring(ops[i].word) ELSE None]

Spaced(ops) ==
    \A i \in Sm : /\ pull[i] => ops[i].kind # "pull"
                  /\ push[i].on => ops[i].kind # "push"

----------------------------------------------------------------------------
(* The register bus.                                                        *)

Serves(kind, i) == busy /\ job.sm = i /\ (job.dir <=> kind = "rx")

\* Software leaves a FIFO to the DMA that serves it, and does not go by what
\* FSTAT shows of it meanwhile.
Left(kind, i) == "leave" \in Rules /\ Serves(kind, i)

Fstat == {<<"tx", i>> : i \in {j \in Sm : ~Full(tx[j]) /\ ~Left("tx", j)}}
         \cup {<<"rx", i>> : i \in {j \in Sm : ~Empty(rx[j]) /\ ~Left("rx", j)}}

Registers(r) ==
    /\ cpu_tx' = IF r.op = "txf" THEN [on |-> TRUE, sm |-> r.sm, word |-> r.word]
                                 ELSE [on |-> FALSE, sm |-> 0, word |-> 0]
    /\ quiet' = (r.op # "none")
    /\ seen' = IF r.op = "fstat" THEN Fstat ELSE IF r.op = "none" THEN seen ELSE {}

\* The fields of DMA_CTRL that a GO sets are latched in the cycle after it.
DmaCtrl(r) ==
    /\ latch' = IF DmaGo(r) THEN [on |-> TRUE, dir |-> r.dir, sm |-> r.sm]
                            ELSE [on |-> FALSE, dir |-> FALSE, sm |-> 0]
    /\ dir' = IF latch.on THEN latch.dir ELSE dir
    /\ sm_sel' = IF latch.on THEN latch.sm ELSE sm_sel

----------------------------------------------------------------------------
(* The DMA engine.                                                          *)

\* DONE after a write of 1 to it.
Acked(r) == done /\ ~(r.op = "dma" /\ r.w1c)

Goto(s, r) == dma_state' = s /\ done' = Acked(r) /\ UNCHANGED <<busy, remaining>>

\* Mutants of Finish: DONE is not set, the acknowledge of an old DONE wins.
FinishSilent(next, r) ==
    /\ remaining' = remaining - 1 /\ done' = Acked(r)
    /\ \/ remaining = 1 /\ dma_state' = "IDLE" /\ busy' = FALSE
       \/ remaining # 1 /\ dma_state' = next /\ UNCHANGED busy

FinishAcked(next, r) ==
    /\ remaining' = remaining - 1
    /\ \/ remaining = 1 /\ dma_state' = "IDLE" /\ busy' = FALSE
          /\ done' = ~(r.op = "dma" /\ r.w1c)
       \/ remaining # 1 /\ dma_state' = next /\ done' = Acked(r) /\ UNCHANGED busy

\* A word is done: the last sets DONE, also against an acknowledge in the
\* same cycle.
Finish(next, r) ==
    /\ remaining' = remaining - 1
    /\ \/ remaining = 1 /\ dma_state' = "IDLE" /\ busy' = FALSE /\ done' = TRUE
       \/ remaining # 1 /\ dma_state' = next /\ done' = Acked(r) /\ UNCHANGED busy

DmaIdle(r) ==
    /\ dma_state = "IDLE"
    /\ \/ /\ DmaGo(r)
          /\ remaining' = r.len /\ busy' = (r.len # 0) /\ done' = (r.len = 0)
          /\ dma_state' = IF r.len = 0 THEN "IDLE"
                          ELSE IF r.dir THEN "RX_FIFO_WAIT" ELSE "TX_RD_REQ"
       \/ ~DmaGo(r) /\ Goto("IDLE", r)
    /\ UNCHANGED dma_data

TxRdReq(r, ok) ==
    /\ dma_state = "TX_RD_REQ"
    /\ Goto(IF ok /\ ~Full(tx[sm_sel]) THEN "TX_RD_WAIT" ELSE "TX_RD_REQ", r)
    /\ UNCHANGED dma_data

TxRdWait(r, ok, w) ==
    /\ dma_state = "TX_RD_WAIT"
    /\ \/ ok /\ dma_data' = w /\ Finish("TX_RD_REQ", r)
       \/ ~ok /\ Goto("TX_RD_WAIT", r) /\ UNCHANGED dma_data

RxFifoWait(r) ==
    /\ dma_state = "RX_FIFO_WAIT"
    /\ \/ ~Empty(rx[sm_sel]) /\ dma_data' = Front(rx[sm_sel]) /\ Goto("RX_WR_REQ", r)
       \/ Empty(rx[sm_sel]) /\ Goto("RX_FIFO_WAIT", r) /\ UNCHANGED dma_data

RxWrReq(r, ok) ==
    /\ dma_state = "RX_WR_REQ"
    /\ Goto(IF ok THEN "RX_WR_WAIT" ELSE "RX_WR_REQ", r)
    /\ UNCHANGED dma_data

RxWrWait(r, ok) ==
    /\ dma_state = "RX_WR_WAIT"
    /\ \/ ok /\ Finish("RX_FIFO_WAIT", r)
       \/ ~ok /\ Goto("RX_WR_WAIT", r)
    /\ UNCHANGED dma_data

Dma(r, ok, w) ==
    \/ DmaIdle(r)
    \/ TxRdReq(r, ok) \/ TxRdWait(r, ok, w)
    \/ RxFifoWait(r) \/ RxWrReq(r, ok) \/ RxWrWait(r, ok)

----------------------------------------------------------------------------
(* History.  Bound: passed stops one word past LEN, where it is already     *)
(* wrong.                                                                   *)

\* The words that cross the far side of the job's FIFO in this cycle.
Crossing ==
    LET t == tx[job.sm]   x == rx[job.sm]
    IN  IF ~job.dir
          THEN IF tx'[job.sm].wr = t.wr THEN <<>> ELSE <<tx'[job.sm].mem[Slot(t.wr)]>>
          ELSE IF rx'[job.sm].rd = x.rd THEN <<>> ELSE <<Front(x)>>

History(r, ok, w) ==
    /\ job' = IF DmaGo(r) THEN [dir |-> r.dir, sm |-> r.sm, len |-> r.len] ELSE job
    /\ moved' = IF DmaGo(r) THEN <<>>
                ELSE IF ok /\ dma_state = "TX_RD_WAIT" THEN Append(moved, w)
                ELSE IF ok /\ dma_state = "RX_WR_WAIT" THEN Append(moved, dma_data)
                ELSE moved
    /\ passed' = IF DmaGo(r) THEN <<>>
                 ELSE IF busy /\ Len(passed) <= job.len THEN passed \o Crossing
                 ELSE passed
    /\ got' = [i \in Sm |-> IF rx'[i].rd = rx[i].rd THEN got[i] ELSE Front(rx[i])]

----------------------------------------------------------------------------
(* A clock cycle, by what the CPU requests in it.                           *)

\* Memory matters to the engine only when it reads.
ReadWords == IF dma_state = "TX_RD_WAIT" THEN Data ELSE {0}

Cycle(r) ==
    \E ops \in [Sm -> Ops], ok \in BOOLEAN, w \in ReadWords :
        /\ "spaced" \in Rules => Spaced(ops)
        /\ Fifos(r, ok, w) /\ Machines(ops)
        /\ Registers(r) /\ DmaCtrl(r) /\ Dma(r, ok, w)
        /\ History(r, ok, w)

NoRequest == Cycle([op |-> "none"])

ReadFstat == ~quiet /\ Cycle([op |-> "fstat"])

\* Software may access this FIFO.
Access(kind, i) ==
    /\ ~quiet
    /\ "poll" \in Rules => <<kind, i>> \in seen
    /\ ~Left(kind, i)

WriteTxf(i, v) == Access("tx", i) /\ Cycle([op |-> "txf", sm |-> i, word |-> v])

ReadRxf(i) == Access("rx", i) /\ Cycle([op |-> "rxf", sm |-> i])

\* A write to DMA_CTRL with GO; its other fields count only with it.
WriteGo(ack, d, i, n) ==
    /\ ~quiet
    /\ "target" \in Rules => n = 0 \/ (d = dir /\ i = sm_sel)
    /\ Cycle([op |-> "dma", go |-> TRUE, w1c |-> ack, dir |-> d, sm |-> i, len |-> n])

WriteDone ==
    /\ ~quiet
    /\ Cycle([op |-> "dma", go |-> FALSE, w1c |-> TRUE])

Next ==
    \/ NoRequest
    \/ ReadFstat
    \/ \E i \in Sm : ReadRxf(i) \/ \E v \in Data : WriteTxf(i, v)
    \/ WriteDone
    \/ \E ack, d \in BOOLEAN, i \in Sm, n \in Lengths : WriteGo(ack, d, i, n)

Spec == Init /\ [][Next]_vars

\* The clock runs and the bus answers the DMA: it stays in no state of a bus
\* access for ever, unless the FIFO it reads for is full.  Every program goes
\* on pulling and pushing as long as its FIFOs let it.
Fairness ==
    /\ []<><<TRUE>>_vars
    /\ \A s \in {"TX_RD_WAIT", "RX_WR_REQ", "RX_WR_WAIT"} : []<>(dma_state # s)
    /\ []<>(dma_state # "TX_RD_REQ" \/ Full(tx[sm_sel]))
    /\ \A i \in Sm : /\ []<>(pull[i] \/ Empty(tx[i]))
                     /\ []<>(push[i].on \/ Full(rx[i]))

FairSpec == Spec /\ Fairness

----------------------------------------------------------------------------
(* Properties.                                                              *)

DmaStates == {"IDLE", "TX_RD_REQ", "TX_RD_WAIT", "RX_FIFO_WAIT", "RX_WR_REQ", "RX_WR_WAIT"}

TypeOK ==
    /\ tx \in [Sm -> Fifo] /\ rx \in [Sm -> Fifo]
    /\ cpu_tx \in [on : BOOLEAN, sm : Sm, word : Data]
    /\ quiet \in BOOLEAN /\ seen \subseteq {"tx", "rx"} \X Sm
    /\ pull \in [Sm -> BOOLEAN] /\ osr \in [Sm -> Data]
    /\ push \in [Sm -> [on : BOOLEAN, word : Data]] /\ got \in [Sm -> Data]
    /\ dma_state \in DmaStates /\ busy \in BOOLEAN /\ done \in BOOLEAN
    /\ remaining \in Nat /\ dma_data \in Data
    /\ dir \in BOOLEAN /\ sm_sel \in Sm
    /\ latch \in [on : BOOLEAN, dir : BOOLEAN, sm : Sm]
    /\ job \in [dir : BOOLEAN, sm : Sm, len : Nat]
    /\ moved \in Seq(Data) /\ passed \in Seq(Data)

\* No FIFO ever holds more than Depth words, whatever CPU, DMA and programs do
\* to it in the same cycles.
LevelsBounded == \A i \in Sm : Level(tx[i]) <= Depth /\ Level(rx[i]) <= Depth

Contents(f) == [k \in 1 .. Level(f) |-> f.mem[(f.rd + k - 1) % Depth]]

\* The words on their way to a program: those in the FIFO, without the one
\* a PULL has taken while the pointer still shows it, and the CPU's last.
TxWords(i) ==
    LET c == Contents(tx[i])
    IN  (IF pull[i] THEN SubSeq(c, 2, Len(c)) ELSE c)
        \o (IF CpuPush(i).on THEN <<cpu_tx.word>> ELSE <<>>)

RxWords(i) == Contents(rx[i]) \o (IF push[i].on THEN <<push[i].word>> ELSE <<>>)

TxQueue(i) == INSTANCE WordQueue WITH queue <- TxWords(i), taken <- osr[i]
RxQueue(i) == INSTANCE WordQueue WITH queue <- RxWords(i), taken <- got[i]

\* A state machine gets every word that the CPU or the DMA put into its TX
\* FIFO, once and in order.
TxIsQueue ==
    /\ \A i \in Sm : TxQueue(i)!Init
    /\ [][\A i \in Sm : [TxQueue(i)!Next]_(TxQueue(i)!vars)]_vars

\* Every word a program pushes leaves its RX FIFO for the CPU or the DMA, once
\* and in order.
RxIsQueue ==
    /\ \A i \in Sm : RxQueue(i)!Init
    /\ [][\A i \in Sm : [RxQueue(i)!Next]_(RxQueue(i)!vars)]_vars

\* The words of a transfer on the bus are the words that crossed the FIFO it
\* was started for, and DONE means LEN of them.
DmaConserves ==
    /\ IF dma_state \in {"RX_WR_REQ", "RX_WR_WAIT"}
         THEN passed = Append(moved, dma_data)
         ELSE passed = moved
    /\ Len(moved) = job.len - (IF busy THEN remaining ELSE 0)

\* BUSY follows the FSM, the count never passes zero, and a transfer that
\* ends leaves DONE set even if software acknowledges an old DONE in the same
\* cycle.
DoneNotLost ==
    [][/\ busy' <=> dma_state' # "IDLE"
       /\ busy' => remaining' > 0
       /\ busy /\ ~busy' => done'
       /\ ~busy /\ busy' => ~done']_vars

\* pio.md:267: "BLOCK: 1 = stall if FIFO is full (PUSH) or empty (PULL)": a
\* word is only pushed where there is room, and only taken where there is one.
BlockingOpsStall ==
    \A i \in Sm : (push[i].on => ~Full(rx[i])) /\ (pull[i] => ~Empty(tx[i]))

\* A transfer ends if the bus answers and the program keeps its side going.
DmaTerminates == busy ~> done
=============================================================================

--------------------------- MODULE PioFifoProofs ---------------------------
(* Proofs about PioFifo, for every number of state machines, FIFO depth, set *)
(* of words and set of transfer lengths.                                     *)
EXTENDS PioFifo, SequenceTheorems, TLAPS

Port == [on : BOOLEAN, word : Data]

\* A request as the CPU's actions build them.
Request(r) ==
    /\ r.op = "txf" => r.sm \in Sm /\ r.word \in Data
    /\ r.op = "dma" /\ r.go => r.dir \in BOOLEAN /\ r.sm \in Sm /\ r.len \in Nat

\* BUSY follows the FSM, and words are left while it is set.
BusyCoherent == (busy <=> dma_state # "IDLE") /\ (busy => remaining > 0)

IInv == TypeOK /\ LevelsBounded /\ BusyCoherent

----------------------------------------------------------------------------
(* The FIFOs.                                                               *)

LEMMA Slots == ASSUME NEW p \in Pointer PROVE Slot(p) \in 0 .. Depth - 1 /\ Inc(p) \in Pointer
  BY FifoAssumption DEF Slot, Inc, Pointer

LEMMA FullIsDepth ==
    ASSUME NEW f \in Fifo, Level(f) <= Depth
    PROVE  (Full(f) <=> Level(f) = Depth) /\ (Empty(f) <=> Level(f) = 0) /\ Level(f) \in Nat
  <1>1. f.wr \in Pointer /\ f.rd \in Pointer BY DEF Fifo
  <1> QED BY <1>1, FifoAssumption DEF Full, Empty, Level, Slot, Pointer

\* One cycle keeps a FIFO well formed and within its depth, whichever of its
\* users act in it.
LEMMA ClockedFifo ==
    ASSUME NEW f \in Fifo, Level(f) <= Depth, NEW pop \in BOOLEAN, NEW in \in Port
    PROVE  Clocked(f, pop, in) \in Fifo /\ Level(Clocked(f, pop, in)) <= Depth
  <1> DEFINE c == Clocked(f, pop, in)
  <1>1. f.wr \in Pointer /\ f.rd \in Pointer /\ f.mem \in [0 .. Depth - 1 -> Data] BY DEF Fifo
  <1>2. Slot(f.wr) \in 0 .. Depth - 1 /\ Inc(f.wr) \in Pointer /\ Inc(f.rd) \in Pointer
    BY <1>1, Slots
  <1>3. in.word \in Data BY DEF Port
  <1>4. c.mem \in [0 .. Depth - 1 -> Data] BY <1>1, <1>2, <1>3 DEF Clocked
  <1>5. c.wr \in Pointer /\ c.rd \in Pointer BY <1>1, <1>2 DEF Clocked
  <1>6. c \in Fifo
    <2>1. c = [mem |-> c.mem, wr |-> c.wr, rd |-> c.rd] BY DEF Clocked
    <2> HIDE DEF c
    <2> QED BY <1>4, <1>5, <2>1 DEF Fifo
  <1>7. c.wr = f.wr \/ (c.wr = Inc(f.wr) /\ ~Full(f)) BY DEF Clocked
  <1>8. c.rd = f.rd \/ (c.rd = Inc(f.rd) /\ ~Empty(f)) BY DEF Clocked
  <1>9. Level(c) <= Depth
    <2> HIDE DEF c
    <2>1. CASE c.wr = f.wr /\ c.rd = f.rd BY <2>1 DEF Level
    <2>2. CASE c.wr = Inc(f.wr) /\ ~Full(f) /\ c.rd = f.rd
      <3>1. Level(f) < Depth
        <4>1. Level(f) # Depth /\ Level(f) \in Nat BY <2>2, FullIsDepth
        <4> QED BY <4>1, FifoAssumption
      <3>2. CASE f.wr = 2 * Depth - 1
        BY <3>1, <3>2, <2>2, <1>1, FifoAssumption DEF Level, Inc, Pointer
      <3>3. CASE f.wr # 2 * Depth - 1
        BY <3>1, <3>3, <2>2, <1>1, FifoAssumption DEF Level, Inc, Pointer
      <3> QED BY <3>2, <3>3
    <2>3. CASE c.wr = f.wr /\ c.rd = Inc(f.rd) /\ ~Empty(f)
      BY <2>3, <1>1, FifoAssumption DEF Level, Empty, Inc, Pointer
    <2>4. CASE c.wr = Inc(f.wr) /\ ~Full(f) /\ c.rd = Inc(f.rd) /\ ~Empty(f)
      <3>1. CASE f.wr = 2 * Depth - 1 BY <3>1, <2>4, <1>1, FifoAssumption DEF Level, Inc, Pointer
      <3>2. CASE f.wr # 2 * Depth - 1 BY <3>2, <2>4, <1>1, FifoAssumption DEF Level, Inc, Pointer
      <3> QED BY <3>1, <3>2
    <2> QED BY <1>7, <1>8, <2>1, <2>2, <2>3, <2>4
  <1> QED BY <1>6, <1>9

LEMMA Appended == ASSUME NEW S, NEW s \in Seq(S), NEW x \in S PROVE Append(s, x) \in Seq(S)
  OBVIOUS

LEMMA DataHasZero == 0 \in Data /\ 0 \in Sm
  BY FifoAssumption DEF Sm

----------------------------------------------------------------------------
LEMMA InitHolds == Init => IInv
  <1> SUFFICES ASSUME Init PROVE IInv OBVIOUS
  <1>1. ASSUME NEW f \in [mem : [0 .. Depth - 1 -> Data], wr : {0}, rd : {0}]
        PROVE  f \in Fifo /\ Level(f) <= Depth
    BY FifoAssumption DEF Fifo, Level, Pointer
  <1>2. tx \in [Sm -> Fifo] /\ rx \in [Sm -> Fifo] BY <1>1 DEF Init
  <1>3. LevelsBounded BY <1>1 DEF Init, LevelsBounded
  <1>4. BusyCoherent BY DEF Init, BusyCoherent
  <1>5. TypeOK
    <2>1. push \in [Sm -> [on : BOOLEAN, word : Data]] BY DataHasZero DEF Init, None
    <2>2. job \in [dir : BOOLEAN, sm : Sm, len : Nat] BY DataHasZero DEF Init
    <2>3. cpu_tx \in [on : BOOLEAN, sm : Sm, word : Data] BY DataHasZero DEF Init
    <2>4. latch \in [on : BOOLEAN, dir : BOOLEAN, sm : Sm] BY DataHasZero DEF Init
    <2>5. pull \in [Sm -> BOOLEAN] /\ osr \in [Sm -> Data] /\ got \in [Sm -> Data]
      BY DataHasZero DEF Init
    <2>6. quiet \in BOOLEAN /\ seen \subseteq {"tx", "rx"} \X Sm BY DEF Init
    <2>7. /\ dma_state \in DmaStates /\ busy \in BOOLEAN /\ done \in BOOLEAN
          /\ remaining \in Nat /\ dma_data \in Data /\ dir \in BOOLEAN /\ sm_sel \in Sm
      BY DataHasZero DEF Init, DmaStates
    <2>8. moved \in Seq(Data) /\ passed \in Seq(Data) BY DEF Init
    <2> QED BY <1>2, <2>1, <2>2, <2>3, <2>4, <2>5, <2>6, <2>7, <2>8 DEF TypeOK
  <1> QED BY <1>3, <1>4, <1>5 DEF IInv

\* The conjuncts of a cycle, each with what it preserves.
LEMMA FifosStep ==
    ASSUME IInv, NEW r, NEW ok \in BOOLEAN, NEW w \in Data, Fifos(r, ok, w)
    PROVE  tx' \in [Sm -> Fifo] /\ rx' \in [Sm -> Fifo] /\ LevelsBounded'
  <1> USE DEF IInv, TypeOK, LevelsBounded
  <1>1. ASSUME NEW i \in Sm PROVE Override(CpuPush(i), DmaPush(i, ok, w)) \in Port
    BY DEF Override, CpuPush, DmaPush, Port
  <1>2. ASSUME NEW i \in Sm PROVE (CpuPop(i, r) \/ DmaPop(i)) \in BOOLEAN
    BY DEF CpuPop, DmaPop
  <1>3. ASSUME NEW i \in Sm
        PROVE  /\ Clocked(tx[i], pull[i], Override(CpuPush(i), DmaPush(i, ok, w))) \in Fifo
               /\ Level(Clocked(tx[i], pull[i], Override(CpuPush(i), DmaPush(i, ok, w)))) <= Depth
    BY <1>1, ClockedFifo
  <1>4. ASSUME NEW i \in Sm
        PROVE  /\ Clocked(rx[i], CpuPop(i, r) \/ DmaPop(i), push[i]) \in Fifo
               /\ Level(Clocked(rx[i], CpuPop(i, r) \/ DmaPop(i), push[i])) <= Depth
    <2>1. push[i] \in Port BY DEF Port
    <2> QED BY <2>1, <1>2, ClockedFifo
  <1>5. tx' \in [Sm -> Fifo] /\ rx' \in [Sm -> Fifo] BY <1>3, <1>4 DEF Fifos
  <1>6. ASSUME NEW i \in Sm PROVE Level(tx'[i]) <= Depth /\ Level(rx'[i]) <= Depth
    BY <1>3, <1>4 DEF Fifos
  <1> QED BY <1>5, <1>6

LEMMA FrontData == ASSUME NEW f \in Fifo PROVE Front(f) \in Data
  <1>1. f.rd \in Pointer /\ f.mem \in [0 .. Depth - 1 -> Data] BY DEF Fifo
  <1> QED BY <1>1, Slots DEF Front

LEMMA MachinesStep ==
    ASSUME IInv, NEW ops \in [Sm -> Ops], Machines(ops)
    PROVE  /\ pull' \in [Sm -> BOOLEAN] /\ osr' \in [Sm -> Data]
           /\ push' \in [Sm -> [on : BOOLEAN, word : Data]]
  <1> USE DEF IInv, TypeOK
  <1>1. pull' \in [Sm -> BOOLEAN] BY DEF Machines
  <1>2. ASSUME NEW i \in Sm PROVE Front(tx[i]) \in Data BY FrontData
  <1>3. osr' \in [Sm -> Data] BY <1>1, <1>2 DEF Machines
  <1>4. ASSUME NEW i \in Sm PROVE ops[i].word \in Data BY DataHasZero DEF Ops
  <1>5. ASSUME NEW i \in Sm
        PROVE  (IF ops[i].kind = "push" /\ ~Full(rx[i]) THEN Bring(ops[i].word) ELSE None)
                 \in [on : BOOLEAN, word : Data]
    BY <1>4, DataHasZero DEF Bring, None
  <1>6. push' \in [Sm -> [on : BOOLEAN, word : Data]] BY <1>5 DEF Machines
  <1> QED BY <1>1, <1>3, <1>6

LEMMA RegistersStep ==
    ASSUME IInv, NEW r, Request(r), Registers(r)
    PROVE  /\ cpu_tx' \in [on : BOOLEAN, sm : Sm, word : Data]
           /\ quiet' \in BOOLEAN /\ seen' \subseteq {"tx", "rx"} \X Sm
  <1>1. cpu_tx' \in [on : BOOLEAN, sm : Sm, word : Data]
    BY DataHasZero DEF Registers, Request
  <1>2. Fstat \subseteq {"tx", "rx"} \X Sm BY DEF Fstat
  <1>3. seen' \subseteq {"tx", "rx"} \X Sm BY <1>2 DEF Registers, IInv, TypeOK
  <1>4. quiet' \in BOOLEAN BY DEF Registers
  <1> QED BY <1>1, <1>3, <1>4

LEMMA DmaCtrlStep ==
    ASSUME IInv, NEW r, Request(r), DmaCtrl(r)
    PROVE  /\ latch' \in [on : BOOLEAN, dir : BOOLEAN, sm : Sm]
           /\ dir' \in BOOLEAN /\ sm_sel' \in Sm
  <1>1. latch' \in [on : BOOLEAN, dir : BOOLEAN, sm : Sm]
    BY DataHasZero DEF DmaCtrl, Request, DmaGo
  <1>2. dir' \in BOOLEAN /\ sm_sel' \in Sm BY DEF DmaCtrl, IInv, TypeOK
  <1> QED BY <1>1, <1>2

\* One step of the engine; a count of one ends the transfer.
LEMMA DmaStep ==
    ASSUME IInv, NEW r, Request(r), NEW ok \in BOOLEAN, NEW w \in Data, Dma(r, ok, w)
    PROVE  /\ dma_state' \in DmaStates /\ busy' \in BOOLEAN /\ done' \in BOOLEAN
           /\ remaining' \in Nat /\ dma_data' \in Data
           /\ BusyCoherent'
           /\ busy /\ ~busy' => done'
           /\ ~busy /\ busy' => ~done'
  <1> USE DEF DmaStates, BusyCoherent
  <1>1. /\ dma_state \in DmaStates /\ busy \in BOOLEAN /\ done \in BOOLEAN
        /\ remaining \in Nat /\ dma_data \in Data /\ BusyCoherent
    BY DEF IInv, TypeOK
  <1>2. Acked(r) \in BOOLEAN BY <1>1 DEF Acked
  <1>3. CASE DmaIdle(r)
    <2>1. CASE DmaGo(r)
      <3>1. r.dir \in BOOLEAN /\ r.len \in Nat BY <2>1 DEF DmaGo, Request
      <3>2. /\ remaining' = r.len /\ busy' = (r.len # 0) /\ done' = (r.len = 0)
            /\ dma_state' = IF r.len = 0 THEN "IDLE"
                            ELSE IF r.dir THEN "RX_FIFO_WAIT" ELSE "TX_RD_REQ"
            /\ dma_data' = dma_data /\ ~busy
        BY <1>3, <2>1 DEF DmaIdle, DmaGo
      <3>3. CASE r.len = 0 BY <1>1, <3>2, <3>3
      <3>4. CASE r.len # 0
        <4>1. busy' = TRUE /\ done' = FALSE BY <3>2, <3>4, Zenon
        <4>3. remaining' \in Nat /\ remaining' > 0 BY <3>1, <3>2, <3>4
        <4>2. dma_state' \in {"RX_FIFO_WAIT", "TX_RD_REQ"} BY <3>2, <3>4
        <4> QED BY <1>1, <3>2, <4>1, <4>2, <4>3
      <3> QED BY <3>3, <3>4
    <2>2. CASE ~DmaGo(r) BY <1>1, <1>2, <1>3, <2>2 DEF DmaIdle, Goto
    <2> QED BY <2>1, <2>2
  <1>4. CASE TxRdReq(r, ok) BY <1>1, <1>2, <1>4 DEF TxRdReq, Goto
  <1>5. CASE TxRdWait(r, ok, w)
    <2>1. busy /\ remaining > 0 /\ dma_data' \in Data BY <1>1, <1>5 DEF TxRdWait
    <2>2. CASE ok /\ remaining = 1
      <3>1. remaining' = 0 /\ dma_state' = "IDLE" /\ busy' = FALSE /\ done' = TRUE
        BY <1>1, <1>5, <2>2 DEF TxRdWait, Finish
      <3> QED BY <2>1, <3>1
    <2>3. CASE ok /\ remaining # 1
      <3>1. remaining' = remaining - 1 /\ dma_state' = "TX_RD_REQ" /\ busy' = busy /\ done' = Acked(r)
        BY <1>5, <2>3 DEF TxRdWait, Finish
      <3>2. remaining' \in Nat /\ remaining' > 0 BY <1>1, <2>1, <2>3, <3>1
      <3> QED BY <1>2, <2>1, <3>1, <3>2
    <2>4. CASE ~ok
      <3>1. UNCHANGED <<remaining, busy>> /\ dma_state' = "TX_RD_WAIT" /\ done' = Acked(r)
        BY <1>5, <2>4 DEF TxRdWait, Goto
      <3> QED BY <1>1, <1>2, <2>1, <3>1
    <2> QED BY <2>2, <2>3, <2>4
  <1>6. CASE RxFifoWait(r)
    <2>1. Front(rx[sm_sel]) \in Data BY FrontData DEF IInv, TypeOK
    <2> QED BY <1>1, <1>2, <1>6, <2>1 DEF RxFifoWait, Goto
  <1>7. CASE RxWrReq(r, ok) BY <1>1, <1>2, <1>7 DEF RxWrReq, Goto
  <1>8. CASE RxWrWait(r, ok)
    <2>1. busy /\ remaining > 0 /\ dma_data' \in Data BY <1>1, <1>8 DEF RxWrWait
    <2>2. CASE ok /\ remaining = 1
      <3>1. remaining' = 0 /\ dma_state' = "IDLE" /\ busy' = FALSE /\ done' = TRUE
        BY <1>1, <1>8, <2>2 DEF RxWrWait, Finish
      <3> QED BY <2>1, <3>1
    <2>3. CASE ok /\ remaining # 1
      <3>1. remaining' = remaining - 1 /\ dma_state' = "RX_FIFO_WAIT" /\ busy' = busy /\ done' = Acked(r)
        BY <1>8, <2>3 DEF RxWrWait, Finish
      <3>2. remaining' \in Nat /\ remaining' > 0 BY <1>1, <2>1, <2>3, <3>1
      <3> QED BY <1>2, <2>1, <3>1, <3>2
    <2>4. CASE ~ok
      <3>1. UNCHANGED <<remaining, busy>> /\ dma_state' = "RX_WR_WAIT" /\ done' = Acked(r)
        BY <1>8, <2>4 DEF RxWrWait, Goto
      <3> QED BY <1>1, <1>2, <2>1, <3>1
    <2> QED BY <2>2, <2>3, <2>4
  <1> QED BY <1>3, <1>4, <1>5, <1>6, <1>7, <1>8 DEF Dma

LEMMA HistoryStep ==
    ASSUME IInv, NEW r, Request(r), NEW ok \in BOOLEAN, NEW w \in Data, History(r, ok, w),
           tx' \in [Sm -> Fifo]
    PROVE  /\ job' \in [dir : BOOLEAN, sm : Sm, len : Nat]
           /\ moved' \in Seq(Data) /\ passed' \in Seq(Data) /\ got' \in [Sm -> Data]
  <1> USE DEF IInv, TypeOK
  <1>1. job' \in [dir : BOOLEAN, sm : Sm, len : Nat] BY DEF History, DmaGo, Request
  <1>2. Append(moved, w) \in Seq(Data) /\ Append(moved, dma_data) \in Seq(Data)
    BY Appended
  <1>3. moved' \in Seq(Data) BY <1>2 DEF History
  <1>4. Crossing \in Seq(Data)
    <2>1. job.sm \in Sm OBVIOUS
    <2>2. tx[job.sm] \in Fifo /\ tx'[job.sm] \in Fifo /\ rx[job.sm] \in Fifo BY <2>1
    <2>3. Slot(tx[job.sm].wr) \in 0 .. Depth - 1 BY <2>2, Slots DEF Fifo
    <2>4. tx'[job.sm].mem[Slot(tx[job.sm].wr)] \in Data BY <2>2, <2>3 DEF Fifo
    <2>5. Front(rx[job.sm]) \in Data BY <2>2, FrontData
    <2> QED BY <2>4, <2>5 DEF Crossing
  <1>5. passed' \in Seq(Data) BY <1>4 DEF History
  <1>6. ASSUME NEW i \in Sm PROVE Front(rx[i]) \in Data BY FrontData
  <1>7. got' \in [Sm -> Data] BY <1>6 DEF History
  <1> QED BY <1>1, <1>3, <1>5, <1>7

LEMMA CycleStep ==
    ASSUME IInv, NEW r, Request(r), Cycle(r)
    PROVE  IInv' /\ (busy /\ ~busy' => done') /\ (~busy /\ busy' => ~done')
  <1>1. PICK ops \in [Sm -> Ops], ok \in BOOLEAN, w \in ReadWords :
          /\ Fifos(r, ok, w) /\ Machines(ops)
          /\ Registers(r) /\ DmaCtrl(r) /\ Dma(r, ok, w)
          /\ History(r, ok, w)
    BY DEF Cycle
  <1>2. w \in Data BY DataHasZero DEF ReadWords
  <1>3. tx' \in [Sm -> Fifo] /\ rx' \in [Sm -> Fifo] /\ LevelsBounded'
    BY <1>1, <1>2, FifosStep
  <1>4. /\ pull' \in [Sm -> BOOLEAN] /\ osr' \in [Sm -> Data]
        /\ push' \in [Sm -> [on : BOOLEAN, word : Data]]
    BY <1>1, MachinesStep
  <1>5. /\ cpu_tx' \in [on : BOOLEAN, sm : Sm, word : Data]
        /\ quiet' \in BOOLEAN /\ seen' \subseteq {"tx", "rx"} \X Sm
    BY <1>1, RegistersStep
  <1>6. /\ latch' \in [on : BOOLEAN, dir : BOOLEAN, sm : Sm]
        /\ dir' \in BOOLEAN /\ sm_sel' \in Sm
    BY <1>1, DmaCtrlStep
  <1>7. /\ dma_state' \in DmaStates /\ busy' \in BOOLEAN /\ done' \in BOOLEAN
        /\ remaining' \in Nat /\ dma_data' \in Data
        /\ BusyCoherent'
        /\ (busy /\ ~busy' => done') /\ (~busy /\ busy' => ~done')
    BY <1>1, <1>2, DmaStep
  <1>8. /\ job' \in [dir : BOOLEAN, sm : Sm, len : Nat]
        /\ moved' \in Seq(Data) /\ passed' \in Seq(Data) /\ got' \in [Sm -> Data]
    BY <1>1, <1>2, <1>3, HistoryStep
  <1>9. TypeOK' BY <1>3, <1>4, <1>5, <1>6, <1>7, <1>8 DEF TypeOK
  <1> QED BY <1>3, <1>7, <1>9 DEF IInv

\* Every step is a cycle with a well-formed request.
LEMMA NextIsCycle ==
    ASSUME Next, TypeOK
    PROVE  \E r : Request(r) /\ Cycle(r)
  <1>1. CASE NoRequest
    <2>1. Request([op |-> "none"]) BY DEF Request
    <2> QED BY <1>1, <2>1 DEF NoRequest
  <1>2. CASE ReadFstat
    <2>1. Request([op |-> "fstat"]) BY DEF Request
    <2> QED BY <1>2, <2>1 DEF ReadFstat
  <1>3. ASSUME NEW i \in Sm, ReadRxf(i) PROVE \E r : Request(r) /\ Cycle(r)
    <2>1. Request([op |-> "rxf", sm |-> i]) BY DEF Request
    <2> QED BY <1>3, <2>1 DEF ReadRxf
  <1>4. ASSUME NEW i \in Sm, NEW v \in Data, WriteTxf(i, v) PROVE \E r : Request(r) /\ Cycle(r)
    <2>1. Request([op |-> "txf", sm |-> i, word |-> v]) BY DEF Request
    <2> QED BY <1>4, <2>1 DEF WriteTxf
  <1>5. CASE WriteDone
    <2>1. Request([op |-> "dma", go |-> FALSE, w1c |-> TRUE]) BY DEF Request
    <2> QED BY <1>5, <2>1 DEF WriteDone
  <1>6. ASSUME NEW ack \in BOOLEAN, NEW d \in BOOLEAN, NEW i \in Sm, NEW n \in Lengths,
               WriteGo(ack, d, i, n)
        PROVE  \E r : Request(r) /\ Cycle(r)
    <2>1. n \in Nat BY FifoAssumption
    <2>2. Request([op |-> "dma", go |-> TRUE, w1c |-> ack, dir |-> d, sm |-> i, len |-> n])
      BY <2>1 DEF Request
    <2> QED BY <1>6, <2>2 DEF WriteGo
  <1> QED BY <1>1, <1>2, <1>3, <1>4, <1>5, <1>6 DEF Next

LEMMA NextPreserves ==
    ASSUME IInv, Next
    PROVE  IInv' /\ (busy /\ ~busy' => done') /\ (~busy /\ busy' => ~done')
  <1>1. PICK r : Request(r) /\ Cycle(r) BY NextIsCycle DEF IInv
  <1> QED BY <1>1, CycleStep

LEMMA StutterPreserves == IInv /\ UNCHANGED vars => IInv'
  BY DEF IInv, TypeOK, LevelsBounded, BusyCoherent, vars, fifos, cpu, ports, dma, dma_ctrl, history

LEMMA Inductive == Spec => []IInv
  BY InitHolds, NextPreserves, StutterPreserves, PTL DEF Spec

\* The registers keep their types whatever CPU, DMA and programs do: pointers
\* stay inside their width and DMA_CTRL selects a FIFO that exists.
THEOREM TypeCorrect == Spec => []TypeOK
  <1>1. IInv => TypeOK BY DEF IInv
  <1> QED BY <1>1, Inductive, PTL

\* No FIFO of any depth overflows or is read past its end, although up to
\* three users move its pointers in one cycle and nobody keeps to any rule.
THEOREM FifosStayBounded == Spec => []LevelsBounded
  <1>1. IInv => LevelsBounded BY DEF IInv
  <1> QED BY <1>1, Inductive, PTL

\* BUSY and the count follow the FSM, and the end of a transfer sets DONE also
\* in the cycle in which software acknowledges an old DONE.
THEOREM DoneIsNotLost == Spec => DoneNotLost
  <1> DEFINE Step == /\ busy' <=> dma_state' # "IDLE"
                     /\ busy' => remaining' > 0
                     /\ busy /\ ~busy' => done'
                     /\ ~busy /\ busy' => ~done'
  <1>1. IInv /\ Next => Step BY NextPreserves DEF IInv, BusyCoherent
  <1>2. IInv /\ [Next]_vars => [Step]_vars BY <1>1
  <1> HIDE DEF Step
  <1>3. Spec => [][Step]_vars BY <1>2, Inductive, PTL DEF Spec
  <1> QED BY <1>3 DEF DoneNotLost, Step

----------------------------------------------------------------------------
(* Programs that do not push or pull in consecutive cycles.                 *)

LEMMA RoomStays ==
    ASSUME NEW f \in Fifo, Level(f) <= Depth, NEW pop \in BOOLEAN, NEW in \in Port,
           ~in.on, ~Full(f)
    PROVE  ~Full(Clocked(f, pop, in))
  <1> DEFINE c == Clocked(f, pop, in)
  <1> SUFFICES ~Full(c) OBVIOUS
  <1>1. f.wr \in Pointer /\ f.rd \in Pointer BY DEF Fifo
  <1>2. c.wr = f.wr /\ (c.rd = f.rd \/ (c.rd = Inc(f.rd) /\ ~Empty(f))) BY DEF Clocked
  <1>3. c.wr = f.wr /\ c.rd \in Pointer BY <1>1, <1>2, Slots
  <1> HIDE DEF c
  <1>4. CASE c.rd = f.rd BY <1>2, <1>4 DEF Full
  <1>5. CASE c.rd = Inc(f.rd) /\ ~Empty(f)
    BY <1>1, <1>3, <1>5, FifoAssumption DEF Full, Empty, Level, Slot, Inc, Pointer
  <1> QED BY <1>2, <1>4, <1>5

LEMMA WordStays ==
    ASSUME NEW f \in Fifo, Level(f) <= Depth, NEW in \in Port, ~Empty(f)
    PROVE  ~Empty(Clocked(f, FALSE, in))
  <1> DEFINE c == Clocked(f, FALSE, in)
  <1> SUFFICES ~Empty(c) OBVIOUS
  <1>1. f.wr \in Pointer /\ f.rd \in Pointer BY DEF Fifo
  <1>2. c.rd = f.rd /\ (c.wr = f.wr \/ (c.wr = Inc(f.wr) /\ ~Full(f))) BY DEF Clocked
  <1> HIDE DEF c
  <1>3. CASE c.wr = f.wr BY <1>2, <1>3 DEF Empty
  <1>4. CASE c.wr = Inc(f.wr) /\ ~Full(f)
    BY <1>1, <1>2, <1>4, FifoAssumption DEF Full, Empty, Level, Slot, Inc, Pointer
  <1> QED BY <1>2, <1>3, <1>4

\* A program that leaves a cycle between two pushes, and between two pulls,
\* pushes only where there is room and pulls only where there is a word, on
\* FIFOs of any depth and whatever CPU and DMA do.
THEOREM SpacedOpsStall == ASSUME "spaced" \in Rules PROVE Spec => []BlockingOpsStall
  <1>1. Init => BlockingOpsStall BY DEF Init, BlockingOpsStall, None
  <1>2. ASSUME IInv, BlockingOpsStall, Next PROVE BlockingOpsStall'
    <2>1. PICK r : Request(r) /\ Cycle(r) BY <1>2, NextIsCycle DEF IInv
    <2>2. PICK ops \in [Sm -> Ops], ok \in BOOLEAN, w \in ReadWords :
            Spaced(ops) /\ Fifos(r, ok, w) /\ Machines(ops)
      BY <2>1 DEF Cycle
    <2>3. w \in Data BY DataHasZero DEF ReadWords
    <2>4. ASSUME NEW i \in Sm, push'[i].on PROVE ~Full(rx'[i])
      <3>1. ops[i].kind = "push" /\ ~Full(rx[i]) BY <2>2, <2>4 DEF Machines, None
      <3>2. ~push[i].on BY <2>2, <3>1 DEF Spaced
      <3>3. (CpuPop(i, r) \/ DmaPop(i)) \in BOOLEAN /\ push[i] \in Port
        BY <1>2 DEF CpuPop, DmaPop, IInv, TypeOK, Port
      <3>4. rx[i] \in Fifo /\ Level(rx[i]) <= Depth
        BY <1>2 DEF IInv, TypeOK, LevelsBounded
      <3>5. rx'[i] = Clocked(rx[i], CpuPop(i, r) \/ DmaPop(i), push[i]) BY <2>2 DEF Fifos
      <3> QED BY <3>1, <3>2, <3>3, <3>4, <3>5, RoomStays
    <2>5. ASSUME NEW i \in Sm, pull'[i] PROVE ~Empty(tx'[i])
      <3> DEFINE in == Override(CpuPush(i), DmaPush(i, ok, w))
      <3>1. ops[i].kind = "pull" /\ ~Empty(tx[i]) BY <2>2, <2>5 DEF Machines
      <3>2. pull[i] = FALSE BY <1>2, <2>2, <3>1 DEF Spaced, IInv, TypeOK
      <3>3. in \in Port
        BY <1>2, <2>3 DEF Override, CpuPush, DmaPush, Port, IInv, TypeOK
      <3>4. tx[i] \in Fifo /\ Level(tx[i]) <= Depth
        BY <1>2 DEF IInv, TypeOK, LevelsBounded
      <3>5. tx'[i] = Clocked(tx[i], FALSE, in) BY <2>2, <3>2 DEF Fifos
      <3> QED BY <3>1, <3>3, <3>4, <3>5, WordStays
    <2> QED BY <2>4, <2>5 DEF BlockingOpsStall
  <1>3. BlockingOpsStall /\ UNCHANGED vars => BlockingOpsStall'
    BY DEF BlockingOpsStall, vars, fifos, ports
  <1> QED BY <1>1, <1>2, <1>3, Inductive, PTL DEF Spec

----------------------------------------------------------------------------
(* Transfers of software that keeps to the rules for the DMA.               *)

\* Nobody but the DMA is at the near side of the FIFO it serves, the latched
\* selection is the job's, and a word on its way from memory finds room.
Owned ==
    /\ cpu_tx.on \/ latch.on => quiet
    /\ busy /\ latch.on => latch.dir = job.dir /\ latch.sm = job.sm
    /\ busy => dir = job.dir /\ sm_sel = job.sm
    /\ busy => dma_state \in (IF job.dir THEN {"RX_FIFO_WAIT", "RX_WR_REQ", "RX_WR_WAIT"}
                                        ELSE {"TX_RD_REQ", "TX_RD_WAIT"})
    /\ busy /\ ~job.dir => ~(cpu_tx.on /\ cpu_tx.sm = job.sm)
    /\ dma_state = "TX_RD_WAIT" => ~Full(tx[sm_sel])

\* What the rules say of a request.
Ruled(r) ==
    /\ r.op # "none" => ~quiet
    /\ r.op = "txf" => ~Serves("tx", r.sm)
    /\ "poll" \in Rules /\ r.op = "txf" => <<"tx", r.sm>> \in seen
    /\ r.op = "rxf" => ~Serves("rx", r.sm)
    /\ r.op = "dma" /\ r.go => r.len = 0 \/ (r.dir = dir /\ r.sm = sm_sel)

LEMMA NextIsRuled ==
    ASSUME Next, TypeOK, {"leave", "target"} \subseteq Rules
    PROVE  \E r : Request(r) /\ Ruled(r) /\ Cycle(r)
  <1> USE DEF Request, Ruled
  <1>1. CASE NoRequest
    <2>1. Request([op |-> "none"]) /\ Ruled([op |-> "none"]) OBVIOUS
    <2> QED BY <1>1, <2>1 DEF NoRequest
  <1>2. CASE ReadFstat
    <2>1. Request([op |-> "fstat"]) /\ Ruled([op |-> "fstat"]) BY <1>2 DEF ReadFstat
    <2> QED BY <1>2, <2>1 DEF ReadFstat
  <1>3. ASSUME NEW i \in Sm, ReadRxf(i) PROVE \E r : Request(r) /\ Ruled(r) /\ Cycle(r)
    <2> DEFINE r == [op |-> "rxf", sm |-> i]
    <2>1. Request(r) /\ Ruled(r) BY <1>3 DEF ReadRxf, Access, Left
    <2> QED BY <1>3, <2>1 DEF ReadRxf
  <1>4. ASSUME NEW i \in Sm, NEW v \in Data, WriteTxf(i, v)
        PROVE  \E r : Request(r) /\ Ruled(r) /\ Cycle(r)
    <2> DEFINE r == [op |-> "txf", sm |-> i, word |-> v]
    <2>1. Request(r) /\ Ruled(r) BY <1>4 DEF WriteTxf, Access, Left
    <2> QED BY <1>4, <2>1 DEF WriteTxf
  <1>5. CASE WriteDone
    <2> DEFINE r == [op |-> "dma", go |-> FALSE, w1c |-> TRUE]
    <2>1. Request(r) /\ Ruled(r) BY <1>5 DEF WriteDone
    <2> QED BY <1>5, <2>1 DEF WriteDone
  <1>6. ASSUME NEW ack \in BOOLEAN, NEW d \in BOOLEAN, NEW i \in Sm, NEW n \in Lengths,
               WriteGo(ack, d, i, n)
        PROVE  \E r : Request(r) /\ Ruled(r) /\ Cycle(r)
    <2> DEFINE r == [op |-> "dma", go |-> TRUE, w1c |-> ack, dir |-> d, sm |-> i, len |-> n]
    <2>1. n \in Nat BY FifoAssumption
    <2>2. Request(r) /\ Ruled(r) BY <1>6, <2>1 DEF WriteGo
    <2> QED BY <1>6, <2>2 DEF WriteGo
  <1> QED BY <1>1, <1>2, <1>3, <1>4, <1>5, <1>6 DEF Next

LEMMA ClockedIdle ==
    ASSUME NEW f \in Fifo, NEW pop \in BOOLEAN, NEW in \in Port
    PROVE  /\ ~in.on => Clocked(f, pop, in).wr = f.wr
           /\ ~pop => Clocked(f, pop, in).rd = f.rd
  BY DEF Clocked

\* What moves at the far side of the job's FIFO, by the state of the engine.
LEMMA CrossingIs ==
    ASSUME IInv, Owned, busy, NEW r, Ruled(r), NEW ok \in BOOLEAN, NEW w \in Data,
           Fifos(r, ok, w)
    PROVE  Crossing = IF dma_state = "TX_RD_WAIT" /\ ok THEN <<w>>
                      ELSE IF dma_state = "RX_FIFO_WAIT" /\ ~Empty(rx[sm_sel])
                             THEN <<Front(rx[sm_sel])>>
                      ELSE <<>>
  <1> DEFINE j == job.sm
             in == Override(CpuPush(j), DmaPush(j, ok, w))
             pop == CpuPop(j, r) \/ DmaPop(j)
  <1>1. j \in Sm /\ sm_sel = j /\ dir = job.dir /\ job.dir \in BOOLEAN
    BY DEF IInv, TypeOK, Owned
  <1>2. tx[j] \in Fifo /\ rx[j] \in Fifo /\ pull[j] \in BOOLEAN /\ push[j] \in Port
    BY <1>1 DEF IInv, TypeOK, Port
  <1>3. tx'[j] = Clocked(tx[j], pull[j], in) /\ rx'[j] = Clocked(rx[j], pop, push[j])
    BY <1>1 DEF Fifos
  <1>4. in \in Port /\ pop \in BOOLEAN
    BY <1>1 DEF Override, CpuPush, DmaPush, CpuPop, DmaPop, IInv, TypeOK, Port
  <1>5. CASE ~job.dir
    <2>1. dma_state \in {"TX_RD_REQ", "TX_RD_WAIT"} BY <1>5 DEF Owned
    <2>2. ~CpuPush(j).on BY <1>5 DEF Owned, CpuPush
    <2>3. in.on <=> dma_state = "TX_RD_WAIT" /\ ok
      BY <1>1, <1>5, <2>1, <2>2 DEF Override, CpuPush, DmaPush
    <2>4. CASE in.on
      <3>1. in.word = w BY <2>2, <2>4 DEF Override, DmaPush, CpuPush
      <3>2. ~Full(tx[j]) BY <1>1, <2>3, <2>4 DEF Owned
      <3>3. tx[j].wr \in Pointer /\ tx[j].mem \in [0 .. Depth - 1 -> Data] BY <1>2 DEF Fifo
      <3>4. Slot(tx[j].wr) \in 0 .. Depth - 1 BY <3>3, Slots
      <3> DEFINE slot == Slot(tx[j].wr)
      <3>7. tx'[j].mem = [tx[j].mem EXCEPT ![slot] = w]
        <4> HIDE DEF slot, in
        <4> QED BY <1>3, <2>4, <3>1, <3>2 DEF Clocked, slot
      <3>8. tx'[j].mem[slot] = w
        <4> HIDE DEF slot
        <4> QED BY <3>3, <3>4, <3>7 DEF slot
      <3>9. tx'[j].wr = Inc(tx[j].wr)
        <4> HIDE DEF in
        <4> QED BY <1>3, <2>4, <3>2 DEF Clocked
      <3>5. tx'[j].wr = Inc(tx[j].wr) /\ tx'[j].mem[Slot(tx[j].wr)] = w BY <3>8, <3>9
      <3>6. Inc(tx[j].wr) # tx[j].wr BY <3>3, FifoAssumption DEF Inc, Pointer
      <3> QED BY <1>5, <2>3, <2>4, <3>5, <3>6 DEF Crossing
    <2>5. CASE ~in.on
      <3>1. tx'[j].wr = tx[j].wr BY <1>2, <1>3, <1>4, <2>5, ClockedIdle
      <3> QED BY <1>5, <2>1, <2>3, <2>5, <3>1 DEF Crossing
    <2> QED BY <2>4, <2>5
  <1>6. CASE job.dir
    <2>1. dma_state \in {"RX_FIFO_WAIT", "RX_WR_REQ", "RX_WR_WAIT"} BY <1>6 DEF Owned
    <2>2. ~CpuPop(j, r) BY <1>6 DEF Ruled, CpuPop, Serves
    <2>3. pop <=> dma_state = "RX_FIFO_WAIT" BY <1>1, <1>6, <2>2 DEF DmaPop
    <2>4. CASE pop /\ ~Empty(rx[j])
      <3>1. rx[j].rd \in Pointer BY <1>2 DEF Fifo
      <3>2. rx'[j].rd = Inc(rx[j].rd) BY <1>3, <2>4 DEF Clocked
      <3>3. Inc(rx[j].rd) # rx[j].rd BY <3>1, FifoAssumption DEF Inc, Pointer
      <3> QED BY <1>1, <1>6, <2>3, <2>4, <3>2, <3>3 DEF Crossing
    <2>5. CASE ~(pop /\ ~Empty(rx[j]))
      <3>1. rx'[j].rd = rx[j].rd BY <1>3, <2>5 DEF Clocked
      <3> QED BY <1>1, <1>6, <2>1, <2>3, <2>5, <3>1 DEF Crossing
    <2> QED BY <2>4, <2>5
  <1> QED BY <1>1, <1>5, <1>6

\* The engine's next state.
LEMMA DmaMoves ==
    ASSUME IInv, NEW r, Request(r), NEW ok \in BOOLEAN, NEW w, Dma(r, ok, w)
    PROVE  /\ DmaGo(r) =>
                /\ ~busy /\ remaining' = r.len /\ (busy' <=> r.len # 0)
                /\ busy' => dma_state' = IF r.dir THEN "RX_FIFO_WAIT" ELSE "TX_RD_REQ"
                /\ ~busy' => dma_state' = "IDLE"
           /\ ~DmaGo(r) =>
                /\ ~busy => dma_state' = "IDLE" /\ ~busy'
                /\ busy /\ dma_state \in {"TX_RD_WAIT", "RX_WR_WAIT"} /\ ok =>
                     /\ remaining' = remaining - 1 /\ (busy' <=> remaining # 1)
                     /\ dma_state' = IF remaining = 1 THEN "IDLE"
                                     ELSE IF dma_state = "TX_RD_WAIT" THEN "TX_RD_REQ"
                                     ELSE "RX_FIFO_WAIT"
                /\ busy /\ ~(dma_state \in {"TX_RD_WAIT", "RX_WR_WAIT"} /\ ok) =>
                     /\ remaining' = remaining /\ busy'
                     /\ dma_state = "TX_RD_REQ" => \/ dma_state' = "TX_RD_REQ"
                                                   \/ dma_state' = "TX_RD_WAIT" /\ ~Full(tx[sm_sel])
                     /\ dma_state = "TX_RD_WAIT" => dma_state' = "TX_RD_WAIT"
                     /\ dma_state = "RX_FIFO_WAIT" =>
                          IF Empty(rx[sm_sel]) THEN dma_state' = "RX_FIFO_WAIT"
                          ELSE dma_state' = "RX_WR_REQ" /\ dma_data' = Front(rx[sm_sel])
                     /\ dma_state = "RX_WR_REQ" => dma_state' \in {"RX_WR_REQ", "RX_WR_WAIT"}
                                                    /\ dma_data' = dma_data
                     /\ dma_state = "RX_WR_WAIT" => dma_state' = "RX_WR_WAIT" /\ dma_data' = dma_data
  <1>1. /\ dma_state \in DmaStates /\ busy \in BOOLEAN /\ remaining \in Nat
        /\ (busy <=> dma_state # "IDLE")
    BY DEF IInv, TypeOK, BusyCoherent
  <1>2. DmaGo(r) => ~busy BY DEF DmaGo
  <1>3. CASE DmaIdle(r)
    <2>1. CASE DmaGo(r)
      <3>1. /\ remaining' = r.len /\ busy' = (r.len # 0)
            /\ dma_state' = IF r.len = 0 THEN "IDLE"
                            ELSE IF r.dir THEN "RX_FIFO_WAIT" ELSE "TX_RD_REQ"
        BY <1>3, <2>1 DEF DmaIdle
      <3>2. busy' <=> r.len # 0 BY <3>1, Zenon
      <3> QED BY <1>2, <2>1, <3>1, <3>2
    <2>2. CASE ~DmaGo(r) BY <1>1, <1>3, <2>2 DEF DmaIdle, Goto
    <2> QED BY <2>1, <2>2
  <1>4. CASE TxRdReq(r, ok) BY <1>1, <1>2, <1>4 DEF TxRdReq, Goto
  <1>5. CASE TxRdWait(r, ok, w)
    <2>1. CASE ok /\ remaining = 1 BY <1>1, <1>2, <1>5, <2>1 DEF TxRdWait, Finish
    <2>2. CASE ok /\ remaining # 1 BY <1>1, <1>2, <1>5, <2>2 DEF TxRdWait, Finish
    <2>3. CASE ~ok BY <1>1, <1>2, <1>5, <2>3 DEF TxRdWait, Goto
    <2> QED BY <2>1, <2>2, <2>3
  <1>6. CASE RxFifoWait(r) BY <1>1, <1>2, <1>6 DEF RxFifoWait, Goto
  <1>7. CASE RxWrReq(r, ok) BY <1>1, <1>2, <1>7 DEF RxWrReq, Goto
  <1>8. CASE RxWrWait(r, ok)
    <2>1. CASE ok /\ remaining = 1 BY <1>1, <1>2, <1>8, <2>1 DEF RxWrWait, Finish
    <2>2. CASE ok /\ remaining # 1 BY <1>1, <1>2, <1>8, <2>2 DEF RxWrWait, Finish
    <2>3. CASE ~ok BY <1>1, <1>2, <1>8, <2>3 DEF RxWrWait, Goto
    <2> QED BY <2>1, <2>2, <2>3
  <1> QED BY <1>3, <1>4, <1>5, <1>6, <1>7, <1>8 DEF Dma

LEMMA OwnedStep ==
    ASSUME IInv, Owned, NEW r, Request(r), Ruled(r), NEW ok \in BOOLEAN, NEW w \in Data,
           Fifos(r, ok, w), Registers(r), DmaCtrl(r), Dma(r, ok, w), History(r, ok, w), IInv'
    PROVE  Owned'
  <1>1. /\ cpu_tx'.on => r.op = "txf" /\ cpu_tx'.sm = r.sm
        /\ latch'.on => DmaGo(r) /\ latch'.dir = r.dir /\ latch'.sm = r.sm
        /\ r.op # "none" => quiet'
    BY DEF Registers, DmaCtrl
  <1>2. DmaGo(r) => r.op = "dma" /\ r.go /\ ~latch.on BY DEF DmaGo, Ruled, Owned
  <1>3. /\ DmaGo(r) => job' = [dir |-> r.dir, sm |-> r.sm, len |-> r.len]
        /\ ~DmaGo(r) => job' = job
    BY DEF History
  <1>4. /\ ~latch.on => dir' = dir /\ sm_sel' = sm_sel
        /\ latch.on => dir' = latch.dir /\ sm_sel' = latch.sm
    BY DEF DmaCtrl
  <1>5. (busy <=> dma_state # "IDLE") /\ (busy' <=> dma_state' # "IDLE") BY DEF IInv, BusyCoherent
  <1>6. cpu_tx'.on \/ latch'.on => quiet' BY <1>1, <1>2
  <1>7. CASE DmaGo(r)
    <2>1. ~busy /\ (busy' => r.len # 0)
          /\ (busy' => dma_state' = IF r.dir THEN "RX_FIFO_WAIT" ELSE "TX_RD_REQ")
          /\ (~busy' => dma_state' = "IDLE")
      BY <1>7, DmaMoves
    <2>2. job'.dir = r.dir /\ job'.sm = r.sm BY <1>3, <1>7
    <2>3. busy' => dir' = job'.dir /\ sm_sel' = job'.sm
      BY <1>2, <1>4, <1>7, <2>1, <2>2 DEF Ruled
    <2>4. ~cpu_tx'.on BY <1>1, <1>2, <1>7
    <2> QED BY <1>1, <1>6, <2>1, <2>2, <2>3, <2>4 DEF Owned
  <1>8. CASE ~DmaGo(r)
    <2>1. CASE ~busy
      <3>1. ~busy' /\ dma_state' = "IDLE" BY <1>8, <2>1, DmaMoves
      <3> QED BY <1>6, <3>1 DEF Owned
    <2>2. CASE busy
      <3>1. job' = job /\ dir' = job.dir /\ sm_sel' = job.sm /\ sm_sel = job.sm /\ dir = job.dir
        BY <1>3, <1>4, <1>8, <2>2 DEF Owned
      <3>2. ~job.dir => ~(cpu_tx'.on /\ cpu_tx'.sm = job.sm)
        BY <1>1, <2>2 DEF Ruled, Serves
      <3>3. busy' => dma_state' \in (IF job.dir THEN {"RX_FIFO_WAIT", "RX_WR_REQ", "RX_WR_WAIT"}
                                               ELSE {"TX_RD_REQ", "TX_RD_WAIT"})
        <4>1. CASE job.dir BY <1>5, <1>8, <2>2, <4>1, DmaMoves DEF Owned
        <4>2. CASE ~job.dir BY <1>5, <1>8, <2>2, <4>2, DmaMoves DEF Owned
        <4> QED BY <4>1, <4>2
      <3>4. dma_state' = "TX_RD_WAIT" => ~Full(tx'[sm_sel'])
        <4> SUFFICES ASSUME dma_state' = "TX_RD_WAIT" PROVE ~Full(tx'[sm_sel]) BY <3>1
        <4> DEFINE in == Override(CpuPush(sm_sel), DmaPush(sm_sel, ok, w))
        <4>1. ~job.dir BY <1>5, <3>3
        <4>2. \/ dma_state = "TX_RD_REQ" /\ ~Full(tx[sm_sel])
              \/ dma_state = "TX_RD_WAIT" /\ ~ok
          BY <1>8, <2>2, <4>1, DmaMoves DEF Owned
        <4>3. ~Full(tx[sm_sel]) BY <4>2 DEF Owned
        <4>4. ~in.on BY <2>2, <3>1, <4>1, <4>2 DEF Override, CpuPush, DmaPush, Owned
        <4>5. /\ tx[sm_sel] \in Fifo /\ Level(tx[sm_sel]) <= Depth
              /\ pull[sm_sel] \in BOOLEAN /\ in \in Port
          BY DEF IInv, TypeOK, LevelsBounded, Override, CpuPush, DmaPush, Port
        <4>6. tx'[sm_sel] = Clocked(tx[sm_sel], pull[sm_sel], in) BY DEF Fifos, IInv, TypeOK
        <4> HIDE DEF in
        <4> QED BY <4>3, <4>4, <4>5, <4>6, RoomStays
      <3>5. latch'.on => FALSE BY <1>1, <1>8
      <3> QED BY <1>6, <3>1, <3>2, <3>3, <3>4, <3>5 DEF Owned
    <2> QED BY <2>1, <2>2
  <1> QED BY <1>7, <1>8

LEMMA Joined ==
    ASSUME NEW S, NEW s \in Seq(S), NEW x \in S
    PROVE  s \o <<x>> = Append(s, x) /\ s \o <<>> = s /\ Len(Append(s, x)) = Len(s) + 1
  OBVIOUS

LEMMA ConservesStep ==
    ASSUME IInv, Owned, DmaConserves, NEW r, Request(r), Ruled(r),
           NEW ok \in BOOLEAN, NEW w \in Data,
           Fifos(r, ok, w), Dma(r, ok, w), History(r, ok, w), IInv'
    PROVE  DmaConserves'
  <1>1. /\ moved \in Seq(Data) /\ dma_data \in Data /\ remaining \in Nat
        /\ (busy => remaining > 0) /\ job.len \in Nat
        /\ (busy <=> dma_state # "IDLE") /\ (busy' <=> dma_state' # "IDLE")
        /\ dma_state \in DmaStates
    BY DEF IInv, TypeOK, BusyCoherent
  <1>2. CASE DmaGo(r)
    <2>1. job'.len = r.len /\ moved' = <<>> /\ passed' = <<>> BY <1>2 DEF History
    <2>2. remaining' = r.len /\ (busy' <=> r.len # 0) /\ r.len \in Nat
      BY <1>2, DmaMoves DEF DmaGo, Request
    <2>3. dma_state' \notin {"RX_WR_REQ", "RX_WR_WAIT"} BY <1>2, DmaMoves
    <2> QED BY <2>1, <2>2, <2>3 DEF DmaConserves
  <1>3. CASE ~DmaGo(r) /\ ~busy
    <2>1. dma_state' = "IDLE" /\ ~busy' BY <1>3, DmaMoves
    <2>2. job' = job /\ moved' = moved /\ passed' = passed BY <1>1, <1>3 DEF History
    <2> QED BY <1>1, <1>3, <2>1, <2>2 DEF DmaConserves
  <1>4. CASE ~DmaGo(r) /\ busy
    <2>1. Len(moved) = job.len - remaining /\ Len(moved) < job.len /\ job' = job
      BY <1>1, <1>4 DEF DmaConserves, History
    <2>2. passed \in {moved, Append(moved, dma_data)} BY DEF DmaConserves
    <2>3. Len(passed) <= job.len BY <1>1, <2>1, <2>2, Joined
    <2>4. passed' = passed \o Crossing BY <1>4, <2>3 DEF History
    <2>5. CASE dma_state = "TX_RD_WAIT" /\ ok
      <3>1. moved' = Append(moved, w) BY <1>4, <2>5 DEF History
      <3>2. passed = moved BY <2>5 DEF DmaConserves
      <3>3. Crossing = <<w>> BY <1>4, <2>5, CrossingIs
      <3>4. passed' = moved' BY <1>1, <2>4, <3>1, <3>2, <3>3, Joined
      <3>5. /\ remaining' = remaining - 1 /\ (busy' <=> remaining # 1)
            /\ dma_state' \in {"IDLE", "TX_RD_REQ"}
        BY <1>4, <2>5, DmaMoves
      <3>6. Len(moved') = Len(moved) + 1 BY <1>1, <3>1, Joined
      <3> QED BY <1>1, <2>1, <3>4, <3>5, <3>6 DEF DmaConserves
    <2>6. CASE dma_state = "RX_WR_WAIT" /\ ok
      <3>1. moved' = Append(moved, dma_data) BY <1>4, <2>6 DEF History
      <3>2. passed = Append(moved, dma_data) BY <2>6 DEF DmaConserves
      <3>3. Crossing = <<>> BY <1>4, <2>6, CrossingIs
      <3>4. Append(moved, dma_data) \in Seq(Data) BY <1>1, Appended
      <3>5. passed' = moved' BY <2>4, <3>1, <3>2, <3>3, <3>4
      <3>6. /\ remaining' = remaining - 1 /\ (busy' <=> remaining # 1)
            /\ dma_state' \in {"IDLE", "RX_FIFO_WAIT"}
        BY <1>4, <2>6, DmaMoves
      <3>7. Len(moved') = Len(moved) + 1 BY <1>1, <3>1, Joined
      <3> QED BY <1>1, <2>1, <3>5, <3>6, <3>7 DEF DmaConserves
    <2>7. CASE ~(dma_state \in {"TX_RD_WAIT", "RX_WR_WAIT"} /\ ok)
      <3>1. moved' = moved /\ remaining' = remaining /\ busy'
        BY <1>4, <2>7, DmaMoves DEF History
      <3>2. Len(moved') = job'.len - remaining' BY <2>1, <3>1
      <3>3. CASE dma_state = "RX_FIFO_WAIT" /\ ~Empty(rx[sm_sel])
        <4>1. dma_state' = "RX_WR_REQ" /\ dma_data' = Front(rx[sm_sel])
          BY <1>4, <3>3, DmaMoves
        <4>2. Crossing = <<Front(rx[sm_sel])>> BY <1>4, <3>3, CrossingIs
        <4>3. passed = moved BY <3>3 DEF DmaConserves
        <4>4. dma_data' \in Data BY DEF IInv, TypeOK
        <4>5. passed' = Append(moved', dma_data')
          BY <1>1, <2>4, <3>1, <4>1, <4>2, <4>3, <4>4, Joined
        <4> QED BY <3>1, <3>2, <4>1, <4>5 DEF DmaConserves
      <3>4. CASE ~(dma_state = "RX_FIFO_WAIT" /\ ~Empty(rx[sm_sel]))
        <4>1. Crossing = <<>> BY <1>4, <2>7, <3>4, CrossingIs
        <4>2. passed \in Seq(Data) BY DEF IInv, TypeOK
        <4>3. passed' = passed BY <2>4, <4>1, <4>2
        <4>4. CASE dma_state \in {"RX_WR_REQ", "RX_WR_WAIT"}
          <5>1. dma_state' \in {"RX_WR_REQ", "RX_WR_WAIT"} /\ dma_data' = dma_data
            BY <1>4, <2>7, <4>4, DmaMoves
          <5> QED BY <3>1, <3>2, <4>3, <4>4, <5>1 DEF DmaConserves
        <4>5. CASE dma_state \notin {"RX_WR_REQ", "RX_WR_WAIT"}
          <5>1. dma_state \in {"TX_RD_REQ", "TX_RD_WAIT", "RX_FIFO_WAIT"}
            BY <1>1, <1>4, <4>5 DEF DmaStates
          <5>2. dma_state' \notin {"RX_WR_REQ", "RX_WR_WAIT"}
            BY <1>4, <2>7, <3>4, <5>1, DmaMoves
          <5> QED BY <3>1, <3>2, <4>3, <4>5, <5>2 DEF DmaConserves
        <4> QED BY <4>4, <4>5
      <3> QED BY <3>3, <3>4
    <2> QED BY <2>5, <2>6, <2>7
  <1> QED BY <1>2, <1>3, <1>4

\* A transfer moves each word of memory into its FIFO, or of its FIFO into
\* memory, once and in order, and DONE means all of them, if software leaves
\* the FIFO to the transfer and starts it in the direction and on the state
\* machine of the last GO: for FIFOs of any depth, any length and any bus.
THEOREM TransfersConserve ==
    ASSUME {"leave", "target"} \subseteq Rules PROVE Spec => []DmaConserves
  <1>1. ASSUME Init PROVE Owned /\ DmaConserves
    <2>1. Owned BY <1>1 DEF Init, Owned
    <2>2. /\ dma_state = "IDLE" /\ ~busy
          /\ moved = <<>> /\ passed = <<>> /\ job = [dir |-> FALSE, sm |-> 0, len |-> 0]
      BY <1>1 DEF Init
    <2>3. DmaConserves BY <2>2 DEF DmaConserves
    <2> QED BY <2>1, <2>3
  <1>2. ASSUME IInv, Owned, DmaConserves, Next PROVE Owned' /\ DmaConserves'
    <2>1. PICK r : Request(r) /\ Ruled(r) /\ Cycle(r) BY <1>2, NextIsRuled DEF IInv
    <2>2. IInv' BY <1>2, <2>1, CycleStep
    <2>3. PICK ok \in BOOLEAN, w \in ReadWords :
            /\ Fifos(r, ok, w) /\ Registers(r) /\ DmaCtrl(r) /\ Dma(r, ok, w)
            /\ History(r, ok, w)
      BY <2>1 DEF Cycle
    <2>4. w \in Data BY DataHasZero DEF ReadWords
    <2>5. Owned' BY <1>2, <2>1, <2>2, <2>3, <2>4, OwnedStep
    <2>6. DmaConserves' BY <1>2, <2>1, <2>2, <2>3, <2>4, ConservesStep
    <2> QED BY <2>5, <2>6
  <1>3. Owned /\ DmaConserves /\ UNCHANGED vars => Owned' /\ DmaConserves'
    BY DEF Owned, DmaConserves, Full, vars, fifos, cpu, ports, dma, dma_ctrl, history
  <1> QED BY <1>1, <1>2, <1>3, Inductive, PTL DEF Spec

----------------------------------------------------------------------------
(***************************************************************************)
(* The FIFOs as queues.  A cycle takes the first word off the contents of  *)
(* a FIFO, puts one behind the last, or both.                              *)
(***************************************************************************)
Without(s, took) == IF took THEN Tail(s) ELSE s
With(s, in) == IF in.on THEN Append(s, in.word) ELSE s

\* The slot of the k-th word behind a read pointer, from 0.
Cell(p, k) ==
    IF p + k < Depth THEN p + k ELSE IF p + k < 2 * Depth THEN p + k - Depth ELSE p + k - 2 * Depth

LEMMA CellIs ==
    ASSUME NEW p \in Pointer, NEW k \in 0 .. Depth - 1
    PROVE  (p + k) % Depth = Cell(p, k) /\ Cell(p, k) \in 0 .. Depth - 1
  <1>1. Depth \in Nat /\ Depth > 0 BY FifoAssumption
  <1>2. \A z \in Nat : z < Depth => z % Depth = z BY <1>1
  <1>3. \A z \in Nat : Depth <= z /\ z < 2 * Depth => z % Depth = z - Depth BY <1>1
  <1>4. \A z \in Nat : 2 * Depth <= z /\ z < 3 * Depth => z % Depth = z - 2 * Depth BY <1>1
  <1>5. p + k \in Nat /\ p + k < 3 * Depth BY <1>1 DEF Pointer
  <1> DEFINE z == p + k
  <1> HIDE DEF z
  <1>6. z \in Nat /\ z < 3 * Depth BY <1>5 DEF z
  <1>7. z % Depth = IF z < Depth THEN z ELSE IF z < 2 * Depth THEN z - Depth ELSE z - 2 * Depth
    BY <1>1, <1>2, <1>3, <1>4, <1>6
  <1>8. z % Depth \in 0 .. Depth - 1 BY <1>1, <1>6, <1>7
  <1>9. p \in Nat /\ k \in Nat BY <1>1 DEF Pointer
  <1>10. z % Depth = Cell(p, k) BY <1>1, <1>7, <1>9 DEF Cell, z
  <1> QED BY <1>8, <1>10 DEF z

LEMMA ContentsAre ==
    ASSUME NEW f \in Fifo, Level(f) <= Depth
    PROVE  /\ Contents(f) \in Seq(Data) /\ Len(Contents(f)) = Level(f) /\ Level(f) \in Nat
           /\ \A k \in 1 .. Level(f) : Contents(f)[k] = f.mem[Cell(f.rd, k - 1)]
  <1>1. f.rd \in Pointer /\ f.mem \in [0 .. Depth - 1 -> Data] BY DEF Fifo
  <1>2. Level(f) \in Nat BY FullIsDepth
  <1>3. ASSUME NEW k \in 1 .. Level(f)
        PROVE  /\ Contents(f)[k] = f.mem[Cell(f.rd, k - 1)] /\ Contents(f)[k] \in Data
    <2>1. k - 1 \in 0 .. Depth - 1 BY <1>2, FifoAssumption
    <2>2. f.rd + k - 1 = f.rd + (k - 1) BY <1>1, <1>2, FifoAssumption DEF Pointer
    <2>3. (f.rd + k - 1) % Depth = Cell(f.rd, k - 1) /\ Cell(f.rd, k - 1) \in 0 .. Depth - 1
      BY <1>1, <2>1, <2>2, CellIs
    <2>4. Contents(f)[k] = f.mem[(f.rd + k - 1) % Depth] BY DEF Contents
    <2> QED BY <1>1, <2>3, <2>4
  <1>4. Contents(f) = [k \in 1 .. Level(f) |-> Contents(f)[k]] BY DEF Contents
  <1>5. Contents(f) \in Seq(Data) /\ Len(Contents(f)) = Level(f)
    <2> DEFINE s == Contents(f)
    <2> HIDE DEF s
    <2>1. s \in [1 .. Level(f) -> Data] BY <1>3, <1>4 DEF s
    <2>2. s \in Seq(Data) /\ Len(s) = Level(f) BY <1>2, <2>1
    <2> QED BY <2>2 DEF s
  <1> QED BY <1>2, <1>3, <1>5

\* The arithmetic of a cycle: by how much the level changes, which slot each
\* word is in afterwards, and that the slot written is behind the last word.
LEMMA ClockedCells ==
    ASSUME NEW f \in Fifo, Level(f) <= Depth,
           NEW c \in Fifo, Level(c) <= Depth,
           NEW t \in {0, 1}, NEW p \in {0, 1},
           t = 1 => ~Empty(f) /\ c.rd = Inc(f.rd), t = 0 => c.rd = f.rd,
           p = 1 => ~Full(f) /\ c.wr = Inc(f.wr), p = 0 => c.wr = f.wr
    PROVE  /\ Level(c) = Level(f) - t + p
           /\ \A k \in 1 .. Level(c) :
                /\ Cell(c.rd, k - 1) = Cell(f.rd, k - 1 + t)
                /\ k + t <= Level(f) <=> k < Level(c) \/ p = 0
                /\ p = 1 => (Cell(c.rd, k - 1) = Slot(f.wr) <=> k = Level(c))
  <1>1. /\ f.wr \in Pointer /\ f.rd \in Pointer /\ c.wr \in Pointer /\ c.rd \in Pointer
        /\ Depth \in Nat /\ Depth > 0
    BY FifoAssumption DEF Fifo
  <1>2. Level(f) \in Nat /\ (Full(f) <=> Level(f) = Depth) /\ (Empty(f) <=> Level(f) = 0)
    BY FullIsDepth
  <1>3. Level(c) = Level(f) - t + p
    <2>1. /\ t = 1 => Level(f) > 0
          /\ p = 1 => Level(f) < Depth
      BY <1>1, <1>2
    <2>2. CASE t = 0 /\ p = 0 BY <1>2, <2>2 DEF Level
    <2>3. CASE t = 1 /\ p = 0 BY <1>1, <2>1, <2>3 DEF Level, Inc, Pointer
    <2>4. CASE t = 0 /\ p = 1 BY <1>1, <2>1, <2>4 DEF Level, Inc, Pointer
    <2>5. CASE t = 1 /\ p = 1 BY <1>1, <2>1, <2>5 DEF Level, Inc, Pointer
    <2> QED BY <2>2, <2>3, <2>4, <2>5
  <1>4. ASSUME NEW k \in 1 .. Level(c)
        PROVE  /\ Cell(c.rd, k - 1) = Cell(f.rd, k - 1 + t)
               /\ k + t <= Level(f) <=> k < Level(c) \/ p = 0
               /\ p = 1 => (Cell(c.rd, k - 1) = Slot(f.wr) <=> k = Level(c))
    <2>1. k \in Nat /\ k >= 1 /\ k <= Level(c) /\ k <= Depth /\ Level(c) \in Nat
      BY <1>1, <1>2, <1>3
    <2>2. Cell(c.rd, k - 1) = Cell(f.rd, k - 1 + t)
      <3>1. CASE t = 0 BY <1>1, <2>1, <3>1 DEF Cell
      <3>2. CASE t = 1 BY <1>1, <2>1, <3>2 DEF Cell, Inc, Pointer
      <3> QED BY <3>1, <3>2
    <2>3. k + t <= Level(f) <=> k < Level(c) \/ p = 0
      BY <1>2, <1>3, <2>1
    <2>4. ASSUME p = 1 PROVE Cell(f.rd, k - 1 + t) = Slot(f.wr) <=> k = Level(c)
      <3>1. Level(f) < Depth /\ k - 1 + t <= Level(f) /\ (k = Level(c) <=> k - 1 + t = Level(f))
        BY <1>1, <1>2, <1>3, <2>1, <2>4
      <3> DEFINE m == k - 1 + t
      <3>2. m \in Nat /\ m <= Level(f) BY <2>1, <3>1
      <3> HIDE DEF m
      <3>3. Cell(f.rd, m) = Slot(f.wr) <=> m = Level(f)
        BY <1>1, <3>1, <3>2 DEF Cell, Slot, Level, Pointer
      <3> QED BY <3>1, <3>3 DEF m
    <2> QED BY <2>2, <2>3, <2>4
  <1> QED BY <1>3, <1>4

\* The first word and the rest of a sequence.
LEMMA Pieces ==
    ASSUME NEW s \in Seq(Data)
    PROVE  /\ s # <<>> <=> Len(s) # 0
           /\ s # <<>> => /\ Tail(s) \in Seq(Data) /\ Len(Tail(s)) = Len(s) - 1
                          /\ Head(s) = s[1]
                          /\ \A k \in 1 .. Len(s) - 1 : Tail(s)[k] = s[k + 1]
  OBVIOUS

LEMMA EqualSequences ==
    ASSUME NEW s \in Seq(Data), NEW u \in Seq(Data), Len(s) = Len(u),
           \A k \in 1 .. Len(s) : s[k] = u[k]
    PROVE  s = u
  OBVIOUS

LEMMA WithoutIs ==
    ASSUME NEW s \in Seq(Data), NEW took \in BOOLEAN, took => s # <<>>,
           NEW t, t = IF took THEN 1 ELSE 0
    PROVE  /\ Without(s, took) \in Seq(Data)
           /\ Len(Without(s, took)) = Len(s) - t
           /\ \A k \in 1 .. Len(s) - t : Without(s, took)[k] = s[k + t]
  <1>1. CASE took
    <2>1. Without(s, took) = Tail(s) /\ s # <<>> BY <1>1 DEF Without
    <2> QED BY <1>1, <2>1, Pieces
  <1>2. CASE ~took
    <2>1. Without(s, took) = s /\ Len(s) \in Nat BY <1>2 DEF Without
    <2> QED BY <1>2, <2>1
  <1> QED BY <1>1, <1>2

LEMMA WithIs ==
    ASSUME NEW s \in Seq(Data), NEW in \in Port, NEW p, p = IF in.on THEN 1 ELSE 0
    PROVE  /\ With(s, in) \in Seq(Data)
           /\ Len(With(s, in)) = Len(s) + p
           /\ \A k \in 1 .. Len(s) : With(s, in)[k] = s[k]
           /\ in.on => With(s, in)[Len(s) + 1] = in.word
  <1>1. in.word \in Data /\ in.on \in BOOLEAN BY DEF Port
  <1>2. CASE in.on
    <2>1. With(s, in) = Append(s, in.word) BY <1>2 DEF With
    <2> DEFINE w == in.word
    <2> HIDE DEF w
    <2>2. /\ Append(s, w) \in Seq(Data) /\ Len(Append(s, w)) = Len(s) + 1
          /\ \A k \in 1 .. Len(s) : Append(s, w)[k] = s[k]
          /\ Append(s, w)[Len(s) + 1] = w
      BY <1>1 DEF w
    <2> QED BY <1>2, <2>1, <2>2 DEF w
  <1>3. CASE ~in.on
    <2>1. With(s, in) = s /\ Len(s) \in Nat BY <1>3 DEF With
    <2> QED BY <1>3, <2>1
  <1> QED BY <1>1, <1>2, <1>3

\* A cycle of a FIFO that is asked to pop only a word it has and to push only
\* into room it has, as an operation on its contents.
LEMMA ClockedContents ==
    ASSUME NEW f \in Fifo, Level(f) <= Depth, NEW pop \in BOOLEAN, NEW in \in Port,
           in.on => ~Full(f)
    PROVE  /\ Contents(Clocked(f, pop, in)) = With(Without(Contents(f), pop /\ ~Empty(f)), in)
           /\ Empty(f) <=> Contents(f) = <<>>
           /\ ~Empty(f) => Front(f) = Head(Contents(f))
           /\ Contents(f) \in Seq(Data)
  <1> DEFINE c == Clocked(f, pop, in)
             took == pop /\ ~Empty(f)
             t == IF took THEN 1 ELSE 0
             p == IF in.on THEN 1 ELSE 0
             s == Contents(f)
  <1>1. c \in Fifo /\ Level(c) <= Depth BY ClockedFifo
  <1>2. /\ f.wr \in Pointer /\ f.rd \in Pointer /\ f.mem \in [0 .. Depth - 1 -> Data]
        /\ in.word \in Data /\ in.on \in BOOLEAN /\ took \in BOOLEAN
    BY DEF Fifo, Port
  <1>3. /\ s \in Seq(Data) /\ Len(s) = Level(f) /\ Level(f) \in Nat
        /\ \A k \in 1 .. Level(f) : s[k] = f.mem[Cell(f.rd, k - 1)]
        /\ Contents(c) \in Seq(Data) /\ Len(Contents(c)) = Level(c) /\ Level(c) \in Nat
        /\ \A k \in 1 .. Level(c) : Contents(c)[k] = c.mem[Cell(c.rd, k - 1)]
    BY <1>1, ContentsAre
  <1>4. Empty(f) <=> s = <<>> BY <1>3, FullIsDepth, Pieces
  <1>5. /\ c.wr = IF in.on THEN Inc(f.wr) ELSE f.wr
        /\ c.rd = IF took THEN Inc(f.rd) ELSE f.rd
        /\ c.mem = IF in.on THEN [f.mem EXCEPT ![Slot(f.wr)] = in.word] ELSE f.mem
    BY DEF Clocked
  <1>6. /\ t \in {0, 1} /\ p \in {0, 1}
        /\ t = 1 => ~Empty(f) /\ c.rd = Inc(f.rd)
        /\ t = 0 => c.rd = f.rd
        /\ p = 1 => ~Full(f) /\ c.wr = Inc(f.wr)
        /\ p = 0 => c.wr = f.wr
    BY <1>2, <1>5
  <1> HIDE DEF c
  <1>7. /\ Level(c) = Level(f) - t + p
        /\ \A k \in 1 .. Level(c) :
             /\ Cell(c.rd, k - 1) = Cell(f.rd, k - 1 + t)
             /\ k + t <= Level(f) <=> k < Level(c) \/ p = 0
             /\ p = 1 => (Cell(c.rd, k - 1) = Slot(f.wr) <=> k = Level(c))
    <2> HIDE DEF t, p
    <2> QED BY <1>1, <1>6, ClockedCells
  <1> DEFINE u == Without(s, took)
  <1>8. u \in Seq(Data) /\ Len(u) = Level(f) - t /\ \A k \in 1 .. Level(f) - t : u[k] = s[k + t]
    <2>1. took => s # <<>> BY <1>4
    <2>2. t = IF took THEN 1 ELSE 0 OBVIOUS
    <2> HIDE DEF s, took, t
    <2> QED BY <2>2, <1>2, <1>3, <2>1, WithoutIs
  <1> DEFINE v == With(u, in)
  <1>9. /\ v \in Seq(Data) /\ Len(v) = Level(c)
        /\ \A k \in 1 .. Len(u) : v[k] = u[k]
        /\ in.on => v[Len(u) + 1] = in.word
    <2>1. p \in {0, 1} /\ t \in {0, 1} BY <1>2
    <2>2. Level(c) = Level(f) - t + p /\ Level(f) \in Nat BY <1>3, <1>7
    <2>3. p = IF in.on THEN 1 ELSE 0 OBVIOUS
    <2>4. u \in Seq(Data) BY <1>8
    <2> HIDE DEF u, p, t, v, s, took
    <2>5. /\ With(u, in) \in Seq(Data) /\ Len(With(u, in)) = Len(u) + p
          /\ \A k \in 1 .. Len(u) : With(u, in)[k] = u[k]
          /\ in.on => With(u, in)[Len(u) + 1] = in.word
      BY <2>3, <2>4, WithIs
    <2>6. Len(u) + p = Level(c) BY <1>8, <2>1, <2>2
    <2> QED BY <2>5, <2>6 DEF v
  <1>10. ASSUME NEW k \in 1 .. Level(c) PROVE Contents(c)[k] = v[k]
    <2>1. Slot(f.wr) \in 0 .. Depth - 1 BY <1>2, Slots
    <2>2. Contents(c)[k] = c.mem[Cell(f.rd, k - 1 + t)] BY <1>3, <1>7
    <2>3. CASE k + t <= Level(f)
      <3>1. k \in 1 .. Level(f) - t /\ k + t \in 1 .. Level(f) /\ k - 1 + t = (k + t) - 1
        BY <1>3, <1>6, <2>3
      <3>2. v[k] = s[k + t] BY <1>8, <1>9, <3>1
      <3>3. s[k + t] = f.mem[Cell(f.rd, k - 1 + t)] BY <1>3, <3>1
      <3>4. c.mem[Cell(f.rd, k - 1 + t)] = f.mem[Cell(f.rd, k - 1 + t)]
        <4>1. CASE in.on
          <5>1. Cell(f.rd, k - 1 + t) # Slot(f.wr) BY <1>3, <1>7, <2>3, <4>1
          <5> QED BY <1>2, <1>5, <4>1, <5>1
        <4>2. CASE ~in.on BY <1>5, <4>2
        <4> QED BY <1>2, <4>1, <4>2
      <3> QED BY <2>2, <3>2, <3>3, <3>4
    <2>4. CASE ~(k + t <= Level(f))
      <3>1. in.on /\ k = Level(c) /\ Cell(f.rd, k - 1 + t) = Slot(f.wr)
        BY <1>2, <1>3, <1>7, <2>4
      <3>2. c.mem[Slot(f.wr)] = in.word BY <1>2, <1>5, <2>1, <3>1
      <3>3. k = Len(u) + 1 BY <1>3, <1>6, <1>7, <1>8, <3>1
      <3> QED BY <1>9, <2>2, <3>1, <3>2, <3>3
    <2> QED BY <2>3, <2>4
  <1>11. Contents(c) = v BY <1>3, <1>9, <1>10, EqualSequences
  <1>12. ~Empty(f) => Front(f) = Head(s)
    <2> SUFFICES ASSUME ~Empty(f) PROVE Front(f) = Head(s) OBVIOUS
    <2>1. s # <<>> /\ 1 \in 1 .. Level(f) BY <1>3, <1>4, Pieces
    <2>2. s[1] = f.mem[Cell(f.rd, 1 - 1)] BY <1>3, <2>1
    <2>3. Cell(f.rd, 1 - 1) = Slot(f.rd)
      BY <1>2, FifoAssumption DEF Cell, Slot, Pointer
    <2> QED BY <1>3, <2>1, <2>2, <2>3, Pieces DEF Front
  <1> QED BY <1>3, <1>4, <1>11, <1>12 DEF c

LEMMA Commutes ==
    ASSUME NEW q \in Seq(Data), NEW took \in BOOLEAN, NEW x \in Port, NEW y \in Port,
           took => q # <<>>, ~(x.on /\ y.on)
    PROVE  With(Without(With(q, x), took), y) = With(Without(q, took), Override(x, y))
  <1>1. CASE ~took BY <1>1 DEF With, Without, Override
  <1>2. CASE took
    <2>1. CASE ~x.on
      <3>1. CASE y.on BY <1>2, <2>1, <3>1 DEF With, Without, Override
      <3>2. CASE ~y.on BY <1>2, <2>1, <3>2 DEF With, Without, Override
      <3> QED BY <3>1, <3>2
    <2>2. CASE x.on
      <3>1. x.word \in Data BY DEF Port
      <3> DEFINE w == x.word
      <3> HIDE DEF w
      <3>2. Tail(Append(q, w)) = Append(Tail(q), w) BY <1>2, <3>1 DEF w
      <3>3. ~y.on BY <2>2
      <3>4. With(Without(With(q, x), took), y) = Tail(Append(q, w))
        BY <1>2, <2>2, <3>3 DEF With, Without, w
      <3>5. With(Without(q, took), Override(x, y)) = Append(Tail(q), w)
        BY <1>2, <2>2, <3>3 DEF With, Without, Override, w
      <3> QED BY <3>2, <3>4, <3>5
    <2> QED BY <2>1, <2>2
  <1> QED BY <1>1, <1>2

\* TxWords and RxWords in these terms.
Pictured(i) ==
    /\ TxWords(i) = With(Without(Contents(tx[i]), pull[i]), CpuPush(i))
    /\ RxWords(i) = With(Contents(rx[i]), push[i])
    /\ pull[i] => Contents(tx[i]) # <<>>
    /\ CpuPush(i) \in Port /\ push[i] \in Port /\ pull[i] \in BOOLEAN
    /\ Contents(tx[i]) \in Seq(Data) /\ Contents(rx[i]) \in Seq(Data)

LEMMA WordsAre == IInv /\ BlockingOpsStall => \A i \in Sm : Pictured(i)
  <1> SUFFICES ASSUME IInv, BlockingOpsStall, NEW i \in Sm PROVE Pictured(i) OBVIOUS
  <1>1. /\ tx[i] \in Fifo /\ Level(tx[i]) <= Depth /\ rx[i] \in Fifo /\ Level(rx[i]) <= Depth
        /\ pull[i] \in BOOLEAN /\ push[i] \in Port /\ cpu_tx.word \in Data
        /\ CpuPush(i) \in Port /\ CpuPush(i).word = cpu_tx.word
    BY DEF IInv, TypeOK, LevelsBounded, Port, CpuPush
  <1>2. None \in Port /\ ~None.on BY DataHasZero DEF None, Port
  <1> DEFINE s == Contents(tx[i])
             x == Contents(rx[i])
  <1>3. s \in Seq(Data) /\ x \in Seq(Data) /\ (Empty(tx[i]) <=> s = <<>>)
    BY <1>1, <1>2, ClockedContents
  <1>4. pull[i] => s # <<>> BY <1>3 DEF BlockingOpsStall
  <1>5. Without(s, pull[i]) = IF pull[i] THEN SubSeq(s, 2, Len(s)) ELSE s
    <2> HIDE DEF s
    <2> QED BY <1>3, <1>4, TailIsSubSeq DEF Without
  <1>6. Without(s, pull[i]) \in Seq(Data)
    <2> HIDE DEF s
    <2> QED BY <1>1, <1>3, <1>4, WithoutIs
  <1>7. ASSUME NEW u \in Seq(Data), NEW on \in BOOLEAN, NEW w \in Data
        PROVE  u \o (IF on THEN <<w>> ELSE <<>>) = IF on THEN Append(u, w) ELSE u
    BY Joined
  <1>8. push[i].on \in BOOLEAN /\ push[i].word \in Data /\ CpuPush(i).on \in BOOLEAN
    BY <1>1 DEF Port
  <1>9. RxWords(i) = With(x, push[i])
    <2> HIDE DEF x
    <2> QED BY <1>3, <1>7, <1>8 DEF RxWords, With, x
  <1>10. TxWords(i) = With(Without(s, pull[i]), CpuPush(i))
    <2>1. TxWords(i) = Without(s, pull[i]) \o (IF CpuPush(i).on THEN <<cpu_tx.word>> ELSE <<>>)
      BY <1>5 DEF TxWords
    <2> DEFINE u == Without(s, pull[i])
    <2>2. u \in Seq(Data) BY <1>6
    <2> HIDE DEF u
    <2> QED BY <1>1, <1>7, <1>8, <2>1, <2>2 DEF With, u
  <1> QED BY <1>1, <1>3, <1>4, <1>9, <1>10 DEF Pictured

LEMMA WordsAreNext == (IInv /\ BlockingOpsStall => \A i \in Sm : Pictured(i))'
  BY WordsAre, PTL

\* A cycle that takes the first word, puts one behind the last, or both, is a
\* step of WordQueue.
LEMMA RxQueueStep ==
    ASSUME NEW i \in Sm, NEW took \in BOOLEAN, NEW in \in Port,
           took => RxWords(i) # <<>>,
           RxWords(i)' = With(Without(RxWords(i), took), in),
           got'[i] = IF took THEN Head(RxWords(i)) ELSE got[i]
    PROVE  [RxQueue(i)!Next]_(RxQueue(i)!vars)
  <1>1. in.word \in Data BY DEF Port
  <1>2. CASE took /\ in.on
    BY <1>1, <1>2 DEF RxQueue!Next, RxQueue!TakeAndPut, With, Without
  <1>3. CASE took /\ ~in.on BY <1>3 DEF RxQueue!Next, RxQueue!Take, With, Without
  <1>4. CASE ~took /\ in.on BY <1>1, <1>4 DEF RxQueue!Next, RxQueue!Put, With, Without
  <1>5. CASE ~took /\ ~in.on BY <1>5 DEF RxQueue!vars, With, Without
  <1> QED BY <1>2, <1>3, <1>4, <1>5

LEMMA TxQueueStep ==
    ASSUME NEW i \in Sm, NEW took \in BOOLEAN, NEW in \in Port,
           took => TxWords(i) # <<>>,
           TxWords(i)' = With(Without(TxWords(i), took), in),
           osr'[i] = IF took THEN Head(TxWords(i)) ELSE osr[i]
    PROVE  [TxQueue(i)!Next]_(TxQueue(i)!vars)
  <1>1. in.word \in Data BY DEF Port
  <1>2. CASE took /\ in.on
    BY <1>1, <1>2 DEF TxQueue!Next, TxQueue!TakeAndPut, With, Without
  <1>3. CASE took /\ ~in.on BY <1>3 DEF TxQueue!Next, TxQueue!Take, With, Without
  <1>4. CASE ~took /\ in.on BY <1>1, <1>4 DEF TxQueue!Next, TxQueue!Put, With, Without
  <1>5. CASE ~took /\ ~in.on BY <1>5 DEF TxQueue!vars, With, Without
  <1> QED BY <1>2, <1>3, <1>4, <1>5

\* The first word stays the first when another is put behind it, and an
\* operation that brings nothing changes nothing.
LEMMA FirstStays ==
    ASSUME NEW q \in Seq(Data), q # <<>>, NEW x \in Port
    PROVE  With(q, x) # <<>> /\ Head(With(q, x)) = Head(q)
  <1>1. x.word \in Data /\ x.on \in BOOLEAN BY DEF Port
  <1> DEFINE w == x.word
  <1> HIDE DEF w
  <1>2. Append(q, w) # <<>> /\ Head(Append(q, w)) = Head(q) BY <1>1 DEF w
  <1> QED BY <1>1, <1>2 DEF With, w

LEMMA RxStep ==
    ASSUME IInv, BlockingOpsStall, IInv', BlockingOpsStall', NEW i \in Sm,
           NEW r, NEW ok \in BOOLEAN, NEW w \in Data, Fifos(r, ok, w), History(r, ok, w)
    PROVE  [RxQueue(i)!Next]_(RxQueue(i)!vars)
  <1> DEFINE pop == CpuPop(i, r) \/ DmaPop(i)
             took == pop /\ ~Empty(rx[i])
             c == Contents(rx[i])
  <1>1. Pictured(i) /\ Pictured(i)' BY WordsAre, WordsAreNext
  <1>2. /\ rx[i] \in Fifo /\ Level(rx[i]) <= Depth /\ push[i] \in Port /\ pop \in BOOLEAN
        /\ push[i].on => ~Full(rx[i])
        /\ took \in BOOLEAN
    BY DEF IInv, TypeOK, LevelsBounded, Port, CpuPop, DmaPop, BlockingOpsStall
  <1>3. rx'[i] = Clocked(rx[i], pop, push[i]) BY DEF Fifos
  <1>4. /\ Contents(rx'[i]) = With(Without(c, took), push[i])
        /\ Empty(rx[i]) <=> c = <<>>
        /\ ~Empty(rx[i]) => Front(rx[i]) = Head(c)
        /\ c \in Seq(Data)
    BY <1>2, <1>3, ClockedContents
  <1>5. RxWords(i) = With(c, push[i]) /\ push'[i] \in Port BY <1>1 DEF Pictured
  <1>6. RxWords(i)' = With(Contents(rx'[i]), push'[i]) BY <1>1 DEF Pictured
  <1>7. took => c # <<>> BY <1>4
  <1>8. got'[i] = IF took THEN Front(rx[i]) ELSE got[i]
    <2>1. got'[i] = IF rx'[i].rd = rx[i].rd THEN got[i] ELSE Front(rx[i]) BY DEF History
    <2>2. rx'[i].rd = IF took THEN Inc(rx[i].rd) ELSE rx[i].rd BY <1>3 DEF Clocked
    <2>3. Inc(rx[i].rd) # rx[i].rd
      <3>1. rx[i].rd \in Pointer BY <1>2 DEF Fifo
      <3> QED BY <3>1, FifoAssumption DEF Inc, Pointer
    <2> HIDE DEF took
    <2> QED BY <1>2, <2>1, <2>2, <2>3
  <1>9. Front(rx[i]) = Head(c) \/ ~took BY <1>4
  <1> HIDE DEF took, c
  <1>10. took => RxWords(i) # <<>> /\ Head(RxWords(i)) = Head(c)
    BY <1>2, <1>4, <1>5, <1>7, FirstStays
  <1>11. With(Without(c, took), push[i]) = Without(RxWords(i), took)
    <2>1. None \in Port /\ ~None.on BY DataHasZero DEF None, Port
    <2>2. With(Without(With(c, push[i]), took), None)
            = With(Without(c, took), Override(push[i], None))
      BY <1>2, <1>4, <1>7, <2>1, Commutes
    <2>3. Override(push[i], None) = push[i] BY <2>1 DEF Override
    <2>4. With(Without(With(c, push[i]), took), None) = Without(With(c, push[i]), took)
      BY <2>1 DEF With
    <2> QED BY <1>5, <2>2, <2>3, <2>4
  <1>12. RxWords(i)' = With(Without(RxWords(i), took), push'[i]) BY <1>4, <1>6, <1>11
  <1>13. got'[i] = IF took THEN Head(RxWords(i)) ELSE got[i] BY <1>8, <1>9, <1>10
  <1> QED BY <1>2, <1>5, <1>10, <1>12, <1>13, RxQueueStep

\* At reset the queues are empty.
LEMMA QueuesStart ==
    ASSUME Init, NEW i \in Sm
    PROVE  TxQueue(i)!Init /\ RxQueue(i)!Init
  <1>1. IInv /\ BlockingOpsStall BY InitHolds DEF Init, BlockingOpsStall, None
  <1>2. Pictured(i) BY <1>1, WordsAre
  <1>3. /\ tx[i] \in Fifo /\ Level(tx[i]) <= Depth /\ rx[i] \in Fifo /\ Level(rx[i]) <= Depth
        /\ osr[i] \in Data /\ got[i] \in Data
    BY <1>1 DEF IInv, TypeOK, LevelsBounded
  <1>4. Empty(tx[i]) /\ Empty(rx[i]) BY DEF Init, Empty
  <1>5. pull[i] = FALSE /\ CpuPush(i).on = FALSE /\ push[i].on = FALSE BY DEF Init, CpuPush, None
  <1>6. None \in Port /\ ~None.on BY DataHasZero DEF None, Port
  <1>7. Contents(tx[i]) = <<>> /\ Contents(rx[i]) = <<>>
    BY <1>3, <1>4, <1>6, ClockedContents
  <1>8. TxWords(i) = <<>> /\ RxWords(i) = <<>>
    BY <1>2, <1>5, <1>7 DEF Pictured, With, Without
  <1> QED BY <1>3, <1>8 DEF TxQueue!Init, RxQueue!Init

\* Every word a program pushes leaves its RX FIFO for the CPU or the DMA, once
\* and in order, whatever both of them do: a program that leaves a cycle
\* between two pushes is all it takes, at any depth.
THEOREM RxFollowsQueue == ASSUME "spaced" \in Rules PROVE Spec => RxIsQueue
  <1> DEFINE Step == \A i \in Sm : [RxQueue(i)!Next]_(RxQueue(i)!vars)
             Start == \A i \in Sm : RxQueue(i)!Init
             Inv == IInv /\ BlockingOpsStall
  <1>1. Init => Start BY QueuesStart
  <1>2. ASSUME Inv, Inv', Next PROVE Step
    <2>1. PICK r : Request(r) /\ Cycle(r) BY <1>2, NextIsCycle DEF IInv
    <2>2. PICK ok \in BOOLEAN, w \in ReadWords : Fifos(r, ok, w) /\ History(r, ok, w)
      BY <2>1 DEF Cycle
    <2>3. w \in Data BY DataHasZero DEF ReadWords
    <2> QED BY <1>2, <2>2, <2>3, RxStep
  <1>3. Spec => []Inv BY Inductive, SpacedOpsStall, PTL
  <1>4. Inv /\ Inv' /\ [Next]_vars => [Step]_vars BY <1>2
  <1> HIDE DEF Step, Start, Inv
  <1>5. Spec => Start /\ [][Step]_vars BY <1>1, <1>3, <1>4, PTL DEF Spec
  <1> QED BY <1>5 DEF RxIsQueue, Step, Start

----------------------------------------------------------------------------
(* The TX FIFOs, which CPU and DMA both write.                              *)

\* A TXF write on its way finds the room that FSTAT showed, and where FSTAT
\* has shown room no transfer has started since.
Awaited ==
    /\ cpu_tx.on => seen = {} /\ ~Full(tx[cpu_tx.sm])
    /\ \A i \in Sm : <<"tx", i>> \in seen => ~Full(tx[i]) /\ ~Serves("tx", i)

\* The DMA brings a word only to the FIFO it serves, where there is room and
\* the CPU brings none.
LEMMA Alone ==
    ASSUME IInv, Owned, NEW i \in Sm, NEW ok \in BOOLEAN, NEW w, DmaPush(i, ok, w).on
    PROVE  Serves("tx", i) /\ ~CpuPush(i).on /\ ~Full(tx[i])
  <1>1. dma_state = "TX_RD_WAIT" /\ ~dir /\ sm_sel = i BY DEF DmaPush
  <1>2. busy BY <1>1 DEF IInv, BusyCoherent
  <1>3. ~job.dir /\ job.sm = i BY <1>1, <1>2 DEF Owned
  <1> QED BY <1>1, <1>2, <1>3 DEF Owned, Serves, CpuPush

LEMMA RoomAwaited ==
    ASSUME IInv, Owned, Awaited, NEW i \in Sm, ~Full(tx[i]), ~cpu_tx.on, ~Serves("tx", i),
           NEW r, NEW ok \in BOOLEAN, NEW w \in Data, Fifos(r, ok, w)
    PROVE  ~Full(tx'[i])
  <1> DEFINE in == Override(CpuPush(i), DmaPush(i, ok, w))
  <1>1. ~DmaPush(i, ok, w).on BY Alone
  <1>2. ~CpuPush(i).on BY DEF CpuPush
  <1>3. ~in.on BY <1>1, <1>2 DEF Override
  <1>4. in \in Port BY DEF Override, CpuPush, DmaPush, Port, IInv, TypeOK
  <1>5. tx[i] \in Fifo /\ Level(tx[i]) <= Depth /\ pull[i] \in BOOLEAN
    BY DEF IInv, TypeOK, LevelsBounded
  <1>6. tx'[i] = Clocked(tx[i], pull[i], in) BY DEF Fifos
  <1> HIDE DEF in
  <1> QED BY <1>3, <1>4, <1>5, <1>6, RoomStays

LEMMA AwaitedStep ==
    ASSUME Rules = AllRules, IInv, Owned, Awaited, NEW r, Request(r), Ruled(r),
           NEW ok \in BOOLEAN, NEW w \in Data,
           Fifos(r, ok, w), Registers(r), Dma(r, ok, w), History(r, ok, w)
    PROVE  Awaited'
  <1>1. r.op # "none" => ~cpu_tx.on BY DEF Ruled, Owned
  <1>2. ASSUME r.op # "dma", NEW i \in Sm, ~Serves("tx", i) PROVE ~Serves("tx", i)'
    <2>1. ~DmaGo(r) BY <1>2 DEF DmaGo
    <2>2. job' = job /\ (busy' => busy) BY <2>1, DmaMoves DEF History
    <2> QED BY <1>2, <2>2 DEF Serves
  <1>3. CASE r.op = "txf"
    <2>1. cpu_tx'.on /\ cpu_tx'.sm = r.sm /\ seen' = {} BY <1>3 DEF Registers
    <2>2. r.sm \in Sm /\ ~Serves("tx", r.sm) /\ <<"tx", r.sm>> \in seen
      BY <1>3 DEF Request, Ruled, AllRules
    <2>3. ~Full(tx'[r.sm]) BY <1>1, <1>3, <2>2, RoomAwaited DEF Awaited
    <2> QED BY <2>1, <2>3 DEF Awaited
  <1>4. CASE r.op = "none"
    <2>1. ~cpu_tx'.on /\ seen' = seen BY <1>4 DEF Registers
    <2>2. ASSUME NEW i \in Sm, <<"tx", i>> \in seen
          PROVE  ~Full(tx'[i]) /\ ~Serves("tx", i)'
      <3>1. ~Full(tx[i]) /\ ~Serves("tx", i) /\ ~cpu_tx.on BY <2>2 DEF Awaited
      <3> QED BY <1>2, <1>4, <3>1, RoomAwaited
    <2> QED BY <2>1, <2>2 DEF Awaited
  <1>5. CASE r.op = "fstat"
    <2>1. ~cpu_tx'.on /\ seen' = Fstat BY <1>5 DEF Registers
    <2>2. ASSUME NEW i \in Sm, <<"tx", i>> \in Fstat
          PROVE  ~Full(tx'[i]) /\ ~Serves("tx", i)'
      <3>1. ~Full(tx[i]) /\ ~Serves("tx", i) BY <2>2 DEF Fstat, Left, AllRules
      <3> QED BY <1>1, <1>2, <1>5, <3>1, RoomAwaited
    <2> QED BY <2>1, <2>2 DEF Awaited
  <1>6. CASE r.op \notin {"txf", "none", "fstat"}
    <2>1. ~cpu_tx'.on /\ seen' = {} BY <1>6 DEF Registers
    <2> QED BY <2>1 DEF Awaited
  <1> QED BY <1>3, <1>4, <1>5, <1>6

LEMMA TxStep ==
    ASSUME IInv, BlockingOpsStall, IInv', BlockingOpsStall', Owned, Awaited, NEW i \in Sm,
           NEW r, Ruled(r), NEW ops \in [Sm -> Ops], NEW ok \in BOOLEAN, NEW w \in Data,
           Spaced(ops), Fifos(r, ok, w), Machines(ops), Registers(r)
    PROVE  [TxQueue(i)!Next]_(TxQueue(i)!vars)
  <1> DEFINE x == CpuPush(i)
             y == DmaPush(i, ok, w)
             in == Override(x, y)
             c == Contents(tx[i])
             u == Without(c, pull[i])
             q == TxWords(i)
             z == CpuPush(i)'
  <1>1. Pictured(i) /\ Pictured(i)' BY WordsAre, WordsAreNext
  <1>2. /\ tx[i] \in Fifo /\ Level(tx[i]) <= Depth /\ x \in Port /\ y \in Port /\ in \in Port
        /\ pull[i] \in BOOLEAN /\ pull'[i] \in BOOLEAN /\ z \in Port
    BY <1>1 DEF IInv, TypeOK, LevelsBounded, Port, CpuPush, DmaPush, Override, Pictured
  <1>3. y.on => Serves("tx", i) /\ ~x.on /\ ~Full(tx[i]) BY Alone
  <1>4. in.on => ~Full(tx[i]) BY <1>3 DEF Override, CpuPush, Awaited
  <1>5. tx'[i] = Clocked(tx[i], pull[i], in) BY DEF Fifos
  <1>6. pull[i] => ~Empty(tx[i]) BY DEF BlockingOpsStall
  <1>7. /\ Contents(tx'[i]) = With(Without(c, pull[i] /\ ~Empty(tx[i])), in)
        /\ Empty(tx[i]) <=> c = <<>>
        /\ ~Empty(tx[i]) => Front(tx[i]) = Head(c)
        /\ c \in Seq(Data)
    BY <1>2, <1>4, <1>5, ClockedContents
  <1>8. Contents(tx'[i]) = With(u, in)
    <2>1. (pull[i] /\ ~Empty(tx[i])) = pull[i] BY <1>2, <1>6
    <2> QED BY <1>7, <2>1
  <1>9. q = With(u, x) /\ TxWords(i)' = With(Without(Contents(tx'[i]), pull'[i]), z)
    BY <1>1 DEF Pictured
  <1>10. u \in Seq(Data)
    <2>1. pull[i] => c # <<>> BY <1>6, <1>7
    <2> HIDE DEF c
    <2> QED BY <1>2, <1>7, <2>1, WithoutIs
  <1>11. q \in Seq(Data)
    <2> HIDE DEF u, q, x
    <2> QED BY <1>2, <1>9, <1>10, WithIs
  \* What the DMA brings goes behind what the CPU brings.
  <1>12. With(u, in) = With(q, y)
    <2>1. CASE y.on
      <3>1. ~x.on /\ in = y BY <1>3, <2>1 DEF Override
      <3>2. q = u BY <1>9, <3>1 DEF With
      <3> QED BY <3>1, <3>2
    <2>2. CASE ~y.on
      <3>1. in = x BY <2>2 DEF Override
      <3>2. With(q, y) = q BY <2>2 DEF With
      <3> QED BY <1>9, <3>1, <3>2
    <2> QED BY <2>1, <2>2
  <1>13. ~(y.on /\ z.on)
    <2> SUFFICES ASSUME y.on, z.on PROVE FALSE OBVIOUS
    <2>1. r.op = "txf" /\ r.sm = i BY DEF CpuPush, Registers
    <2> QED BY <1>3, <2>1 DEF Ruled
  <1>14. pull'[i] => pull[i] = FALSE /\ ~Empty(tx[i])
    <2> SUFFICES ASSUME pull'[i] PROVE pull[i] = FALSE /\ ~Empty(tx[i]) OBVIOUS
    <2>1. ops[i].kind = "pull" /\ ~Empty(tx[i]) BY DEF Machines
    <2> QED BY <1>2, <2>1 DEF Spaced
  <1>15. pull'[i] => q # <<>> /\ Head(q) = Front(tx[i])
    <2> SUFFICES ASSUME pull'[i] PROVE q # <<>> /\ Head(q) = Front(tx[i]) OBVIOUS
    <2>1. u = c BY <1>14 DEF Without
    <2>2. c # <<>> /\ Front(tx[i]) = Head(c) BY <1>7, <1>14
    <2> HIDE DEF c, q, u, x
    <2> QED BY <1>2, <1>7, <1>9, <2>1, <2>2, FirstStays
  <1>16. osr'[i] = IF pull'[i] THEN Front(tx[i]) ELSE osr[i] BY DEF Machines
  <1>17. TxWords(i)' = With(Without(q, pull'[i]), Override(y, z))
    <2> DEFINE took == pull'[i]
    <2>1. took \in BOOLEAN /\ (took => q # <<>>) BY <1>2, <1>15
    <2>2. TxWords(i)' = With(Without(With(q, y), took), z) BY <1>8, <1>9, <1>12
    <2> HIDE DEF took, q, y, z
    <2>3. With(Without(With(q, y), took), z) = With(Without(q, took), Override(y, z))
      BY <1>2, <1>11, <1>13, <2>1, Commutes
    <2> QED BY <2>2, <2>3 DEF took
  <1>18. Override(y, z) \in Port BY <1>2 DEF Override
  <1>19. osr'[i] = IF pull'[i] THEN Head(q) ELSE osr[i] BY <1>15, <1>16
  <1> HIDE DEF y, z
  <1> QED BY <1>2, <1>15, <1>17, <1>18, <1>19, TxQueueStep

\* A state machine gets every word that the CPU or the DMA puts into its TX
\* FIFO, once and in order, at any depth, if software polls FSTAT, leaves a
\* FIFO to the transfer that serves it and starts a transfer only to the FIFO
\* of the last GO, and the program leaves a cycle between two pulls.
THEOREM TxFollowsQueue == ASSUME Rules = AllRules PROVE Spec => TxIsQueue
  <1> DEFINE Step == \A i \in Sm : [TxQueue(i)!Next]_(TxQueue(i)!vars)
             Start == \A i \in Sm : TxQueue(i)!Init
             Inv == IInv /\ BlockingOpsStall
             Ready == Owned /\ Awaited
  <1>1. Init => Start BY QueuesStart
  <1>2. {"leave", "target"} \subseteq Rules /\ "spaced" \in Rules BY DEF AllRules
  <1>3. Spec => []Inv BY <1>2, Inductive, SpacedOpsStall, PTL
  <1>4. Init => Ready
    <2> SUFFICES ASSUME Init PROVE Owned /\ Awaited OBVIOUS
    <2>1. ~cpu_tx.on /\ ~latch.on /\ seen = {} /\ ~busy /\ dma_state = "IDLE" BY DEF Init
    <2> QED BY <2>1 DEF Owned, Awaited
  <1>5. ASSUME Inv, Inv', Ready, Next PROVE Ready' /\ Step
    <2>1. PICK r : Request(r) /\ Ruled(r) /\ Cycle(r) BY <1>2, <1>5, NextIsRuled DEF IInv
    <2>2. PICK ops \in [Sm -> Ops], ok \in BOOLEAN, w \in ReadWords :
            /\ Spaced(ops) /\ Fifos(r, ok, w) /\ Machines(ops)
            /\ Registers(r) /\ DmaCtrl(r) /\ Dma(r, ok, w) /\ History(r, ok, w)
      BY <1>2, <2>1 DEF Cycle
    <2>3. w \in Data BY DataHasZero DEF ReadWords
    <2>4. Owned' BY <1>5, <2>1, <2>2, <2>3, OwnedStep
    <2>5. Awaited' BY <1>5, <2>1, <2>2, <2>3, AwaitedStep
    <2>6. Step BY <1>5, <2>1, <2>2, <2>3, TxStep
    <2> QED BY <2>4, <2>5, <2>6
  <1>6. Ready /\ UNCHANGED vars => Ready'
    BY DEF Owned, Awaited, Serves, Full, vars, fifos, cpu, ports, dma, dma_ctrl, history
  <1>7. Inv /\ Inv' /\ Ready /\ [Next]_vars => Ready' BY <1>5, <1>6
  <1>8. Inv /\ Inv' /\ Ready /\ [Next]_vars => [Step]_vars BY <1>5
  <1> HIDE DEF Step, Start, Inv, Ready
  <1>9. Spec => []Ready BY <1>3, <1>4, <1>7, PTL DEF Spec
  <1>10. Spec => Start /\ [][Step]_vars BY <1>1, <1>3, <1>8, <1>9, PTL DEF Spec
  <1> QED BY <1>10 DEF TxIsQueue, Step, Start

=============================================================================

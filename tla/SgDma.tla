------------------------------- MODULE SgDma -------------------------------
(***************************************************************************)
(* The scatter-gather DMA engine, hw/ip/sg_dma/rtl/sg_dma.sv: a seven-state *)
(* FSM that fetches five-word descriptors from memory, copies the words     *)
(* each one names and follows the chain.  The CPU's register writes, the    *)
(* CPU's stores to the shared RAM, the grant of the bridge and the service  *)
(* of a request by the memory interleave with the engine's own steps.       *)
(*                                                                         *)
(* A step of a register write and a step of the FSM in the same clock cycle *)
(* are the two steps one after the other: they assign different registers,  *)
(* and the only register read by one and assigned by the other, busy_q, is  *)
(* read by the write path before the FSM's update.                          *)
(*                                                                         *)
(* Addresses count words, so the code's "+ 4" is "+ 1" here, and a word has *)
(* as many values as there are word addresses.                              *)
(***************************************************************************)
EXTENDS Integers

CONSTANTS
    Words,          \* the modulus of 32-bit arithmetic: words are 0..Words-1
    Mapped,         \* word addresses some slave of the crossbar answers
    ErrWord,        \* what the crossbar's error slave returns for the others
    Memories,       \* the memory contents the software may have prepared
    DescAddrs,      \* values the CPU writes to DESC_ADDR
    Stores,         \* <<address, value>> pairs the CPU may store
    StoreWhileBusy  \* whether software stores to memory during a transfer

Word == 0 .. Words - 1

ASSUME WordsAssumption == Words \in Nat /\ Words >= 8
ASSUME MappedAssumption == Mapped \subseteq Word /\ ErrWord \in Word
ASSUME MemoriesAssumption == Memories \subseteq [Word -> Word]
ASSUME InputsAssumption ==
    /\ DescAddrs \subseteq Word
    /\ Stores \subseteq Word \X Word
    /\ StoreWhileBusy \in BOOLEAN

VARIABLES
    mem,                                    \* the RAM, and the bus in front of it:
    port,                                   \* no request, granted, served
    rdata,                                  \* dma_rdata_i
    desc_addr, ier,                         \* configuration registers
    state, busy, done, completed,
    cur_desc, fetch_idx, fields,            \* descriptor fetch
    cur_src, cur_dst, remaining, copy_data, \* copy engine
    desc_irq, desc_chain, desc_next

config == <<desc_addr, ier>>
bus    == <<mem, port, rdata>>
status == <<busy, done, completed>>
fetch  == <<cur_desc, fetch_idx, fields>>
copy   == <<cur_src, cur_dst, remaining, copy_data>>
chain  == <<desc_irq, desc_chain, desc_next>>
vars   == <<config, bus, state, status, fetch, copy, chain>>

\* Mutant of Add: no carry is lost.
AddUnbounded(x, y) == x + y

\* Addition of 32-bit values: the operands are words, so one wrap is enough.
Add(x, y) == IF x + y >= Words THEN x + y - Words ELSE x + y
Dec(x) == IF x = 0 THEN Words - 1 ELSE x - 1

DescWords == 5
IrqBit(ctrl) == ctrl % 2 = 1
ChainBit(ctrl) == (ctrl \div 2) % 2 = 1

Load(a) == IF a \in Mapped THEN mem[a] ELSE ErrWord
Stored(a, v) == IF a \in Mapped THEN [mem EXCEPT ![a] = v] ELSE mem

irq == done /\ ier

----------------------------------------------------------------------------
Init ==
    /\ mem \in Memories /\ port = "idle" /\ rdata = 0
    /\ desc_addr = 0 /\ ier = FALSE
    /\ state = "IDLE" /\ busy = FALSE /\ done = FALSE /\ completed = 0
    /\ cur_desc = 0 /\ fetch_idx = 0 /\ fields = [i \in 0 .. DescWords - 1 |-> 0]
    /\ cur_src = 0 /\ cur_dst = 0 /\ remaining = 0 /\ copy_data = 0
    /\ desc_irq = FALSE /\ desc_chain = FALSE /\ desc_next = 0

----------------------------------------------------------------------------
(* The CPU.  A write to CTRL without GO, a GO while busy and a write to a   *)
(* read-only register change nothing.                                       *)

WriteDescAddr(v) ==
    /\ desc_addr' = v
    /\ UNCHANGED <<ier, bus, state, status, fetch, copy, chain>>

WriteIer(b) ==
    /\ ier' = b
    /\ UNCHANGED <<desc_addr, bus, state, status, fetch, copy, chain>>

\* Mutant of Go: the completion counter is not cleared.
GoKeepsCount ==
    /\ ~busy /\ state = "IDLE"
    /\ state' = "FETCH_REQ" /\ busy' = TRUE /\ done' = FALSE
    /\ cur_desc' = desc_addr /\ fetch_idx' = 0
    /\ UNCHANGED <<config, bus, completed, fields, copy, chain>>

Go ==
    /\ ~busy
    /\ state = "IDLE"
    /\ state' = "FETCH_REQ"
    /\ busy' = TRUE /\ done' = FALSE /\ completed' = 0
    /\ cur_desc' = desc_addr /\ fetch_idx' = 0
    /\ UNCHANGED <<config, bus, fields, copy, chain>>

CpuStore(a, v) ==
    /\ StoreWhileBusy \/ ~busy
    /\ mem' = Stored(a, v)
    /\ UNCHANGED <<config, port, rdata, state, status, fetch, copy, chain>>

----------------------------------------------------------------------------
(* The bus: the bridge grants the request the FSM drives, then the memory   *)
(* serves it, then the FSM sees dma_rvalid_i.                               *)

Granted(from, to) ==
    /\ state = from
    /\ state' = to
    /\ port' = "granted"
    /\ UNCHANGED <<config, mem, rdata, status, fetch, copy, chain>>

Grant == \/ Granted("FETCH_REQ", "FETCH_WAIT")
         \/ Granted("COPY_RD_REQ", "COPY_RD_WAIT")
         \/ Granted("COPY_WR_REQ", "COPY_WR_WAIT")

ServeRead(wait, addr) ==
    /\ port = "granted" /\ state = wait
    /\ rdata' = Load(addr)
    /\ port' = "served"
    /\ UNCHANGED <<config, mem, state, status, fetch, copy, chain>>

ServeWrite ==
    /\ port = "granted" /\ state = "COPY_WR_WAIT"
    /\ mem' = Stored(cur_dst, copy_data)
    /\ port' = "served"
    /\ UNCHANGED <<config, rdata, state, status, fetch, copy, chain>>

Serve == \/ ServeRead("FETCH_WAIT", Add(cur_desc, fetch_idx))
         \/ ServeRead("COPY_RD_WAIT", cur_src)
         \/ ServeWrite

----------------------------------------------------------------------------
(* The FSM on dma_rvalid_i.  dma_err_i is not looked at.                    *)

Rvalid(wait) ==
    /\ port = "served" /\ state = wait
    /\ port' = "idle"
    /\ UNCHANGED <<config, mem, rdata>>

\* Mutant of Completed: BUSY stays up after the last descriptor.
CompletedStaysBusy(isChained, next) ==
    /\ completed' = Add(completed, 1)
    /\ state' = IF isChained THEN "FETCH_REQ" ELSE "IDLE"
    /\ cur_desc' = IF isChained THEN next ELSE cur_desc
    /\ done' = ~isChained
    /\ UNCHANGED busy

\* A descriptor has completed: follow the chain or stop.
Completed(isChained, next) ==
    /\ completed' = Add(completed, 1)
    /\ \/ /\ isChained
          /\ state' = "FETCH_REQ" /\ cur_desc' = next
          /\ UNCHANGED <<busy, done>>
       \/ /\ ~isChained
          /\ state' = "IDLE" /\ busy' = FALSE /\ done' = TRUE
          /\ UNCHANGED cur_desc

FetchField ==
    /\ Rvalid("FETCH_WAIT")
    /\ fetch_idx # DescWords - 1
    /\ state' = "FETCH_REQ"
    /\ fields' = [fields EXCEPT ![fetch_idx] = rdata]
    /\ fetch_idx' = fetch_idx + 1
    /\ UNCHANGED <<status, cur_desc, copy, chain>>

\* Mutant of Unpack: an empty descriptor is copied like any other.
UnpackCopiesEmpty ==
    /\ Rvalid("FETCH_WAIT")
    /\ fetch_idx = DescWords - 1
    /\ state' = "COPY_RD_REQ"
    /\ fields' = [fields EXCEPT ![fetch_idx] = rdata]
    /\ fetch_idx' = 0
    /\ cur_src' = fields[0] /\ cur_dst' = fields[1] /\ remaining' = fields[2]
    /\ desc_irq' = IrqBit(fields[3]) /\ desc_chain' = ChainBit(fields[3])
    /\ desc_next' = rdata
    /\ UNCHANGED <<status, cur_desc, copy_data>>

\* The fifth word has arrived: unpack, and skip the copy if word_len is 0.
Unpack ==
    /\ Rvalid("FETCH_WAIT")
    /\ fetch_idx = DescWords - 1
    /\ fields' = [fields EXCEPT ![fetch_idx] = rdata]
    /\ fetch_idx' = 0
    /\ cur_src' = fields[0] /\ cur_dst' = fields[1] /\ remaining' = fields[2]
    /\ desc_irq' = IrqBit(fields[3]) /\ desc_chain' = ChainBit(fields[3])
    /\ desc_next' = rdata
    /\ \/ /\ fields[2] = 0
          /\ Completed(ChainBit(fields[3]), rdata)
       \/ /\ fields[2] # 0
          /\ state' = "COPY_RD_REQ"
          /\ UNCHANGED <<status, cur_desc>>
    /\ UNCHANGED copy_data

\* Mutant of ReadDone: the word read is not latched.
ReadDoneUnlatched ==
    /\ Rvalid("COPY_RD_WAIT")
    /\ state' = "COPY_WR_REQ"
    /\ UNCHANGED <<status, fetch, copy, chain>>

ReadDone ==
    /\ Rvalid("COPY_RD_WAIT")
    /\ state' = "COPY_WR_REQ"
    /\ copy_data' = rdata
    /\ UNCHANGED <<status, fetch, cur_src, cur_dst, remaining, chain>>

\* Mutant of WriteDone: one word too many.
WriteDoneOverruns ==
    /\ Rvalid("COPY_WR_WAIT")
    /\ cur_src' = Add(cur_src, 1) /\ cur_dst' = Add(cur_dst, 1)
    /\ remaining' = Dec(remaining)
    /\ \/ remaining = 0 /\ Completed(desc_chain, desc_next)
       \/ remaining # 0 /\ state' = "COPY_RD_REQ" /\ UNCHANGED <<status, cur_desc>>
    /\ UNCHANGED <<fetch_idx, fields, copy_data, chain>>

WriteDone ==
    /\ Rvalid("COPY_WR_WAIT")
    /\ cur_src' = Add(cur_src, 1) /\ cur_dst' = Add(cur_dst, 1)
    /\ remaining' = Dec(remaining)
    /\ \/ /\ remaining = 1
          /\ Completed(desc_chain, desc_next)
          /\ fetch_idx' = IF desc_chain THEN 0 ELSE fetch_idx
       \/ /\ remaining # 1
          /\ state' = "COPY_RD_REQ"
          /\ UNCHANGED <<status, cur_desc, fetch_idx>>
    /\ UNCHANGED <<fields, copy_data, chain>>

----------------------------------------------------------------------------
Cpu == \/ \E v \in DescAddrs : WriteDescAddr(v)
       \/ \E b \in BOOLEAN : WriteIer(b)
       \/ Go
       \/ \E s \in Stores : CpuStore(s[1], s[2])

Engine == FetchField \/ Unpack \/ ReadDone \/ WriteDone

Next == Cpu \/ Grant \/ Serve \/ Engine

Spec == Init /\ [][Next]_vars

\* The bridge arbitrates round-robin, the RAM always answers, and the FSM is
\* clocked: a request is granted, served and consumed.  The CPU owes nothing.
Fairness == WF_vars(Grant) /\ WF_vars(Serve) /\ WF_vars(Engine)

----------------------------------------------------------------------------
(* Properties.                                                              *)

FetchStates == {"FETCH_REQ", "FETCH_WAIT"}
ReadStates  == {"COPY_RD_REQ", "COPY_RD_WAIT"}
WriteStates == {"COPY_WR_REQ", "COPY_WR_WAIT"}
CopyStates  == ReadStates \cup WriteStates
WaitStates  == {"FETCH_WAIT", "COPY_RD_WAIT", "COPY_WR_WAIT"}

\* Types of all the registers of sg_dma.sv and of the memory in front of it.
TypeOK ==
    /\ mem \in [Word -> Word] /\ port \in {"idle", "granted", "served"}
    /\ rdata \in Word /\ desc_addr \in Word /\ ier \in BOOLEAN
    /\ state \in {"IDLE"} \cup FetchStates \cup CopyStates
    /\ busy \in BOOLEAN /\ done \in BOOLEAN /\ completed \in Word
    /\ cur_desc \in Word /\ fetch_idx \in 0 .. DescWords - 1
    /\ fields \in [0 .. DescWords - 1 -> Word]
    /\ cur_src \in Word /\ cur_dst \in Word /\ remaining \in Word
    /\ copy_data \in Word
    /\ desc_irq \in BOOLEAN /\ desc_chain \in BOOLEAN /\ desc_next \in Word

\* The word count: remaining_q - 1 never wraps below zero, whatever the
\* descriptors hold, and the three working registers stay in step with the
\* descriptor they were unpacked from, so that every access of the copy loop
\* is inside the descriptor's two ranges.
CopyInWindow ==
    state \in CopyStates =>
        /\ remaining \in 1 .. fields[2]
        /\ cur_src = Add(fields[0], fields[2] - remaining)
        /\ cur_dst = Add(fields[1], fields[2] - remaining)

\* While software leaves memory alone during a transfer, what the engine has
\* latched is what memory holds: the descriptor words fetched so far, the
\* response on the bus, and the word about to be written back.
LatchedIsCurrent ==
    ~StoreWhileBusy =>
        /\ state \in FetchStates =>
             \A i \in 0 .. fetch_idx - 1 : fields[i] = Load(Add(cur_desc, i))
        /\ port = "served" /\ state = "FETCH_WAIT" =>
             rdata = Load(Add(cur_desc, fetch_idx))
        /\ port = "served" /\ state = "COPY_RD_WAIT" => rdata = Load(cur_src)
        /\ state \in WriteStates /\ port # "served" => copy_data = Load(cur_src)

\* STATUS: BUSY exactly while the FSM is out of IDLE, never with DONE, and no
\* request outlives the state that waits for it, so a transfer cannot start
\* with a stale response on the bus.
StatusCoherent ==
    /\ busy <=> state # "IDLE"
    /\ ~(busy /\ done)
    /\ port # "idle" <=> state \in WaitStates

\* The engine changes memory only inside the destination range of the
\* descriptor it is working on, whoever stores to memory meanwhile.
WritesOnlyDestination ==
    [][port = "granted" /\ port' = "served" =>
          \A a \in Word : mem'[a] # mem[a] =>
              \E k \in 0 .. fields[2] - 1 : a = Add(fields[1], k)]_vars
=============================================================================

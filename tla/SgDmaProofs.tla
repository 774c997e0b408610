----------------------------- MODULE SgDmaProofs -----------------------------
(* Proofs about SgDma, for every memory, word size and software; and that    *)
(* step by step it is an engine of DescriptorChain.                          *)
EXTENDS SgDmaRefinement, TLAPS

\* Sums and decrements of words are words, and sums can be regrouped by one.
LEMMA WordArithmetic ==
    ASSUME NEW x \in Word, NEW y \in Word
    PROVE  /\ Add(x, y) \in Word
           /\ Dec(x) \in Word
           /\ y + 1 < Words => Add(Add(x, y), 1) = Add(x, y + 1)
  BY WordsAssumption DEF Add, Dec, Word

LEMMA SmallWords == /\ 0 \in Word /\ 1 \in Word
                    /\ 0 \in 0 .. DescWords - 1
                    /\ \A i \in 0 .. DescWords - 1 : i \in Word
  BY WordsAssumption DEF Word, DescWords

\* The memory keeps its type whatever is stored, and a load yields a word.
LEMMA MemoryAccess ==
    ASSUME TypeOK, NEW a \in Word, NEW v \in Word
    PROVE  Load(a) \in Word /\ Stored(a, v) \in [Word -> Word]
  BY MappedAssumption DEF TypeOK, Load, Stored

\* Completing a descriptor keeps the types of what it assigns.
LEMMA CompletedType ==
    ASSUME TypeOK, NEW c \in BOOLEAN, NEW next \in Word, Completed(c, next)
    PROVE  /\ completed' \in Word /\ cur_desc' \in Word
           /\ busy' \in BOOLEAN /\ done' \in BOOLEAN
           /\ state' \in {"IDLE", "FETCH_REQ"}
  <1>1. Add(completed, 1) \in Word
    BY SmallWords, WordArithmetic DEF TypeOK
  <1>2. QED
    BY <1>1 DEF Completed, TypeOK

\* One step, action by action.
LEMMA TypeStep == TypeOK /\ [Next]_vars => TypeOK'
  <1> SUFFICES ASSUME TypeOK, [Next]_vars PROVE TypeOK'
    OBVIOUS
  <1> USE DEF config, bus, status, fetch, copy, chain, FetchStates, ReadStates,
              WriteStates, CopyStates
  <1>1. ASSUME NEW v \in DescAddrs, WriteDescAddr(v) PROVE TypeOK'
    BY <1>1, InputsAssumption DEF WriteDescAddr, TypeOK
  <1>2. ASSUME NEW b \in BOOLEAN, WriteIer(b) PROVE TypeOK'
    BY <1>2 DEF WriteIer, TypeOK
  <1>3. CASE Go
    BY <1>3, SmallWords DEF Go, TypeOK
  <1>4. ASSUME NEW s \in Stores, CpuStore(s[1], s[2]) PROVE TypeOK'
    <2>1. s[1] \in Word /\ s[2] \in Word
      BY InputsAssumption
    <2>2. mem' \in [Word -> Word]
      BY <1>4, <2>1, MemoryAccess DEF CpuStore
    <2>3. QED
      BY <1>4, <2>2 DEF CpuStore, TypeOK
  <1>5. CASE Grant
    BY <1>5 DEF Grant, Granted, TypeOK
  <1>6. CASE Serve
    <2>1. fetch_idx \in Word
      BY SmallWords DEF TypeOK
    <2>2. Add(cur_desc, fetch_idx) \in Word
      BY <2>1, WordArithmetic DEF TypeOK
    <2>3. ASSUME NEW w, NEW a \in Word, ServeRead(w, a) PROVE TypeOK'
      <3>1. Load(a) \in Word
        BY MemoryAccess DEF TypeOK
      <3>2. QED
        BY <2>3, <3>1 DEF ServeRead, TypeOK
    <2>4. CASE ServeWrite
      <3>1. mem' \in [Word -> Word]
        BY <2>4, MemoryAccess DEF ServeWrite, TypeOK
      <3>2. QED
        BY <2>4, <3>1 DEF ServeWrite, TypeOK
    <2>5. QED
      BY <1>6, <2>2, <2>3, <2>4 DEF Serve, TypeOK
  <1>7. CASE FetchField
    BY <1>7 DEF FetchField, Rvalid, TypeOK, DescWords
  <1>8. CASE Unpack
    <2>1. /\ fields[0] \in Word /\ fields[1] \in Word /\ fields[2] \in Word
          /\ IrqBit(fields[3]) \in BOOLEAN /\ ChainBit(fields[3]) \in BOOLEAN
      BY DEF TypeOK, DescWords, IrqBit, ChainBit
    <2>2. /\ completed' \in Word /\ cur_desc' \in Word
          /\ busy' \in BOOLEAN /\ done' \in BOOLEAN
          /\ state' \in {"IDLE", "FETCH_REQ", "COPY_RD_REQ"}
      BY <1>8, <2>1, CompletedType DEF Unpack, TypeOK
    <2>3. fetch_idx' \in 0 .. DescWords - 1
      BY <1>8 DEF Unpack, DescWords
    <2>4. QED
      BY <1>8, <2>1, <2>2, <2>3 DEF Unpack, Rvalid, TypeOK
  <1>9. CASE ReadDone
    BY <1>9 DEF ReadDone, Rvalid, TypeOK
  <1>10. CASE WriteDone
    <2>2. cur_src' \in Word /\ cur_dst' \in Word /\ remaining' \in Word
      BY <1>10, SmallWords, WordArithmetic DEF WriteDone, TypeOK
    <2>3. /\ completed' \in Word /\ cur_desc' \in Word
          /\ busy' \in BOOLEAN /\ done' \in BOOLEAN
          /\ state' \in {"IDLE", "FETCH_REQ", "COPY_RD_REQ"}
      BY <1>10, CompletedType DEF WriteDone, TypeOK
    <2>4. fetch_idx' \in 0 .. DescWords - 1
      BY <1>10 DEF WriteDone, TypeOK, DescWords
    <2>5. QED
      BY <1>10, <2>2, <2>3, <2>4 DEF WriteDone, Rvalid, TypeOK
  <1>11. CASE UNCHANGED vars
    BY <1>11 DEF vars, TypeOK
  <1>12. QED
    BY <1>1, <1>2, <1>3, <1>4, <1>5, <1>6, <1>7, <1>8, <1>9, <1>10, <1>11
       DEF Next, Cpu, Engine

LEMMA TypeCorrectInit == Init => TypeOK
  BY SmallWords, MemoriesAssumption DEF Init, TypeOK

\* Every register of the engine keeps its type; in particular fetch_idx_q
\* never leaves the five words of desc_fields_q.
THEOREM TypeCorrect == Spec => []TypeOK
  BY TypeCorrectInit, TypeStep, PTL DEF Spec

----------------------------------------------------------------------------
(* The inductive invariant: the FSM state decides BUSY, DONE and the bus,    *)
(* and the copy loop is inside the descriptor it was unpacked from.          *)

IInv == TypeOK /\ StatusCoherent /\ CopyInWindow

\* One word copied out of n of at least two: the loop stays in the window.
LEMMA NextWord ==
    ASSUME NEW base \in Word, NEW len \in Word, NEW left \in 1 .. len, left # 1
    PROVE  /\ Dec(left) \in 1 .. len
           /\ Add(Add(base, len - left), 1) = Add(base, len - Dec(left))
  BY WordsAssumption DEF Add, Dec, Word

\* A completed descriptor leaves the engine busy in FETCH_REQ or done in IDLE.
LEMMA CompletedStatus ==
    ASSUME NEW c, NEW next, Completed(c, next), busy, ~done, port' = "idle"
    PROVE  StatusCoherent' /\ state' \in {"IDLE", "FETCH_REQ"}
  <1>1. CASE c
    <2>1. state' = "FETCH_REQ" /\ busy' /\ ~done'
      BY <1>1 DEF Completed
    <2>2. QED
      BY <2>1 DEF StatusCoherent, WaitStates
  <1>2. CASE ~c
    <2>1. state' = "IDLE" /\ ~busy' /\ done'
      BY <1>2 DEF Completed
    <2>2. QED
      BY <2>1 DEF StatusCoherent, WaitStates
  <1>3. QED
    BY <1>1, <1>2

LEMMA IInvStep == IInv /\ [Next]_vars => IInv'
  <1> SUFFICES ASSUME IInv, [Next]_vars PROVE StatusCoherent' /\ CopyInWindow'
    BY TypeStep DEF IInv
  <1> USE DEF IInv, StatusCoherent, CopyInWindow, WaitStates, CopyStates,
              ReadStates, WriteStates, FetchStates
  <1> USE DEF config, bus, status, fetch, copy, chain
  <1>1. ASSUME NEW v \in DescAddrs, WriteDescAddr(v) PROVE StatusCoherent' /\ CopyInWindow'
    BY <1>1 DEF WriteDescAddr
  <1>2. ASSUME NEW b \in BOOLEAN, WriteIer(b) PROVE StatusCoherent' /\ CopyInWindow'
    BY <1>2 DEF WriteIer
  <1>3. CASE Go
    BY <1>3 DEF Go
  <1>4. ASSUME NEW s \in Stores, CpuStore(s[1], s[2])
        PROVE  StatusCoherent' /\ CopyInWindow'
    BY <1>4 DEF CpuStore
  <1>5. CASE Grant
    <2>1. ASSUME NEW from \in {"FETCH_REQ", "COPY_RD_REQ", "COPY_WR_REQ"},
                 NEW to \in WaitStates, Granted(from, to),
                 from \in CopyStates <=> to \in CopyStates
          PROVE  StatusCoherent' /\ CopyInWindow'
      BY <2>1 DEF Granted
    <2>2. QED
      BY <1>5, <2>1 DEF Grant
  <1>6. CASE Serve
    <2>1. ASSUME NEW w \in WaitStates, NEW a, ServeRead(w, a)
          PROVE  StatusCoherent' /\ CopyInWindow'
      BY <2>1 DEF ServeRead
    <2>2. CASE ServeWrite
      BY <2>2 DEF ServeWrite
    <2>3. QED
      BY <1>6, <2>1, <2>2 DEF Serve
  <1>7. CASE FetchField
    BY <1>7 DEF FetchField, Rvalid
  <1>8. CASE Unpack
    <2>1. /\ fields[0] \in Word /\ fields[1] \in Word /\ fields[2] \in Word
          /\ \A i \in 0 .. 3 : fields'[i] = fields[i]
      BY <1>8 DEF Unpack, TypeOK, DescWords
    <2>2. Add(fields[0], 0) = fields[0] /\ Add(fields[1], 0) = fields[1]
      BY <2>1, WordsAssumption DEF Add, Word
    <2>3. CopyInWindow'
      <3>1. CASE fields[2] = 0
        BY <1>8, <3>1 DEF Unpack, Completed
      <3>2. CASE fields[2] # 0
        <4>1. fields[2] \in 1 .. fields[2] /\ fields[2] - fields[2] = 0
          BY <2>1, <3>2 DEF Word
        <4>2. cur_src' = fields[0] /\ cur_dst' = fields[1] /\ remaining' = fields[2]
          BY <1>8 DEF Unpack
        <4>3. fields'[0] = fields[0] /\ fields'[1] = fields[1] /\ fields'[2] = fields[2]
          BY <2>1
        <4>4. QED
          BY <2>2, <4>1, <4>2, <4>3
      <3>3. QED
        BY <3>1, <3>2
    <2>4. StatusCoherent'
      <3>1. CASE Completed(ChainBit(fields[3]), rdata)
        <4>1. busy /\ ~done /\ port' = "idle"
          BY <1>8 DEF Unpack, Rvalid
        <4>2. QED
          BY <3>1, <4>1, CompletedStatus
      <3>2. CASE state' = "COPY_RD_REQ" /\ UNCHANGED <<status, cur_desc>>
        BY <1>8, <3>2 DEF Unpack, Rvalid
      <3>3. QED
        BY <1>8, <3>1, <3>2 DEF Unpack
    <2>5. QED
      BY <2>3, <2>4
  <1>9. CASE ReadDone
    BY <1>9 DEF ReadDone, Rvalid
  <1>10. CASE WriteDone
    <2>1. StatusCoherent'
      <3>1. CASE Completed(desc_chain, desc_next)
        <4>1. busy /\ ~done /\ port' = "idle"
          BY <1>10 DEF WriteDone, Rvalid
        <4>2. QED
          BY <3>1, <4>1, CompletedStatus
      <3>2. CASE state' = "COPY_RD_REQ" /\ UNCHANGED <<status, cur_desc, fetch_idx>>
        BY <1>10, <3>2 DEF WriteDone, Rvalid
      <3>3. QED
        BY <1>10, <3>1, <3>2 DEF WriteDone
    <2>2. CopyInWindow'
      <3>1. CASE remaining = 1
        BY <1>10, <3>1 DEF WriteDone, Completed
      <3>2. CASE remaining # 1
        <4>1. fields[0] \in Word /\ fields[1] \in Word /\ fields[2] \in Word
          BY DEF TypeOK, DescWords
        <4>2. remaining \in 1 .. fields[2]
          BY <1>10 DEF WriteDone, Rvalid
        <4>3. /\ remaining' \in 1 .. fields[2]
              /\ cur_src' = Add(fields[0], fields[2] - remaining')
              /\ cur_dst' = Add(fields[1], fields[2] - remaining')
          BY <1>10, <3>2, <4>1, <4>2, NextWord DEF WriteDone, Rvalid
        <4>4. fields' = fields
          BY <1>10 DEF WriteDone
        <4>5. QED
          BY <4>3, <4>4
      <3>3. QED
        BY <3>1, <3>2
    <2>3. QED
      BY <2>1, <2>2
  <1>11. CASE UNCHANGED vars
    BY <1>11 DEF vars
  <1>12. QED
    BY <1>1, <1>2, <1>3, <1>4, <1>5, <1>6, <1>7, <1>8, <1>9, <1>10, <1>11
       DEF Next, Cpu, Engine

LEMMA IInvCorrect == Spec => []IInv
  <1>1. Init => IInv
    BY TypeCorrectInit DEF Init, IInv, StatusCoherent, CopyInWindow, WaitStates,
       CopyStates, ReadStates, WriteStates
  <1>2. QED
    BY <1>1, IInvStep, PTL DEF Spec

\* No descriptor, whatever its length field, makes the word count underflow or
\* the copy loop leave the descriptor's ranges.
THEOREM CopyStaysInWindow == Spec => []CopyInWindow
  BY IInvCorrect, PTL DEF IInv

\* BUSY, DONE and the bus agree with the FSM state in every reachable state.
THEOREM StatusIsCoherent == Spec => []StatusCoherent
  BY IInvCorrect, PTL DEF IInv

\* A request that is being served changes memory, if at all, at the next word
\* of the destination range.
LEMMA ServedWrite ==
    ASSUME IInv, [Next]_vars, port = "granted", port' = "served",
           NEW a \in Word, mem'[a] # mem[a]
    PROVE  \E k \in 0 .. fields[2] - 1 : a = Add(fields[1], k)
  <1>1. Serve
    BY DEF Next, Cpu, WriteDescAddr, WriteIer, Go, CpuStore, Grant, Granted,
           Engine, FetchField, Unpack, ReadDone, WriteDone, Rvalid, vars, bus
  <1>2. ServeWrite
    BY <1>1 DEF Serve, ServeRead
  <1>3. a = cur_dst
    BY <1>2 DEF ServeWrite, Stored, IInv, TypeOK
  <1>4. fields[2] \in Word
    BY DEF IInv, TypeOK, DescWords
  <1>5. remaining \in 1 .. fields[2] /\ cur_dst = Add(fields[1], fields[2] - remaining)
    BY <1>2 DEF ServeWrite, IInv, CopyInWindow, CopyStates, WriteStates
  <1>6. fields[2] - remaining \in 0 .. fields[2] - 1
    BY <1>4, <1>5, WordsAssumption DEF Word
  <1>7. QED
    BY <1>3, <1>5, <1>6

\* Whatever software does to memory and to the descriptors, the engine itself
\* writes only inside the destination range of the descriptor it has latched.
THEOREM WritesStayInDestination == Spec => WritesOnlyDestination
  <1>1. IInv /\ [Next]_vars =>
          [port = "granted" /\ port' = "served" =>
              \A a \in Word : mem'[a] # mem[a] =>
                  \E k \in 0 .. fields[2] - 1 : a = Add(fields[1], k)]_vars
    BY ServedWrite
  <1>2. QED
    BY <1>1, IInvCorrect, PTL DEF Spec, WritesOnlyDestination

----------------------------------------------------------------------------
(* Under the discipline ~StoreWhileBusy, what is latched is what memory      *)
(* holds.                                                                    *)

LEMMA LatchedStep == IInv /\ LatchedIsCurrent /\ [Next]_vars => LatchedIsCurrent'
  <1> SUFFICES ASSUME IInv, LatchedIsCurrent, [Next]_vars, ~StoreWhileBusy
               PROVE  LatchedIsCurrent'
    BY DEF LatchedIsCurrent
  <1> USE DEF IInv, LatchedIsCurrent, FetchStates, WriteStates, Load
  <1> USE DEF config, bus, status, fetch, copy, chain
  <1>1. CASE Cpu
    <2>1. ASSUME NEW v \in DescAddrs, WriteDescAddr(v) PROVE LatchedIsCurrent'
      BY <2>1 DEF WriteDescAddr
    <2>2. ASSUME NEW b \in BOOLEAN, WriteIer(b) PROVE LatchedIsCurrent'
      BY <2>2 DEF WriteIer
    <2>3. CASE Go
      BY <2>3 DEF Go, StatusCoherent, WaitStates
    <2>4. ASSUME NEW s \in Stores, CpuStore(s[1], s[2]) PROVE LatchedIsCurrent'
      <3>1. state = "IDLE" /\ state' = state
        BY <2>4 DEF CpuStore, StatusCoherent
      <3>2. QED
        BY <3>1
    <2>5. QED
      BY <1>1, <2>1, <2>2, <2>3, <2>4 DEF Cpu
  <1>2. CASE Grant
    <2>1. port' = "granted" /\ fetch' = fetch /\ copy' = copy /\ mem' = mem
      BY <1>2 DEF Grant, Granted
    <2>2. /\ state' \in {"FETCH_WAIT", "COPY_RD_WAIT", "COPY_WR_WAIT"}
          /\ state' \in FetchStates => state \in FetchStates
          /\ state' \in WriteStates => state \in WriteStates
      BY <1>2 DEF Grant, Granted
    <2>3. port # "served"
      BY <1>2 DEF Grant, Granted, StatusCoherent, WaitStates
    <2>4. QED
      BY <2>1, <2>2, <2>3
  <1>3. CASE Serve
    BY <1>3 DEF Serve, ServeRead, ServeWrite
  <1>4. CASE FetchField
    <2>1. /\ fields' = [fields EXCEPT ![fetch_idx] = rdata]
          /\ fetch_idx \in 0 .. DescWords - 1
          /\ rdata = Load(Add(cur_desc, fetch_idx))
      BY <1>4 DEF FetchField, Rvalid, TypeOK
    <2>2. QED
      BY <1>4, <2>1 DEF FetchField, Rvalid, TypeOK
  <1>5. CASE Unpack
    BY <1>5 DEF Unpack, Rvalid, Completed
  <1>6. CASE ReadDone
    BY <1>6 DEF ReadDone, Rvalid
  <1>7. CASE WriteDone
    BY <1>7 DEF WriteDone, Rvalid, Completed
  <1>8. CASE UNCHANGED vars
    BY <1>8 DEF vars
  <1>9. QED
    BY <1>1, <1>2, <1>3, <1>4, <1>5, <1>6, <1>7, <1>8 DEF Next, Engine

\* If software keeps its hands off memory during a transfer, the engine never
\* works from a torn descriptor and never writes back stale data.
THEOREM LatchedStaysCurrent == Spec => []LatchedIsCurrent
  <1>1. Init => LatchedIsCurrent
    BY DEF Init, LatchedIsCurrent, FetchStates, WriteStates
  <1>2. QED
    BY <1>1, IInvCorrect, LatchedStep, PTL DEF Spec

----------------------------------------------------------------------------
(* Remainders by a divisor that is not a constant.                           *)

LEMMA DivisionIsUnique ==
    ASSUME NEW d \in Nat, d > 0, NEW q \in Int, NEW p \in Int,
           NEW r \in 0 .. d - 1, NEW t \in 0 .. d - 1, d * q + r = d * p + t
    PROVE  r = t
  <1>1. CASE q > p
    <2>1. d * (q - p) >= d
      BY <1>1
    <2>2. QED
      BY <1>1, <2>1
  <1>2. CASE q < p
    <2>1. d * (p - q) >= d
      BY <1>2
    <2>2. QED
      BY <1>2, <2>1
  <1>3. QED
    BY <1>1, <1>2

LEMMA Division ==
    ASSUME NEW d \in Nat, d > 0, NEW k \in Nat
    PROVE  /\ k = d * (k \div d) + (k % d) /\ k % d \in 0 .. d - 1 /\ k \div d \in Int
           /\ k < d => k % d = k
  OBVIOUS

\* Going back by the divisor does not change the remainder.
LEMMA RemainderBack ==
    ASSUME NEW d \in Nat, d > 0, NEW k \in Nat, k >= d
    PROVE  (k - d) % d = k % d
  <1> DEFINE q == k \div d
             r == k % d
             p == (k - d) \div d
             t == (k - d) % d
  <1>1. k = d * q + r /\ r \in 0 .. d - 1 /\ q \in Int
    BY Division
  <1>2. k - d = d * p + t /\ t \in 0 .. d - 1 /\ p \in Int
    <2>1. k - d \in Nat
      OBVIOUS
    <2>2. QED
      BY <2>1, Division
  <1> HIDE DEF q, r, p, t
  <1>3. d * q + r = d * (p + 1) + t /\ p + 1 \in Int
    BY <1>1, <1>2
  <1>4. r = t
    BY <1>1, <1>2, <1>3, DivisionIsUnique
  <1>5. QED
    BY <1>4 DEF r, t

----------------------------------------------------------------------------
(* The block copy of DescriptorChain in the arithmetic of the engine.        *)

Less(x, y) == IF x >= y THEN x - y ELSE x - y + Words

\* How far into the source the k-th word of a block comes from.
Origin(gap, k) == IF gap = 0 THEN k ELSE k % gap

Block(m, src, dst, n) ==
    [a \in Word |-> IF Less(a, dst) < n
                      THEN m[Add(src, Origin(Less(dst, src), Less(a, dst)))] ELSE m[a]]

LEMMA Modulo ==
    ASSUME NEW x \in Word, NEW y \in Word
    PROVE  (x + y) % Words = Add(x, y) /\ (x - y) % Words = Less(x, y) /\ Less(x, y) \in Word
  <1>1. Words \in Nat /\ Words >= 8
    BY WordsAssumption
  <1>2. \A z \in Int : 0 <= z /\ z < Words => z % Words = z
    BY <1>1
  <1>3. \A z \in Int : Words <= z /\ z < 2 * Words => z % Words = z - Words
    BY <1>1
  <1>4. \A z \in Int : -Words <= z /\ z < 0 => z % Words = z + Words
    BY <1>1
  <1>5. x \in Int /\ y \in Int /\ 0 <= x /\ x < Words /\ 0 <= y /\ y < Words
    BY <1>1 DEF Word
  <1>6. (x + y) % Words = Add(x, y)
    BY <1>1, <1>2, <1>3, <1>5 DEF Add
  <1>7. (x - y) % Words = Less(x, y)
    BY <1>1, <1>2, <1>4, <1>5 DEF Less
  <1>8. QED
    BY <1>1, <1>5, <1>6, <1>7 DEF Less, Word

LEMMA OriginIsWord == ASSUME NEW gap \in Word, NEW k \in Word PROVE Origin(gap, k) \in Word
  <1>1. gap \in Nat /\ k \in Nat /\ Words \in Nat /\ gap < Words /\ k < Words
    BY WordsAssumption DEF Word
  <1>2. CASE gap = 0
    BY <1>2 DEF Origin
  <1>3. CASE gap > 0
    <2>1. k % gap \in 0 .. gap - 1
      BY <1>1, <1>3, Division
    <2>2. QED
      BY <1>1, <1>3, <2>1 DEF Origin, Word
  <1>4. QED
    BY <1>1, <1>2, <1>3

LEMMA CopyIsBlock ==
    ASSUME NEW m \in [Word -> Word], NEW src \in Word, NEW dst \in Word, NEW n \in Word
    PROVE  Chain!CopyBlock(m, src, dst, n) = Block(m, src, dst, n)
  <1> DEFINE gap == (dst - src) % Words
             at(a) == (a - dst) % Words
  <1>1. gap = Less(dst, src) /\ gap \in Word
    BY Modulo
  <1>2. ASSUME NEW a \in Word
        PROVE  /\ at(a) = Less(a, dst) /\ at(a) \in Word
               /\ (src + Origin(gap, at(a))) % Words = Add(src, Origin(gap, at(a)))
    <2>1. at(a) = Less(a, dst) /\ at(a) \in Word
      BY Modulo
    <2>2. Origin(gap, at(a)) \in Word
      BY <1>1, <2>1, OriginIsWord
    <2>3. QED
      BY <2>1, <2>2, Modulo
  <1>3. Chain!CopyBlock(m, src, dst, n) =
          [a \in Word |-> IF at(a) < n THEN m[(src + Origin(gap, at(a))) % Words] ELSE m[a]]
    BY DEF Chain!CopyBlock, Chain!At, Chain!Word, Word, Origin
  <1> HIDE DEF gap, at
  <1>4. QED
    BY <1>1, <1>2, <1>3 DEF Block

\* A block of one word more is the block with the next word copied inside it.
LEMMA NextOfBlock ==
    ASSUME NEW m \in [Word -> Word], NEW src \in Word, NEW dst \in Word,
           NEW n \in Nat, n + 1 < Words
    PROVE  Block(m, src, dst, n + 1) =
             [Block(m, src, dst, n) EXCEPT ![Add(dst, n)] = Block(m, src, dst, n)[Add(src, n)]]
  <1> DEFINE gap == Less(dst, src)
             from == Add(src, n)
             to == Add(dst, n)
  <1>1. /\ Words \in Nat /\ Words >= 8 /\ n < Words
        /\ src \in Nat /\ src < Words /\ dst \in Nat /\ dst < Words
    BY WordsAssumption DEF Word
  <1>2. from \in Word /\ to \in Word /\ gap \in Nat /\ gap < Words /\ Less(to, dst) = n
    BY <1>1 DEF Add, Less, Word
  <1>3. Block(m, src, dst, n)[from] = m[Add(src, Origin(gap, n))]
    <2>1. CASE gap = 0
      <3>1. Less(from, dst) = n
        BY <1>1, <2>1 DEF Add, Less
      <3>2. QED
        BY <1>1, <1>2, <2>1, <3>1 DEF Block, Origin
    <2>2. CASE gap > 0 /\ n < gap
      <3>1. Less(from, dst) = Words + n - gap
        BY <1>1, <2>2 DEF Add, Less
      <3>2. Origin(gap, n) = n
        BY <1>2, <2>2, Division DEF Origin
      <3>3. ~(Less(from, dst) < n)
        BY <1>1, <1>2, <3>1
      <3>4. QED
        BY <1>2, <3>2, <3>3 DEF Block
    <2>3. CASE gap > 0 /\ n >= gap
      <3>1. Less(from, dst) = n - gap
        BY <1>1, <2>3 DEF Add, Less
      <3>2. (n - gap) % gap = n % gap
        BY <1>2, <2>3, RemainderBack
      <3>3. Origin(gap, n - gap) = Origin(gap, n)
        BY <2>3, <3>2 DEF Origin
      <3>4. n - gap < n
        BY <1>2, <2>3
      <3>5. QED
        BY <1>2, <3>1, <3>3, <3>4 DEF Block
    <2>4. QED
      BY <1>2, <2>1, <2>2, <2>3
  <1>4. ASSUME NEW a \in Word
        PROVE  Block(m, src, dst, n + 1)[a] =
                 [Block(m, src, dst, n) EXCEPT ![to] = Block(m, src, dst, n)[from]][a]
    <2>1. CASE a = to
      <3>1. Block(m, src, dst, n + 1)[a] = m[Add(src, Origin(gap, n))]
        BY <1>2, <2>1 DEF Block
      <3>2. QED
        BY <1>2, <1>3, <2>1, <3>1 DEF Block
    <2>2. CASE a # to
      <3>1. Less(a, dst) # n /\ Less(a, dst) \in Nat
        BY <1>1, <2>2 DEF Add, Less, Word
      <3>2. Less(a, dst) < n + 1 <=> Less(a, dst) < n
        BY <3>1
      <3>3. QED
        BY <1>2, <2>2, <3>2 DEF Block
    <2>3. QED
      BY <2>1, <2>2
  <1> HIDE DEF from, to
  <1>5. /\ Block(m, src, dst, n + 1) = [a \in Word |-> Block(m, src, dst, n + 1)[a]]
        /\ [Block(m, src, dst, n) EXCEPT ![to] = Block(m, src, dst, n)[from]] =
             [a \in Word |-> [Block(m, src, dst, n) EXCEPT ![to] = Block(m, src, dst, n)[from]][a]]
    BY <1>2 DEF Block
  <1>6. QED
    BY <1>4, <1>5 DEF from, to

LEMMA EmptyBlock ==
    ASSUME NEW m \in [Word -> Word], NEW src \in Word, NEW dst \in Word
    PROVE  Block(m, src, dst, 0) = m
  <1>1. \A a \in Word : ~(Less(a, dst) < 0)
    BY WordsAssumption DEF Less, Word
  <1>2. QED
    BY <1>1 DEF Block

----------------------------------------------------------------------------
(***************************************************************************)
(* The invariant of the refinement: outside the copy loop memory is what    *)
(* the last descriptor left, and inside it differs from that by the words   *)
(* the block copy of the latched descriptor has so far.                     *)
(***************************************************************************)
CopiedWords ==
    fields[2] - remaining + (IF state = "COPY_WR_WAIT" /\ port = "served" THEN 1 ELSE 0)

DescriptorHeld(f) == \A i \in 0 .. DescWords - 1 : f[i] = committed[Add(cur_desc, i)]

ChainInv ==
    /\ committed \in [Word -> Word]
    /\ state \notin CopyStates => committed = mem
    /\ state \in CopyStates =>
         /\ DescriptorHeld(fields)
         /\ desc_chain = ChainBit(fields[3]) /\ desc_next = fields[4]
         /\ mem = Block(committed, fields[0], fields[1], CopiedWords)

Inv == IInv /\ LatchedIsCurrent /\ ChainInv

\* Every address is answered.
LEMMA PlainMemory ==
    ASSUME Discipline, NEW a \in Word, NEW v
    PROVE  Load(a) = mem[a] /\ Stored(a, v) = [mem EXCEPT ![a] = v]
  BY DEF Discipline, Load, Stored

Abstract == <<committed, desc_addr, cur_desc, busy, done, completed>>

\* A step inside a descriptor is none of the chain.
LEMMA Stutters ==
    ASSUME HNext, busy, UNCHANGED <<desc_addr, cur_desc, busy, done, completed>>
    PROVE  UNCHANGED Abstract
  BY DEF HNext, InsideDescriptor, Abstract

\* A completed descriptor is a step of the chain.
LEMMA Completes ==
    ASSUME HNext, busy, TypeOK, committed \in [Word -> Word],
           NEW f \in [0 .. DescWords - 1 -> Word], DescriptorHeld(f),
           Completed(ChainBit(f[3]), f[4]), ~done,
           desc_addr' = desc_addr, mem' = Block(committed, f[0], f[1], f[2])
    PROVE  Chain!RunDescriptor /\ committed' = mem'
  <1>1. completed \in Word /\ cur_desc \in Word /\ busy' \in BOOLEAN
    BY DEF TypeOK, Completed
  <1>2. completed' = (completed + 1) % Words /\ completed' # completed
    <2>1. Add(completed, 1) # completed
      BY <1>1, WordsAssumption DEF Add, Word
    <2>2. QED
      BY <1>1, <2>1, SmallWords, Modulo DEF Completed
  <1>3. committed' = mem'
    BY <1>2 DEF HNext, InsideDescriptor
  <1>4. \A i \in 0 .. 4 : committed[Chain!At(cur_desc, i)] = f[i] /\ f[i] \in Word
    <2>1. SUFFICES ASSUME NEW i \in 0 .. 4
                   PROVE  (cur_desc + i) % Words = Add(cur_desc, i)
      BY DEF DescriptorHeld, DescWords, Chain!At
    <2>2. i \in Word
      BY SmallWords DEF DescWords
    <2>3. QED
      BY <1>1, <2>2, Modulo
  <1>5. /\ committed[Chain!At(cur_desc, 0)] = f[0] /\ committed[Chain!At(cur_desc, 1)] = f[1]
        /\ committed[Chain!At(cur_desc, 2)] = f[2] /\ committed[Chain!At(cur_desc, 3)] = f[3]
        /\ committed[Chain!At(cur_desc, 4)] = f[4]
    BY <1>4
  <1>6. committed' = Chain!CopyBlock(committed, f[0], f[1], f[2])
    BY <1>3, <1>4, CopyIsBlock
  <1>7. CASE ChainBit(f[3])
    <2>1. busy' = TRUE /\ done' = FALSE /\ cur_desc' = f[4]
      BY <1>7 DEF Completed, TypeOK
    <2>2. QED
      BY <1>2, <1>3, <1>5, <1>6, <1>7, <2>1 DEF Chain!RunDescriptor, ChainBit
  <1>8. CASE ~ChainBit(f[3])
    BY <1>2, <1>3, <1>5, <1>6, <1>8 DEF Completed, Chain!RunDescriptor, ChainBit
  <1>9. QED
    BY <1>3, <1>7, <1>8

(* The steps. *)

LEMMA CpuStep ==
    ASSUME Discipline, Inv, HNext, Cpu
    PROVE  ChainInv' /\ (Chain!Next \/ UNCHANGED Abstract)
  <1> USE DEF config, bus, status, fetch, copy, chain
  <1>1. ASSUME NEW v \in DescAddrs, WriteDescAddr(v)
        PROVE  ChainInv' /\ Chain!Next
    <2>1. /\ UNCHANGED <<mem, port, state, busy, done, completed, cur_desc, fields>>
          /\ UNCHANGED <<remaining, desc_chain, desc_next>> /\ desc_addr' = v
      BY <1>1 DEF WriteDescAddr
    <2>2. committed' = committed
      BY <2>1 DEF HNext, InsideDescriptor, Inv, ChainInv, IInv, StatusCoherent, CopyStates,
                  ReadStates, WriteStates
    <2>3. ChainInv'
      BY <2>1, <2>2 DEF Inv, ChainInv, CopiedWords, DescriptorHeld, Block, Less, Add
    <2>4. Chain!SetDescAddr(v)
      BY <2>1, <2>2 DEF Chain!SetDescAddr
    <2>5. QED
      BY <2>3, <2>4 DEF Chain!Next
  <1>2. ASSUME NEW b \in BOOLEAN, WriteIer(b)
        PROVE  ChainInv' /\ UNCHANGED Abstract
    <2>1. /\ UNCHANGED <<mem, port, state, busy, done, completed, cur_desc, fields>>
          /\ UNCHANGED <<remaining, desc_chain, desc_next, desc_addr>>
      BY <1>2 DEF WriteIer
    <2>2. committed' = committed
      BY <2>1 DEF HNext, InsideDescriptor, Inv, ChainInv, IInv, StatusCoherent, CopyStates,
                  ReadStates, WriteStates
    <2>3. ChainInv'
      BY <2>1, <2>2 DEF Inv, ChainInv, CopiedWords, DescriptorHeld, Block, Less, Add
    <2>4. QED
      BY <2>1, <2>2, <2>3 DEF Abstract
  <1>3. CASE Go
    <2>1. state = "IDLE" /\ state' = "FETCH_REQ" /\ ~busy /\ mem' = mem
      BY <1>3 DEF Go
    <2>2. committed = mem /\ committed' = mem
      BY <2>1 DEF Inv, ChainInv, HNext, InsideDescriptor, CopyStates, ReadStates, WriteStates
    <2>3. ChainInv'
      BY <2>1, <2>2 DEF Inv, ChainInv, CopyStates, ReadStates, WriteStates
    <2>4. Chain!Go
      BY <1>3, <2>2 DEF Go, Chain!Go
    <2>5. QED
      BY <2>3, <2>4 DEF Chain!Next
  <1>4. ASSUME NEW s \in Stores, CpuStore(s[1], s[2])
        PROVE  ChainInv' /\ Chain!Next
    <2>1. ~busy /\ state = "IDLE" /\ state' = state /\ mem \in [Word -> Word]
      BY <1>4 DEF Discipline, CpuStore, Inv, IInv, StatusCoherent, TypeOK
    <2>2. s[1] \in Word /\ s[2] \in Word
      BY InputsAssumption
    <2>3. mem' = [mem EXCEPT ![s[1]] = s[2]]
      BY <1>4, <2>2, PlainMemory DEF CpuStore
    <2>4. committed = mem /\ committed' = mem'
      BY <2>1 DEF Inv, ChainInv, HNext, InsideDescriptor, CopyStates, ReadStates, WriteStates
    <2>5. ChainInv'
      BY <2>1, <2>2, <2>3, <2>4 DEF ChainInv, CopyStates, ReadStates, WriteStates
    <2>6. Chain!Store(s[1], s[2])
      BY <1>4, <2>1, <2>3, <2>4 DEF CpuStore, Chain!Store
    <2>7. QED
      BY <2>5, <2>6 DEF Chain!Next
  <1>5. QED
    BY <1>1, <1>2, <1>3, <1>4 DEF Cpu

LEMMA BusStep ==
    ASSUME Discipline, Inv, HNext, Grant \/ Serve
    PROVE  ChainInv' /\ UNCHANGED Abstract
  <1> USE DEF config, bus, status, fetch, copy, chain
  <1>1. /\ UNCHANGED <<desc_addr, cur_desc, busy, done, completed>>
        /\ UNCHANGED <<fields, cur_src, cur_dst, remaining, copy_data, desc_chain, desc_next>>
        /\ busy
    BY DEF Grant, Granted, Serve, ServeRead, ServeWrite, Inv, IInv, StatusCoherent
  <1>2. committed' = committed /\ UNCHANGED Abstract
    BY <1>1, Stutters DEF Abstract
  <1>3. CASE Grant
    <2>1. /\ mem' = mem /\ port' = "granted"
          /\ state' \in CopyStates <=> state \in CopyStates
          /\ state \notin WaitStates
      BY <1>3 DEF Grant, Granted, CopyStates, ReadStates, WriteStates, WaitStates
    <2>2. CopiedWords' = CopiedWords
      BY <1>1, <2>1 DEF CopiedWords, WaitStates
    <2>3. QED
      BY <1>1, <1>2, <2>1, <2>2 DEF Inv, ChainInv, DescriptorHeld, Block, Less, Add
  <1>4. ASSUME NEW wait \in {"FETCH_WAIT", "COPY_RD_WAIT"}, NEW addr, ServeRead(wait, addr)
        PROVE  ChainInv'
    <2>1. mem' = mem /\ state' = state /\ state # "COPY_WR_WAIT"
      BY <1>4 DEF ServeRead
    <2>2. CopiedWords' = CopiedWords
      BY <1>1, <2>1 DEF CopiedWords
    <2>3. QED
      BY <1>1, <1>2, <2>1, <2>2 DEF Inv, ChainInv, DescriptorHeld, Block, Less, Add
  <1>5. CASE ServeWrite
    <2>1. state = "COPY_WR_WAIT" /\ state' = state /\ port = "granted" /\ port' = "served"
      BY <1>5 DEF ServeWrite
    <2>2. state \in CopyStates /\ state \in WriteStates
      BY <2>1 DEF CopyStates, WriteStates
    <2>3. /\ remaining \in 1 .. fields[2] /\ fields[0] \in Word /\ fields[1] \in Word /\ fields[2] \in Word
          /\ cur_src = Add(fields[0], fields[2] - remaining)
          /\ cur_dst = Add(fields[1], fields[2] - remaining)
          /\ cur_src \in Word /\ cur_dst \in Word
      BY <2>2 DEF Inv, IInv, CopyInWindow, TypeOK, DescWords
    <2> DEFINE n == fields[2] - remaining
    <2>4. n \in Nat /\ n + 1 < Words /\ n + 0 = n
      BY <2>3, WordsAssumption DEF Word
    <2>5. CopiedWords = n + 0 /\ CopiedWords' = n + 1
      BY <1>1, <2>1 DEF CopiedWords
    <2>6. copy_data = mem[cur_src]
      BY <2>1, <2>2, <2>3, PlainMemory DEF Discipline, Inv, LatchedIsCurrent
    <2>7. mem' = [mem EXCEPT ![cur_dst] = mem[cur_src]]
      BY <1>5, <2>3, <2>6, PlainMemory DEF ServeWrite
    <2> HIDE DEF n
    <2>8. mem = Block(committed, fields[0], fields[1], n) /\ committed \in [Word -> Word]
      BY <2>2, <2>4, <2>5 DEF Inv, ChainInv
    <2>9. mem' = Block(committed, fields[0], fields[1], n + 1)
      BY <2>3, <2>4, <2>7, <2>8, NextOfBlock DEF n
    <2>10. QED
      BY <1>1, <1>2, <2>1, <2>2, <2>5, <2>9
         DEF Inv, ChainInv, DescriptorHeld, Block, Less, Add, CopyStates
  <1>6. QED
    BY <1>2, <1>3, <1>4, <1>5 DEF Serve

LEMMA FetchStep ==
    ASSUME Inv, HNext, FetchField \/ ReadDone
    PROVE  ChainInv' /\ UNCHANGED Abstract
  <1> USE DEF config, bus, status, fetch, copy, chain
  <1>1. /\ UNCHANGED <<mem, desc_addr, cur_desc, busy, done, completed>>
        /\ busy
    BY DEF FetchField, ReadDone, Rvalid, Inv, IInv, StatusCoherent
  <1>2. committed' = committed /\ UNCHANGED Abstract
    BY <1>1, Stutters DEF Abstract
  <1>3. CASE FetchField
    BY <1>1, <1>2, <1>3
       DEF FetchField, Rvalid, Inv, ChainInv, CopyStates, ReadStates, WriteStates
  <1>4. CASE ReadDone
    <2>1. /\ state = "COPY_RD_WAIT" /\ state' = "COPY_WR_REQ"
          /\ UNCHANGED <<fields, remaining, desc_chain, desc_next>>
      BY <1>4 DEF ReadDone, Rvalid
    <2>2. state \in CopyStates /\ CopiedWords' = CopiedWords
      BY <2>1 DEF CopyStates, ReadStates, CopiedWords
    <2>3. QED
      BY <1>1, <1>2, <2>1, <2>2
         DEF Inv, ChainInv, DescriptorHeld, Block, Less, Add, CopyStates, WriteStates
  <1>5. QED
    BY <1>2, <1>3, <1>4

LEMMA UnpackStep ==
    ASSUME Discipline, Inv, HNext, Unpack
    PROVE  ChainInv' /\ (Chain!Next \/ UNCHANGED Abstract)
  <1> USE DEF config, bus, status, fetch, copy, chain
  <1> DEFINE f == fields'
  <1>1. /\ state = "FETCH_WAIT" /\ port = "served" /\ fetch_idx = 4 /\ busy /\ ~done
        /\ UNCHANGED <<mem, desc_addr>>
        /\ fields' = [fields EXCEPT ![fetch_idx] = rdata]
        /\ fields \in [0 .. DescWords - 1 -> Word] /\ rdata \in Word
    BY DEF Unpack, Rvalid, DescWords, Inv, IInv, StatusCoherent, TypeOK
  <1>2. state \in FetchStates /\ state \notin CopyStates
    BY <1>1 DEF FetchStates, CopyStates, ReadStates, WriteStates
  <1>3. committed = mem /\ committed \in [Word -> Word] /\ cur_desc \in Word
    BY <1>2 DEF Inv, ChainInv, IInv, TypeOK
  <1>4. /\ f \in [0 .. DescWords - 1 -> Word]
        /\ f[4] = rdata /\ \A i \in 0 .. 3 : f[i] = fields[i]
    BY <1>1 DEF DescWords
  <1>5. /\ \A i \in 0 .. 3 : fields[i] = Load(Add(cur_desc, i))
        /\ rdata = Load(Add(cur_desc, 4))
    BY <1>1, <1>2 DEF Discipline, Inv, LatchedIsCurrent
  <1>6. DescriptorHeld(f)
    <2>1. \A i \in 0 .. 4 : Add(cur_desc, i) \in Word
      <3>1. \A i \in 0 .. 4 : i \in Word
        BY SmallWords DEF DescWords
      <3>2. QED
        BY <1>3, <3>1, WordArithmetic
    <2>2. \A i \in 0 .. 4 : Load(Add(cur_desc, i)) = committed[Add(cur_desc, i)]
      BY <1>3, <2>1, PlainMemory
    <2>3. QED
      BY <1>4, <1>5, <2>2 DEF DescriptorHeld, DescWords
  <1>7. Block(committed, f[0], f[1], 0) = mem /\ f[2] \in Word
    BY <1>3, <1>4, EmptyBlock DEF DescWords
  <1>8. f[0] = fields[0] /\ f[1] = fields[1] /\ f[2] = fields[2] /\ f[3] = fields[3]
    BY <1>4
  <1>9. CASE fields[2] = 0
    <2>1. Completed(ChainBit(f[3]), f[4])
      BY <1>4, <1>8, <1>9 DEF Unpack
    <2>2. Chain!RunDescriptor /\ committed' = mem'
      <3>1. mem' = Block(committed, f[0], f[1], f[2]) /\ TypeOK
        BY <1>1, <1>7, <1>8, <1>9 DEF Inv, IInv
      <3> HIDE DEF f
      <3>2. QED
        BY <1>1, <1>3, <1>4, <1>6, <2>1, <3>1, Completes
    <2>3. state' \in {"IDLE", "FETCH_REQ"}
      BY <2>1 DEF Completed
    <2>4. ChainInv'
      BY <1>1, <1>3, <2>2, <2>3 DEF ChainInv, CopyStates, ReadStates, WriteStates
    <2>5. QED
      BY <2>2, <2>4 DEF Chain!Next
  <1>10. CASE fields[2] # 0
    <2>1. /\ state' = "COPY_RD_REQ" /\ UNCHANGED <<busy, done, completed, cur_desc>>
          /\ remaining' = fields[2] /\ desc_chain' = ChainBit(fields[3]) /\ desc_next' = rdata
      BY <1>10 DEF Unpack
    <2>2. committed' = committed /\ UNCHANGED Abstract
      BY <1>1, <2>1, Stutters DEF Abstract
    <2>3. CopiedWords' = 0
      <3>1. f[2] - f[2] + 0 = 0 /\ remaining' = f[2]
        BY <1>7, <1>8, <2>1 DEF Word
      <3>2. QED
        BY <2>1, <3>1 DEF CopiedWords
    <2>4. DescriptorHeld(fields)'
      BY <1>6, <2>1, <2>2 DEF DescriptorHeld, Add
    <2>5. mem' = Block(committed, fields[0], fields[1], CopiedWords)'
      BY <1>1, <1>7, <2>2, <2>3 DEF Block, Less, Add
    <2>6. ChainInv'
      BY <1>3, <1>4, <1>8, <2>1, <2>2, <2>4, <2>5
         DEF ChainInv, CopyStates, ReadStates, ChainBit
    <2>7. QED
      BY <2>2, <2>6
  <1>11. QED
    BY <1>9, <1>10

LEMMA WriteStep ==
    ASSUME Inv, HNext, WriteDone
    PROVE  ChainInv' /\ (Chain!Next \/ UNCHANGED Abstract)
  <1> USE DEF config, bus, status, fetch, copy, chain
  <1>1. /\ state = "COPY_WR_WAIT" /\ port = "served" /\ port' = "idle" /\ busy /\ ~done
        /\ UNCHANGED <<mem, desc_addr, fields, desc_chain, desc_next>>
        /\ remaining' = Dec(remaining)
        /\ fields \in [0 .. DescWords - 1 -> Word] /\ TypeOK
    BY DEF WriteDone, Rvalid, Inv, IInv, StatusCoherent, TypeOK
  <1>2. state \in CopyStates
    BY <1>1 DEF CopyStates, WriteStates
  <1>3. /\ remaining \in 1 .. fields[2] /\ fields[2] \in Nat
        /\ CopiedWords = fields[2] - remaining + 1
    BY <1>1, <1>2, WordsAssumption DEF Inv, IInv, CopyInWindow, CopiedWords, Word, DescWords
  <1>4. /\ committed \in [Word -> Word] /\ DescriptorHeld(fields)
        /\ desc_chain = ChainBit(fields[3]) /\ desc_next = fields[4]
        /\ mem = Block(committed, fields[0], fields[1], CopiedWords)
    BY <1>2 DEF Inv, ChainInv
  <1>5. CASE remaining = 1
    <2>1. Completed(desc_chain, desc_next)
      BY <1>5 DEF WriteDone
    <2>2. CopiedWords = fields[2]
      BY <1>3, <1>5
    <2>3. Chain!RunDescriptor /\ committed' = mem'
      <3>1. Completed(ChainBit(fields[3]), fields[4])
        BY <1>4, <2>1
      <3>2. mem' = Block(committed, fields[0], fields[1], fields[2])
        BY <1>1, <1>4, <2>2
      <3>3. QED
        BY <1>1, <1>4, <3>1, <3>2, Completes
    <2>4. state' \in {"IDLE", "FETCH_REQ"} /\ mem \in [Word -> Word]
      BY <1>1, <2>1 DEF Completed, TypeOK
    <2>5. ChainInv'
      BY <1>1, <2>3, <2>4 DEF ChainInv, CopyStates, ReadStates, WriteStates
    <2>6. QED
      BY <2>3, <2>5 DEF Chain!Next
  <1>6. CASE remaining # 1
    <2>1. state' = "COPY_RD_REQ" /\ UNCHANGED <<busy, done, completed, cur_desc>>
      BY <1>6 DEF WriteDone
    <2>2. committed' = committed /\ UNCHANGED Abstract
      BY <1>1, <2>1, Stutters DEF Abstract
    <2>3. CopiedWords' = CopiedWords
      <3>1. remaining' = remaining - 1
        BY <1>1, <1>3 DEF Dec
      <3>2. fields[2] - (remaining - 1) + 0 = fields[2] - remaining + 1
        BY <1>3
      <3>3. QED
        BY <1>1, <1>3, <2>1, <3>1, <3>2 DEF CopiedWords
    <2>4. ChainInv'
      BY <1>1, <1>2, <1>4, <2>1, <2>2, <2>3
         DEF ChainInv, DescriptorHeld, Block, Less, Add, CopyStates, ReadStates, ChainBit
    <2>5. QED
      BY <2>2, <2>4
  <1>7. QED
    BY <1>5, <1>6

LEMMA InvStep ==
    ASSUME Discipline, Inv, [HNext]_<<vars, committed>>
    PROVE  Inv' /\ (Chain!Next \/ UNCHANGED Abstract)
  <1>1. [Next]_vars
    BY DEF HNext
  <1>2. IInv' /\ LatchedIsCurrent'
    BY <1>1, IInvStep, LatchedStep DEF Inv
  <1>3. CASE HNext
    <2>1. Cpu \/ Grant \/ Serve \/ Engine
      BY <1>3 DEF HNext, Next
    <2>2. QED
      BY <1>2, <1>3, <2>1, CpuStep, BusStep, FetchStep, UnpackStep, WriteStep DEF Engine, Inv
  <1>4. CASE UNCHANGED <<vars, committed>>
    <2>1. UNCHANGED <<mem, port, state, busy, done, completed, cur_desc, fields, committed,
                      remaining, desc_chain, desc_next, desc_addr>>
      BY <1>4 DEF vars, config, bus, status, fetch, copy, chain
    <2>2. ChainInv'
      BY <2>1 DEF Inv, ChainInv, CopiedWords, DescriptorHeld, Block, Less, Add
    <2>3. QED
      BY <1>2, <2>1, <2>2 DEF Abstract, Inv
  <1>5. QED
    BY <1>3, <1>4

LEMMA InvInit == HInit => Inv
  <1> SUFFICES ASSUME HInit PROVE Inv
    OBVIOUS
  <1>1. Init /\ committed = mem /\ state = "IDLE" /\ mem \in [Word -> Word] /\ port = "idle"
    BY MemoriesAssumption DEF HInit, Init
  <1>2. IInv
    BY <1>1, TypeCorrectInit
       DEF Init, IInv, StatusCoherent, CopyInWindow, WaitStates, CopyStates, ReadStates, WriteStates
  <1>3. QED
    BY <1>1, <1>2 DEF Inv, LatchedIsCurrent, ChainInv, FetchStates, WriteStates, CopyStates, ReadStates

\* When every address is answered and software does not store during a
\* transfer, every step of the engine is a step of the chain or none: each
\* descriptor, one that overlaps itself or the chain too, takes effect as one
\* block copy at the moment it is counted.
THEOREM EngineFollowsChain ==
    ASSUME Discipline
    PROVE  HSteps => Chain!Steps
  <1>1. HInit => Chain!Init
    BY DEF HInit, Init, Chain!Init
  <1>2. Inv /\ [HNext]_<<vars, committed>> => Inv'
    BY InvStep
  <1>3. Inv /\ [HNext]_<<vars, committed>> => [Chain!Next]_(Chain!vars)
    BY InvStep DEF Abstract, Chain!vars
  <1>4. QED
    BY <1>1, <1>2, <1>3, InvInit, PTL DEF HSteps, Chain!Steps
=============================================================================

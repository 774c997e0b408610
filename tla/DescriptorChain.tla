--------------------------- MODULE DescriptorChain ---------------------------
(***************************************************************************)
(* What the scatter-gather engine promises to software that leaves memory   *)
(* alone during a transfer: GO walks the chain from DESC_ADDR, and every    *)
(* descriptor takes effect on memory as one block copy, at the moment it is *)
(* counted.  A descriptor sees the memory its predecessors left, also when  *)
(* they copied over the chain itself.                                       *)
(***************************************************************************)
EXTENDS Integers

CONSTANTS Words, Memories, DescAddrs, Stores

VARIABLES mem, desc_addr, cur, busy, done, completed
vars == <<mem, desc_addr, cur, busy, done, completed>>

Word == 0 .. Words - 1
At(a, i) == (a + i) % Words

\* The effect of copying len words upwards, one at a time.  With the
\* destination d words above the source the copy meets its own output after
\* d words, and repeats the first d of them.
CopyBlock(m, src, dst, len) ==
    LET d == (dst - src) % Words
    IN  [a \in Word |->
            LET k == (a - dst) % Words
            IN  IF k < len THEN m[At(src, IF d = 0 THEN k ELSE k % d)] ELSE m[a]]

Init ==
    /\ mem \in Memories
    /\ desc_addr = 0 /\ cur = 0
    /\ busy = FALSE /\ done = FALSE /\ completed = 0

SetDescAddr(v) ==
    /\ desc_addr' = v
    /\ UNCHANGED <<mem, cur, busy, done, completed>>

Go ==
    /\ ~busy
    /\ busy' = TRUE /\ done' = FALSE /\ completed' = 0
    /\ cur' = desc_addr
    /\ UNCHANGED <<mem, desc_addr>>

Store(a, v) ==
    /\ ~busy
    /\ mem' = [mem EXCEPT ![a] = v]
    /\ UNCHANGED <<desc_addr, cur, busy, done, completed>>

RunDescriptor ==
    LET field(i) == mem[At(cur, i)]
        chained  == (field(3) \div 2) % 2 = 1
    IN  /\ busy
        /\ mem' = CopyBlock(mem, field(0), field(1), field(2))
        /\ completed' = (completed + 1) % Words
        /\ busy' = chained
        /\ done' = ~chained
        /\ cur' = IF chained THEN field(4) ELSE cur
        /\ UNCHANGED desc_addr

Next == \/ \E v \in DescAddrs : SetDescAddr(v)
        \/ Go
        \/ \E s \in Stores : Store(s[1], s[2])
        \/ RunDescriptor

Steps == Init /\ [][Next]_vars
Spec == Steps /\ WF_vars(RunDescriptor)
=============================================================================

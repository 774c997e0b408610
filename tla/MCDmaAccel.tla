----------------------------- MODULE MCDmaAccel -----------------------------
(* Instances of DmaAccel for TLC: ReLU on words of two bits, four of them in *)
(* memory, and transfers of no word and of three.                            *)
EXTENDS DmaAccel

MCMemories == {[a \in 0 .. 3 |-> IF a = 1 THEN 2 ELSE 1]}
\* The reset value of SRC_ADDR is 0 as well.  With the destination at 0 one
\* transfer works in place, the other wraps around the end of memory and meets
\* its own output one word above the source.
MCSources == {3}
MCDestinations == {0}
MCLengths == {0, 3}
\* A negative word, which no memory cell holds after ReLU.
MCStreamWords == {3}
=============================================================================

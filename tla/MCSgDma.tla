------------------------------- MODULE MCSgDma -------------------------------
(* Instances of SgDma for TLC: sixteen words of memory, descriptors at 0 and *)
(* 5, data from 10 up.                                                       *)
EXTENDS SgDma

Descriptor(src, dst, len, ctrl, next) == <<src, dst, len, ctrl, next>>

Layout(d0, d1) ==
    [a \in 0 .. 15 |-> CASE a < 5  -> d0[a + 1]
                         [] a \in 5 .. 9 -> d1[a - 4]
                         [] OTHER  -> a]

\* Chains of one or two descriptors: empty ones, and ranges that overlap
\* upwards, downwards (over the second descriptor's last word) or wrap around.
Second(len) == Descriptor(11, 13, len, 0, 5)
FiniteMemories ==
    {Layout(Descriptor(10, dst, len, ctrl, 5), Second(l)) :
        dst \in {9, 11, 15}, len \in 0 .. 3, ctrl \in {0, 3}, l \in {0, 2}}

\* A first descriptor that copies over the second one's length, control word
\* and link, and a chain that closes on itself.
RewrittenMemories ==
    {Layout(Descriptor(src, 7, len, 2, 5), Second(2)) : src \in {10, 13}, len \in 1 .. 3}
LoopMemories ==
    {Layout(Descriptor(10, 12, 1, 3, 5), Descriptor(11, 13, l, 2, 0)) : l \in 0 .. 1}

AllMemories == FiniteMemories \cup RewrittenMemories \cup LoopMemories

\* A few of them, for the run in which the CPU also stores while they run.
SomeMemories ==
    {Layout(Descriptor(10, dst, 2, 2, 5), Second(1)) : dst \in {7, 9, 11, 15}}
        \cup {Layout(Descriptor(10, 12, 1, 2, 5), Descriptor(11, 13, 0, 2, 0))}

MCDescAddrs == {0, 5}
MCWord == 0 .. 15
\* The last three words of memory belong to no slave.
LowWords == 0 .. 12
\* Stores to the data, and to the length of the first descriptor.
DataStore == {<<12, 1>>}
AnyStore == {<<2, 0>>, <<12, 1>>}
=============================================================================

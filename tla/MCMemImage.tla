----------------------------- MODULE MCMemImage -----------------------------
(* Two memories side by side, one whose scope does not exist, and          *)
(* candidates that overlap, repeat a name or overflow.  Files of up to     *)
(* three segments that overlap, touch, leave gaps, or do not fit.          *)
EXTENDS MemImage

Rom == [name |-> "rom", base |-> 0, words |-> 2, present |-> TRUE]
Ram == [name |-> "ram", base |-> 4, words |-> 3, present |-> TRUE]
Flash == [name |-> "flash", base |-> 10, words |-> 1, present |-> FALSE]
Alias == [name |-> "alias", base |-> 8, words |-> 2, present |-> TRUE]
Twice == [name |-> "ram", base |-> 12, words |-> 1, present |-> TRUE]
Past == [name |-> "past", base |-> 14, words |-> 2, present |-> TRUE]
Tries == {Rom, Ram, Flash, Alias, Twice, Past}

Seg(addr, data) == [load |-> TRUE, addr |-> addr, data |-> data, cut |-> FALSE]
Note == [load |-> FALSE, addr |-> 4, data |-> <<5>>, cut |-> FALSE]
Cut == [load |-> TRUE, addr |-> 4, data |-> <<6>>, cut |-> TRUE]
A == Seg(4, <<1>>)
B == Seg(8, <<2>>)
C == Seg(4, <<3, 3, 3, 3, 3>>)
D == Seg(6, <<4, 4, 4>>)
Elf(list) == [ext |-> "", class |-> "elf", segs |-> list]
Images == {Elf(s) : s \in {<<A, B, C>>, <<A, B, D>>, <<D, C, A>>, <<B, A>>,
                           <<Note, Seg(2, <<7>>), D>>, <<A, Cut>>,
                           <<A, Seg(8, <<2, 2, 2>>)>>, <<Seg(5, <<7>>)>>, <<A, Seg(10, <<7>>)>>,
                           <<Seg(4, <<>>)>>}}
Others == {[ext |-> "vmem", class |-> "vmem", bytes |-> <<8, 8>>],
           [ext |-> "bin", class |-> "elf", segs |-> <<A>>],
           [ext |-> "elf", class |-> "text"]}
AllFiles == Images \cup Others
=============================================================================

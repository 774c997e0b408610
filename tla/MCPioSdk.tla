------------------------------ MODULE MCPioSdk ------------------------------
(* Three slots, two machines, two pins: a relocatable program without jumps *)
(* whose entry is not its wrap target, and a program with a loop of its own *)
(* at a fixed place, as the I2C slave programs have.                        *)
EXTENDS PioSdk

Straight == [code |-> <<Other, Other>>, origin |-> N, target |-> 0, entry |-> 1]
Loop == [code |-> <<Jmp(0)>>, origin |-> 0, target |-> 0, entry |-> 0]
Programs2 == {Straight, Loop}
=============================================================================

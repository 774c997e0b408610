----------------------------- MODULE WordQueue -----------------------------
(* What software and programs may expect of a PIO FIFO: words come out once  *)
(* each, in the order they went in.  In one clock cycle one word may go in   *)
(* and one come out.                                                         *)
EXTENDS Sequences

CONSTANT Data

VARIABLES queue,    \* the words under way
          taken     \* the last word that came out

vars == <<queue, taken>>

Init == queue = <<>> /\ taken \in Data

Put(w) == queue' = Append(queue, w) /\ UNCHANGED taken

Take == queue # <<>> /\ taken' = Head(queue) /\ queue' = Tail(queue)

TakeAndPut(w) ==
    queue # <<>> /\ taken' = Head(queue) /\ queue' = Append(Tail(queue), w)

Next == Take \/ \E w \in Data : Put(w) \/ TakeAndPut(w)

Spec == Init /\ [][Next]_vars
=============================================================================

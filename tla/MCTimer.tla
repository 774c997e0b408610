------------------------------ MODULE MCTimer ------------------------------
(* Words of six values: time carries into the high word three times; a     *)
(* period is shorter than the handler, or reaches across a carry.          *)
EXTENDS Timer
=============================================================================

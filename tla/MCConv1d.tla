------------------------------ MODULE MCConv1d ------------------------------
(* Instances of Conv1d for TLC: two taps, three one-bit samples.              *)
EXTENDS Conv1d

Obeyed == AllRules
=============================================================================

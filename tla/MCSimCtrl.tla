----------------------------- MODULE MCSimCtrl -----------------------------
(* Timeouts inside the reset, after it, and too late to matter; a result   *)
(* register of three bits; two signals, which may fall between any steps.  *)
EXTENDS SimCtrl
=============================================================================

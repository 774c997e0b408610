--------------------------- MODULE SgDmaRefinement ---------------------------
(***************************************************************************)
(* The engine of SgDma implements DescriptorChain when every address is     *)
(* answered and software does not store during a transfer.  The history     *)
(* variable committed is the memory at the last descriptor boundary: the    *)
(* words a descriptor has copied so far become visible when it completes.   *)
(***************************************************************************)
EXTENDS SgDma

(* Every address is answered, and software waits for the engine. *)
Discipline == Mapped = Word /\ ~StoreWhileBusy

VARIABLE committed

InsideDescriptor == busy /\ busy' /\ completed' = completed

HInit == Init /\ committed = mem
HNext == /\ Next
         /\ committed' = IF InsideDescriptor THEN committed ELSE mem'
HSteps == HInit /\ [][HNext]_<<vars, committed>>
HSpec == HSteps /\ Fairness

Chain == INSTANCE DescriptorChain WITH mem <- committed, cur <- cur_desc

\* Every behaviour of the engine is one of the abstract chain: descriptors
\* take effect whole, in chain order, each counted once, and DONE comes with
\* the last.
ImplementsChain == Chain!Spec
=============================================================================

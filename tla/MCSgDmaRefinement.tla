-------------------------- MODULE MCSgDmaRefinement --------------------------
(* The refinement of SgDmaRefinement over the instances of MCSgDma.          *)
EXTENDS SgDmaRefinement, MCSgDma
=============================================================================

------------------------------ MODULE MCKernel ------------------------------
(* Kernel with the sizes of the source: pcb_bitmap[MAX_NUM_PROCESS] of 6   *)
(* and TERM_NUM 3 terminals.                                               *)
EXTENDS Kernel

MCMaxProcs == 4
MCTerms    == 3
=============================================================================

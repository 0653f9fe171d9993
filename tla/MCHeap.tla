------------------------------- MODULE MCHeap -------------------------------
(***************************************************************************)
(* FromaHeap with the alignment (8) and the header (16) of the build, in a *)
(* heap of at most five blocks.                                            *)
(***************************************************************************)
EXTENDS FromaHeap

(* Nothing; less than and exactly one unit of alignment; sizes that leave a *)
(* rest just too small and just large enough for a block; all but the       *)
(* header, which is refused.                                                *)
Sizes == {0, 1, 8, 20, 33, TotalHeapSize - heapSTRUCT_SIZE}
=============================================================================

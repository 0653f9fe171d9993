---------------------------- MODULE FromaHeapSpec ----------------------------
(***************************************************************************)
(* What pvPortMalloc and vPortFree promise their callers, whatever the     *)
(* bookkeeping: memory that is aligned, inside the heap, and nobody else's *)
(* until it is given back.  FromaHeap implements it.                       *)
(***************************************************************************)
EXTENDS Integers

CONSTANTS
  TotalHeapSize,   (* configTOTAL_HEAP_SIZE                                 *)
  Alignment        (* portBYTE_ALIGNMENT                                    *)

VARIABLE given     (* the memory in the callers' hands: [at, bytes]         *)

Aligned == {a \in 0 .. TotalHeapSize : a % Alignment = 0}
Memory == [at : Aligned, bytes : 0 .. TotalHeapSize]

Disjoint(x, y) == x.at + x.bytes <= y.at \/ y.at + y.bytes <= x.at

Malloc ==
  \E x \in Memory :
    /\ given' = given \cup {x}
    /\ x.at + x.bytes <= TotalHeapSize
    /\ \A y \in given : Disjoint(x, y)

Free(x) == given' = given \ {x}

Init == given = {}

Next == \/ Malloc
        \/ \E x \in given : Free(x)

Spec == Init /\ [][Next]_given
=============================================================================

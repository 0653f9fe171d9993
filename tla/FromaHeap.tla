------------------------------ MODULE FromaHeap ------------------------------
(***************************************************************************)
(* The heap of kernel/mm/heap_2.c: blocks with a header each, the free     *)
(* ones chained in order of size; a block is split when the rest is worth  *)
(* a block, and blocks are never joined.                                   *)
(*                                                                         *)
(* Both calls do their work between vTaskSuspendAll and xTaskResumeAll, so *)
(* to the tasks of one core each is one step.  A caller frees only what it *)
(* was given.                                                              *)
(***************************************************************************)
EXTENDS Integers, FiniteSets, SequencesExt

CONSTANTS
  TotalHeapSize,   (* configTOTAL_HEAP_SIZE                                 *)
  Alignment,       (* portBYTE_ALIGNMENT                                    *)
  LinkSize,        (* sizeof( xBlockLink )                                  *)
  Requests         (* the sizes the callers ask for; with header and        *)
                   (* padding they still fit a size_t                       *)

heapSTRUCT_SIZE == LinkSize + Alignment - (LinkSize % Alignment)
heapMINIMUM_BLOCK_SIZE == 2 * heapSTRUCT_SIZE

ASSUME HeapAssumption ==
  /\ TotalHeapSize \in Nat \ {0}
  /\ Alignment \in Nat \ {0}
  /\ LinkSize \in Nat \ {0}
  /\ Requests \subseteq Nat

VARIABLES
  initialised,  (* xHeapHasBeenInitialised                                  *)
  chain,        (* the blocks from xStart to xEnd, by address in ucHeap     *)
  size,         (* xBlockSize in the header of each block                   *)
  used,         (* the blocks handed out                                    *)
  freeBytes     (* xFreeBytesRemaining                                      *)

vars == <<initialised, chain, size, used, freeBytes>>

(* prvHeapInit on the first call: one free block, the whole heap.           *)
Chain == IF initialised THEN chain ELSE <<0>>
Size == IF initialised THEN size ELSE [b \in {0} |-> TotalHeapSize]

(* Mutant: the size is not rounded up.                                      *)
WantedUnrounded(n) == IF n = 0 THEN 0 ELSE n + heapSTRUCT_SIZE

(* The size with the header, rounded up.                                    *)
Wanted(n) ==
  LET w == n + heapSTRUCT_SIZE IN
  IF n = 0 THEN 0
  ELSE IF w % Alignment # 0 THEN w + Alignment - (w % Alignment) ELSE w

(* The loops over the chain pass the k blocks that are smaller than v.      *)
Passes(s, sz, v, k) ==
  /\ \A m \in 1 .. k : sz[s[m]] < v
  /\ k < Len(s) => sz[s[k + 1]] >= v

(* Mutant: the block stays in the chain.                                    *)
TakeTwice(b, k, w) ==
  /\ chain' = Chain
  /\ size' = Size
  /\ freeBytes' = freeBytes - Size[b]

TakeWhole(b, k, w) ==
  /\ chain' = RemoveAt(Chain, k + 1)
  /\ size' = Size
  /\ freeBytes' = freeBytes - Size[b]

(* Mutant: the new header comes where the caller's bytes end, unrounded.     *)
SplitShort(b, k, w) ==
  LET rest == b + w - heapSTRUCT_SIZE
      sz == [a \in DOMAIN Size \cup {rest} |->
               IF a = b THEN w ELSE IF a = rest THEN Size[b] - w ELSE Size[a]]
      s == RemoveAt(Chain, k + 1)
  IN
  /\ size' = sz
  /\ \E j \in 0 .. Len(s) : /\ Passes(s, sz, sz[rest], j)
                            /\ chain' = InsertAt(s, j + 1, rest)
  /\ freeBytes' = freeBytes - w

Split(b, k, w) ==
  LET rest == b + w
      sz == [a \in DOMAIN Size \cup {rest} |->
               IF a = b THEN w ELSE IF a = rest THEN Size[b] - w ELSE Size[a]]
      s == RemoveAt(Chain, k + 1)
  IN
  /\ size' = sz
  /\ \E j \in 0 .. Len(s) : /\ Passes(s, sz, sz[rest], j)
                            /\ chain' = InsertAt(s, j + 1, rest)
  /\ freeBytes' = freeBytes - w

(* pvPortMalloc finds a block: the first in the chain that is large enough. *)
Grant(n) ==
  LET w == Wanted(n) IN
  /\ w > 0 /\ w < TotalHeapSize
  /\ \E k \in 0 .. Len(Chain) - 1 :
       LET b == Chain[k + 1] IN
       /\ Passes(Chain, Size, w, k)
       /\ used' = used \cup {b}
       /\ IF Size[b] - w > heapMINIMUM_BLOCK_SIZE
          THEN Split(b, k, w)
          ELSE TakeWhole(b, k, w)
  /\ initialised' = TRUE

(* pvPortMalloc returns NULL: nothing is asked for, or more than the heap,  *)
(* or more than any free block.                                             *)
Refuse(n) ==
  LET w == Wanted(n) IN
  /\ \/ w = 0
     \/ w >= TotalHeapSize
     \/ Passes(Chain, Size, w, Len(Chain))
  /\ initialised' = TRUE
  /\ chain' = Chain
  /\ size' = Size
  /\ UNCHANGED <<used, freeBytes>>

pvPortMalloc(n) == Grant(n) \/ Refuse(n)

(* vPortFree of a block that was handed out: back into the chain.           *)
vPortFree(b) ==
  /\ used' = used \ {b}
  /\ \E k \in 0 .. Len(chain) : /\ Passes(chain, size, size[b], k)
                                /\ chain' = InsertAt(chain, k + 1, b)
  /\ freeBytes' = freeBytes + size[b]
  /\ UNCHANGED <<initialised, size>>

Init ==
  /\ initialised = FALSE
  /\ chain = <<>>
  /\ size = [b \in {} |-> 0]
  /\ used = {}
  /\ freeBytes = TotalHeapSize

Next == \/ \E n \in Requests : pvPortMalloc(n)
        \/ \E b \in used : vPortFree(b)

Spec == Init /\ [][Next]_vars

-----------------------------------------------------------------------------
(* Properties.                                                              *)

(* The chain and the blocks handed out are the blocks there are, and no     *)
(* block is in both or twice in the chain: pvPortMalloc never hands out a   *)
(* block that vPortFree will insert a second time.                          *)
OnceEach ==
  initialised =>
    /\ IsInjective(chain)
    /\ ToSet(chain) \cap used = {}
    /\ ToSet(chain) \cup used = DOMAIN size

(* Blocks do not overlap and lie inside the heap, after any sequence of     *)
(* splits, whatever sizes were asked for.                                   *)
Apart ==
  /\ \A a \in DOMAIN size : a + size[a] <= TotalHeapSize
  /\ \A a, b \in DOMAIN size :
       a # b => a + size[a] <= b \/ b + size[b] <= a

(* What callers were promised: FromaHeapSpec, of the bytes behind the       *)
(* headers.                                                                 *)
Given == {[at |-> b + heapSTRUCT_SIZE, bytes |-> size[b] - heapSTRUCT_SIZE] :
            b \in used}
Promise == INSTANCE FromaHeapSpec WITH given <- Given
PromiseKept == Promise!Spec
=============================================================================

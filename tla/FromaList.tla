------------------------------ MODULE FromaList ------------------------------
(***************************************************************************)
(* source/list.c and the macros of source/include/list.h: circular doubly  *)
(* linked lists with an end marker and a walking index.  One action per    *)
(* function, each atomic: what a caller alone on the lists does.           *)
(*                                                                         *)
(* A list's end marker, &( pxList->xListEnd ), is the list itself here; an *)
(* item's owner (its TCB) is the item.  Removing an item leaves its own    *)
(* two pointers as they were, and vListInitialiseItem leaves them unset.   *)
(***************************************************************************)
EXTENDS FromaListUse, SequencesExt

Nodes == Items \cup Lists

VARIABLES
  pxNext, pxPrevious,   (* of every item and of every list's end marker     *)
  pxIndex,              (* of every list                                    *)
  uxNumberOfItems,      (* of every list                                    *)
  pvContainer,          (* of every item                                    *)
  xItemValue,           (* of every item                                    *)
  got                   (* the items whose owners the latest operation      *)
                        (* returned                                         *)

links == <<pxNext, pxPrevious>>
vars == <<pxNext, pxPrevious, pxIndex, uxNumberOfItems, pvContainer,
          xItemValue, got>>

Value(n) == IF n \in Lists THEN MaxDelay ELSE xItemValue[n]

(* The item is entered behind node n.                                       *)
Link(l, i, n) ==
  /\ pxNext' = [pxNext EXCEPT ![i] = pxNext[n], ![n] = i]
  /\ pxPrevious' = [pxPrevious EXCEPT ![pxNext[n]] = i, ![i] = n]
  /\ pvContainer' = [pvContainer EXCEPT ![i] = l]
  /\ uxNumberOfItems' = [uxNumberOfItems EXCEPT ![l] = @ + 1]

Unlink(i) ==
  /\ pxPrevious' = [pxPrevious EXCEPT ![pxNext[i]] = pxPrevious[i]]
  /\ pxNext' = [pxNext EXCEPT ![pxPrevious[i]] = pxNext[i]]
  /\ pvContainer' = [pvContainer EXCEPT ![i] = Null]
  /\ uxNumberOfItems' = [uxNumberOfItems EXCEPT ![pvContainer[i]] = @ - 1]

SetValue(i, v) ==
  /\ pvContainer[i] = Null
  /\ xItemValue' = [xItemValue EXCEPT ![i] = v]
  /\ got' = <<>> /\ UNCHANGED <<links, pxIndex, uxNumberOfItems, pvContainer>>

(* Behind the index, which moves to it: the last to have its turn.          *)
vListInsertEnd(l, i) ==
  /\ pvContainer[i] = Null
  /\ Link(l, i, pxIndex[l])
  /\ pxIndex' = [pxIndex EXCEPT ![l] = i]
  /\ got' = <<>> /\ UNCHANGED xItemValue

(* The node n steps from the end marker.                                    *)
Steps(l) ==
  LET node[n \in 0 .. Cardinality(Items)] ==
        IF n = 0 THEN l ELSE pxNext[node[n - 1]]
  IN  node

(* Mutant: the iteration stops at an equal value.                            *)
IteratorStrict(l, v) ==
  IF v = MaxDelay
  THEN pxPrevious[l]
  ELSE LET after == Steps(l)
           n == CHOOSE n \in DOMAIN after :
                  /\ Value(pxNext[after[n]]) >= v
                  /\ \A m \in 0 .. n - 1 : Value(pxNext[after[m]]) < v
       IN  after[n]

(* pxIterator after the loop of vListInsert; the end marker's own value     *)
(* would never stop it, and is looked at first.                             *)
Iterator(l, v) ==
  IF v = MaxDelay
  THEN pxPrevious[l]
  ELSE LET after == Steps(l)
           n == CHOOSE n \in DOMAIN after :
                  /\ Value(pxNext[after[n]]) > v
                  /\ \A m \in 0 .. n - 1 : Value(pxNext[after[m]]) <= v
       IN  after[n]

vListInsert(l, i) ==
  /\ pvContainer[i] = Null
  /\ Link(l, i, Iterator(l, xItemValue[i]))
  /\ got' = <<>> /\ UNCHANGED <<pxIndex, xItemValue>>

(* Mutant: pxIndex is left on the removed item.                              *)
KeepIndexDangling(i) == UNCHANGED pxIndex

(* "Make sure the index is left pointing to a valid item."                  *)
KeepIndex(i) ==
  LET l == pvContainer[i] IN
  pxIndex' = [pxIndex EXCEPT ![l] = IF @ = i THEN pxPrevious[i] ELSE @]

vListRemove(i) ==
  /\ pvContainer[i] # Null
  /\ Unlink(i)
  /\ KeepIndex(i)
  /\ got' = <<>> /\ UNCHANGED xItemValue

(* listGET_OWNER_OF_NEXT_ENTRY, which steps over the end marker.  Callers   *)
(* walk as many entries as the list has.                                    *)
EntryAfter(l, n) == IF pxNext[n] = l THEN pxNext[l] ELSE pxNext[n]
NextEntry(l) ==
  /\ uxNumberOfItems[l] > 0
  /\ pxIndex' = [pxIndex EXCEPT ![l] = EntryAfter(l, @)]
  /\ got' = <<pxIndex'[l]>>
  /\ UNCHANGED <<links, uxNumberOfItems, pvContainer, xItemValue>>

(* listGET_OWNER_OF_HEAD_ENTRY, and the vListRemove that follows it.        *)
TakeHead(l) ==
  /\ uxNumberOfItems[l] > 0
  /\ got' = <<pxNext[l]>>
  /\ Unlink(pxNext[l])
  /\ KeepIndex(pxNext[l])
  /\ UNCHANGED xItemValue

(* prvListTaskWithinSingleList: the owner of the next entry is remembered,  *)
(* and the walk lists what follows until it comes back to that owner.       *)
First(l) == EntryAfter(l, pxIndex[l])
prvListTaskWithinSingleList(l) ==
  LET entry[n \in Nat] == IF n = 0 THEN First(l) ELSE EntryAfter(l, entry[n - 1])
      last == CHOOSE n \in 1 .. Cardinality(Items) :
                entry[n] = First(l) /\ \A m \in 1 .. n - 1 : entry[m] # First(l)
  IN  [n \in 1 .. last |-> entry[n]]

(* All the lists that are not empty are walked.                             *)
Walked == {l \in Reported : uxNumberOfItems[l] > 0}
Walk ==
  /\ pxIndex' = [l \in Lists |-> IF l \in Walked THEN First(l) ELSE pxIndex[l]]
  /\ UNCHANGED <<links, uxNumberOfItems, pvContainer, xItemValue>>

vTaskList ==
  /\ Walk
  /\ got' = FoldSet(LAMBDA l, s : s \o prvListTaskWithinSingleList(l), <<>>, Walked)

(* The lists are walked even if less than 100 units of time have passed,    *)
(* but then nothing is written.                                             *)
vTaskGetRunTimeStats == vTaskList \/ (Walk /\ got' = <<>>)

(* vListInitialise and vListInitialiseItem.                                 *)
Init ==
  /\ pxNext = [n \in Nodes |-> IF n \in Lists THEN n ELSE Null]
  /\ pxPrevious = pxNext
  /\ pxIndex = [l \in Lists |-> l]
  /\ uxNumberOfItems = [l \in Lists |-> 0]
  /\ pvContainer = [i \in Items |-> Null]
  /\ xItemValue \in [Items -> Values]
  /\ got = <<>>

Next ==
  \/ \E i \in Items :
       \/ \E v \in Values : SetValue(i, v)
       \/ \E l \in Ready \cup Fifo : vListInsertEnd(l, i)
       \/ \E l \in Sorted : vListInsert(l, i)
       \/ vListRemove(i)
  \/ \E l \in Ready : NextEntry(l)
  \/ \E l \in Fifo \cup Sorted : TakeHead(l)
  \/ vTaskList \/ vTaskGetRunTimeStats

Spec == Init /\ [][Next]_vars

-----------------------------------------------------------------------------
(* Properties.                                                              *)

(* The items between the end marker and itself, in order.                   *)
Chain(l) == [n \in 1 .. uxNumberOfItems[l] |-> Steps(l)[n]]

(* Following pxNext from the marker meets each item whose pvContainer is    *)
(* the list once, in uxNumberOfItems steps, and comes back; pxPrevious is   *)
(* the way back; pxIndex never points at an item that has left; and no walk *)
(* returns the owner of an end marker, which has none.                      *)
RingIntact(l, chain, ring) ==
  /\ uxNumberOfItems[l] \in 0 .. Cardinality(Items)
  /\ IsInjective(chain)
  /\ ToSet(chain) = {i \in Items : pvContainer[i] = l}
  /\ \A n \in ring : pxNext[n] \in ring /\ pxPrevious[pxNext[n]] = n
  /\ pxIndex[l] \in ring
WellFormed ==
  /\ \A l \in Lists : RingIntact(l, Chain(l), {l} \cup ToSet(Chain(l)))
  /\ ToSet(got) \subseteq Items

(* The sequence a ready list stands for, from the entry after pxIndex; the  *)
(* others begin at the head.                                                *)
Turns(l) ==
  LET chain == Chain(l)
      at == IF pxIndex[l] = l THEN 0
            ELSE CHOOSE n \in DOMAIN chain : chain[n] = pxIndex[l]
  IN  SubSeq(chain, at + 1, Len(chain)) \o SubSeq(chain, 1, at)

Sequences == [l \in Lists |-> IF l \in Ready THEN Turns(l) ELSE Chain(l)]

Promise == INSTANCE FromaListSpec WITH seq <- Sequences, value <- xItemValue

(* Whatever its callers do in turn, the pointers behave as the sequences of *)
(* FromaListSpec: a walk gives every ready task its turn, a head is the     *)
(* first come or the least value, a removal disturbs no other item, and     *)
(* vTaskList lists every task once.                                         *)
PromiseKept == Promise!Spec
=============================================================================

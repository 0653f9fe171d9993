---------------------------- MODULE FromaListSpec ----------------------------
(***************************************************************************)
(* What source/list.c promises its callers, without its pointers: a list   *)
(* is a sequence of items.  FromaList is the same with pointers and        *)
(* implements it; FromaSched uses its lists in this form.                  *)
(*                                                                         *)
(* The sequence of a ready list starts at the next entry: its last item is *)
(* the one pxIndex points to.  The others start at the head.               *)
(***************************************************************************)
EXTENDS FromaListUse, SequencesExt

VARIABLES
  seq,        (* the items of each list                                     *)
  value,      (* xItemValue of each item                                    *)
  got         (* the items whose owners the latest operation returned       *)

vars == <<seq, value, got>>

On(i, l) == i \in ToSet(seq[l])
Free(i) == \A l \in Lists : ~On(i, l)
Place(s, i) == CHOOSE n \in DOMAIN s : s[n] = i

(* listSET_LIST_ITEM_VALUE, on an item that is on no list.                  *)
SetValue(i, v) ==
  /\ Free(i)
  /\ value' = [value EXCEPT ![i] = v]
  /\ got' = <<>> /\ UNCHANGED seq

vListInsertEnd(l, i) ==
  /\ Free(i)
  /\ seq' = [seq EXCEPT ![l] = Append(@, i)]
  /\ got' = <<>> /\ UNCHANGED value

(* Where vListInsert puts an item of value v: n items stay before it.       *)
Before(s, v, n) ==
  /\ \A m \in 1 .. n : value[s[m]] <= v
  /\ n < Len(s) => v < value[s[n + 1]]

vListInsert(l, i) ==
  /\ Free(i)
  /\ \E n \in 0 .. Len(seq[l]) :
       /\ Before(seq[l], value[i], n)
       /\ seq' = [seq EXCEPT ![l] = InsertAt(@, n + 1, i)]
  /\ got' = <<>> /\ UNCHANGED value

Taken(l, i) == [seq EXCEPT ![l] = RemoveAt(@, Place(@, i))]

vListRemove(l, i) ==
  /\ On(i, l)
  /\ seq' = Taken(l, i)
  /\ got' = <<>> /\ UNCHANGED value

(* listGET_OWNER_OF_NEXT_ENTRY: every item gets its turn.                   *)
Rotated(s) == Append(Tail(s), Head(s))
NextEntry(l) ==
  /\ seq[l] # <<>>
  /\ got' = <<Head(seq[l])>>
  /\ seq' = [seq EXCEPT ![l] = Rotated(@)]
  /\ UNCHANGED value

(* listGET_OWNER_OF_HEAD_ENTRY, and the vListRemove that follows it.        *)
TakeHead(l) ==
  /\ seq[l] # <<>>
  /\ got' = <<Head(seq[l])>>
  /\ seq' = [seq EXCEPT ![l] = Tail(@)]
  /\ UNCHANGED value

(* A ready list that is gone through ends up one turn further.              *)
GoneThrough ==
  seq' = [l \in Lists |-> IF l \in Ready \cap Reported /\ seq[l] # <<>>
                         THEN Rotated(seq[l]) ELSE seq[l]]

(* Every task that is on one of the lists is listed, once.                  *)
vTaskList ==
  /\ GoneThrough
  /\ got' \in Seq(Items) /\ IsInjective(got')
  /\ ToSet(got') = UNION {ToSet(seq[l]) : l \in Reported}
  /\ UNCHANGED value

(* Before any time has passed there is nothing to list.                     *)
vTaskGetRunTimeStats ==
  vTaskList \/ (GoneThrough /\ got' = <<>> /\ UNCHANGED value)

Init ==
  /\ seq = [l \in Lists |-> <<>>]
  /\ value \in [Items -> Values]
  /\ got = <<>>

Next ==
  \/ \E i \in Items :
       \/ \E v \in Values : SetValue(i, v)
       \/ \E l \in Ready \cup Fifo : vListInsertEnd(l, i)
       \/ \E l \in Sorted : vListInsert(l, i)
       \/ \E l \in Lists : vListRemove(l, i)
  \/ \E l \in Ready : NextEntry(l)
  \/ \E l \in Fifo \cup Sorted : TakeHead(l)
  \/ vTaskList \/ vTaskGetRunTimeStats

Spec == Init /\ [][Next]_vars

-----------------------------------------------------------------------------
(* Properties.                                                              *)

TypeOK == /\ seq \in [Lists -> Seq(Items)]
          /\ value \in [Items -> Values]
          /\ got \in Seq(Items)

(* An item is on at most one list, and there once: pvContainer can say      *)
(* which.                                                                   *)
OneList ==
  /\ \A l \in Lists : IsInjective(seq[l])
  /\ \A l, m \in Lists : ToSet(seq[l]) \cap ToSet(seq[m]) # {} => l = m

(* A sorted list is in order of value, so that the next task to unblock and *)
(* the most important waiter are at its head.                               *)
InOrder ==
  \A l \in Sorted : \A m, n \in DOMAIN seq[l] :
    m <= n => value[seq[l][m]] <= value[seq[l][n]]
=============================================================================

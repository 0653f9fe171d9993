---------------------------- MODULE FromaListUse ----------------------------
(***************************************************************************)
(* The lists of the kernel, by the way it uses them:                       *)
(*   Ready   pxReadyTasksLists: vListInsertEnd, and                        *)
(*           listGET_OWNER_OF_NEXT_ENTRY to give every task its turn;      *)
(*           xSuspendedTaskList, whose order nobody looks at;              *)
(*   Fifo    xPendingReadyList: vListInsertEnd, and the head is the item   *)
(*           that came first;                                              *)
(*   Sorted  the delayed lists and the event lists: vListInsert, and the   *)
(*           head is the item with the least value.                        *)
(* vTaskList and vTaskGetRunTimeStats go through those that hold tasks.    *)
(***************************************************************************)
EXTENDS Integers, FiniteSets

CONSTANTS
  Items,      (* the list items: one generic and one event item per TCB     *)
  Ready, Fifo, Sorted,    (* the lists, by use                              *)
  Reported,   (* the lists that vTaskList goes through                      *)
  Null,       (* no list, no item                                           *)
  MaxDelay    (* portMAX_DELAY, the value of every list's end marker        *)

Lists == Ready \cup Fifo \cup Sorted
Values == 0 .. MaxDelay

ASSUME ItemsAssumption ==
  /\ Null \notin Items \cup Lists /\ Items \cap Lists = {}
  /\ IsFiniteSet(Items) /\ IsFiniteSet(Lists)
ASSUME UseAssumption ==
  /\ Ready \cap Fifo = {} /\ Ready \cap Sorted = {} /\ Fifo \cap Sorted = {}
  /\ Reported \subseteq Ready \cup Sorted
ASSUME DelayAssumption == MaxDelay \in Nat
=============================================================================

-------------------------- MODULE FromaCoRoutines --------------------------
(***************************************************************************)
(* Co-routines: the scheduler of source/croutine.c, which the idle task    *)
(* calls again and again, and the queues co-routines share with interrupts *)
(* (xQueueCRSend and its like in source/queue.c).  FreeRTOSConfig.h leaves *)
(* configUSE_CO_ROUTINES off; this is the code as the option builds it.    *)
(*                                                                         *)
(* The scheduler and the co-routines are one thread.  Interrupts come      *)
(* between any two of its steps; what it does with interrupts disabled is  *)
(* one step.  xQueueCRSend disables them too, but prvIsQueueFull, which it *)
(* asks first, enables them again (its taskEXIT_CRITICAL is the outermost):*)
(* a sender blocks with interrupts enabled, and vListInsert is taken apart.*)
(* Where an interrupt uses the list in the middle of that change, its      *)
(* pointers are not followed: the behaviour ends with torn set.            *)
(* A co-routine keeps its place in uxState only.                           *)
(*                                                                         *)
(* Times are kept without wrapping, and wrapped where the code looks at    *)
(* them, as in FromaTick.  Messages are only counted: what a queue does    *)
(* with their order is in FromaQueue.                                      *)
(***************************************************************************)
EXTENDS Integers, FiniteSets, SequencesExt, FromaWithout

CONSTANTS
  CoRoutines, None,
  MaxPriorities,   (* configMAX_CO_ROUTINE_PRIORITIES                       *)
  Asked,           (* the uxPriority each is created with                   *)
  Width,           (* the number of values of a portTickType                *)
  Capacity,        (* uxLength of the queue                                 *)
  Calls,           (* <<co-routine, operation, ticks>>: the calls made      *)
  MaxTicks,        (* model bound on ticks                                  *)
  MaxLag           (* model bound on the ticks between two looks at time    *)

W(x) == x % Width
Operations == {"delay", "send", "receive"}
Sides == {"send", "receive"}
Listing == {"full", "walk", "step", "link", "linked", "listed", "counting"}
Places == {"creating", "idle", "pending", "count", "due", "run", "nop"} \cup Listing

ASSUME CoRoutinesAssumption ==
  /\ IsFiniteSet(CoRoutines) /\ None \notin CoRoutines /\ CoRoutines \cap Places = {}
  /\ MaxPriorities \in Nat \ {0} /\ Asked \in [CoRoutines -> Nat]
  /\ Width \in Nat \ {0, 1} /\ Capacity \in Nat \ {0}
  /\ Calls \subseteq CoRoutines \X Operations \X (0 .. Width - 1)
  /\ MaxTicks \in Nat /\ MaxLag \in 1 .. Width - 1

(* xCoRoutineCreate: "Check the priority is within limits."                 *)
Priority == [c \in CoRoutines |->
               IF Asked[c] >= MaxPriorities THEN MaxPriorities - 1 ELSE Asked[c]]
Levels == 0 .. MaxPriorities - 1

VARIABLES
  ticks,      (* what xTaskGetTickCount returns                             *)
  count,      (* xCoRoutineTickCount                                        *)
  passed,     (* xPassedTicks                                               *)
  ready,      (* pxReadyCoRoutineLists, from the next entry                 *)
  top,        (* uxTopCoRoutineReadyPriority                                *)
  delayed,    (* xDelayedCoRoutineList1 and xDelayedCoRoutineList2          *)
  current,    (* which of them is pxDelayedCoRoutineList                    *)
  wake,       (* the value of each xGenericListItem                         *)
  pending,    (* xPendingReadyCoRoutineList                                 *)
  waiting,    (* xTasksWaitingToSend and xTasksWaitingToReceive             *)
  messages,   (* uxMessagesWaiting                                          *)
  state,      (* uxState: where each co-routine goes on                     *)
  running,    (* pxCurrentCoRoutine                                         *)
  pc,         (* where the thread is; a co-routine while it is made ready   *)
  op,         (* the call the co-routine is in: <<operation, ticks>>        *)
  at,         (* pxIterator in xTasksWaitingToSend: after so many entries   *)
  late,       (* history: a message was taken while a sender that had found *)
              (* the queue full was not listed, and nobody was woken        *)
  torn        (* history: an interrupt used a list in the middle of a change*)

time == <<ticks, count, passed>>
lists == <<ready, top, delayed, current, wake>>
queue == <<pending, waiting, messages>>
insertion == <<at, late, torn>>
vars == <<time, lists, queue, state, running, pc, op, insertion>>

Goto(from, to) == pc = from /\ pc' = to
overflow == 3 - current
Drop(s, c) == Without(s, {c})

(* prvAddCoRoutineToReadyQueue.  vListInsertEnd: the last to have its turn. *)
AddToReady(c) ==
  /\ ready' = [ready EXCEPT ![Priority[c]] = Append(@, c)]
  /\ top' = IF Priority[c] > top THEN Priority[c] ELSE top

-----------------------------------------------------------------------------
(* xCoRoutineCreate, before the scheduler of co-routines first runs.  The   *)
(* first one created is pxCurrentCoRoutine.                                 *)

xCoRoutineCreate(c) ==
  /\ Goto("creating", "creating")
  /\ \A p \in Levels : c \notin ToSet(ready[p])
  /\ AddToReady(c)
  /\ running' = IF running = None THEN c ELSE running
  /\ UNCHANGED <<time, delayed, current, wake, queue, state, op, insertion>>

(* The idle task calls vCoRoutineSchedule.                                  *)
Begins ==
  /\ pc \in {"creating", "idle"} /\ running # None
  /\ pc' = "pending"
  /\ UNCHANGED <<time, lists, queue, state, running, op, insertion>>

-----------------------------------------------------------------------------
(* vCoRoutineSchedule.                                                      *)

(* prvCheckPendingReadyList takes one off the list with interrupts disabled *)
(* and makes it ready with interrupts enabled.                              *)
TakePending ==
  /\ pending # <<>>
  /\ Goto("pending", Head(pending)) /\ pending' = Tail(pending)
  /\ UNCHANGED <<time, lists, waiting, messages, state, running, op, insertion>>
MovePending ==
  /\ pc \in CoRoutines
  /\ delayed' = [n \in {1, 2} |-> Drop(delayed[n], pc)]
  /\ AddToReady(pc)
  /\ pc' = "pending"
  /\ UNCHANGED <<time, current, wake, queue, state, running, op, insertion>>

(* prvCheckDelayedList: xLastTickCount is xCoRoutineTickCount at its end.   *)
ReadTicks ==
  /\ pending = <<>>
  /\ Goto("pending", "count") /\ passed' = W(ticks - count)
  /\ UNCHANGED <<ticks, count, lists, queue, state, running, op, insertion>>

CountTick ==
  /\ passed > 0
  /\ Goto("count", "due")
  /\ count' = count + 1 /\ passed' = passed - 1
  /\ current' = IF W(count') = 0 THEN overflow ELSE current
  /\ UNCHANGED <<ticks, ready, top, delayed, wake, queue, state, running, op, insertion>>

(* Is the time of the first delayed co-routine over?  It leaves the event   *)
(* list, or the pending list an interrupt has just moved it to, as well.    *)
First == Head(delayed[current])
IsDue == delayed[current] # <<>> /\ W(count) >= W(wake[First])

(* Mutant: it is forgotten that it waits for an event too.                  *)
WakeDelayedHalf ==
  /\ IsDue /\ Goto("due", "due")
  /\ delayed' = [delayed EXCEPT ![current] = Tail(@)]
  /\ AddToReady(First)
  /\ UNCHANGED <<time, current, wake, queue, state, running, op, insertion>>

WakeDelayed ==
  /\ IsDue /\ Goto("due", "due")
  /\ delayed' = [delayed EXCEPT ![current] = Tail(@)]
  /\ waiting' = [s \in Sides |-> Drop(waiting[s], First)]
  /\ pending' = Drop(pending, First)
  /\ AddToReady(First)
  /\ UNCHANGED <<time, current, wake, messages, state, running, op, insertion>>
NoneDue ==
  /\ ~IsDue /\ Goto("due", "count")
  /\ UNCHANGED <<time, lists, queue, state, running, op, insertion>>

(* The next co-routine of the highest priority that has one ready.          *)
Highest == CHOOSE p \in 0 .. top : /\ ready[p] # <<>>
                                   /\ \A r \in p + 1 .. top : ready[r] = <<>>
Select ==
  /\ passed = 0 /\ \E p \in 0 .. top : ready[p] # <<>>
  /\ Goto("count", "run")
  /\ top' = Highest
  /\ ready' = [ready EXCEPT ![Highest] = Append(Tail(@), Head(@))]
  /\ running' = Head(ready[Highest])
  /\ op' = IF state[running'] \in Sides THEN <<state[running'], 0>> ELSE <<"none", 0>>
  /\ UNCHANGED <<time, delayed, current, wake, queue, state, insertion>>
NoneReady ==
  /\ passed = 0 /\ \A p \in 0 .. top : ready[p] = <<>>
  /\ Goto("count", "idle")
  /\ top' = 0
  /\ UNCHANGED <<time, ready, delayed, current, wake, queue, state, running, op, insertion>>

-----------------------------------------------------------------------------
(* The co-routine runs: at the place uxState says, which after a call that  *)
(* blocked is the same call with no time to wait.                           *)

(* vCoRoutineAddToDelayedList.                                              *)
Placed(s, v) == CHOOSE n \in 0 .. Len(s) :
  /\ \A m \in 1 .. n : W(wake[s[m]]) <= W(v)
  /\ n < Len(s) => W(wake[s[n + 1]]) > W(v)
(* Mutant: a time beyond the wrap goes with those before it.                *)
LaterNever(v) == FALSE
Later(v) == W(v) < W(count)
AddToDelayedList(n) ==
  LET v == count + n
      l == IF Later(v) THEN overflow ELSE current
  IN
  /\ ready' = [ready EXCEPT ![Priority[running]] = Drop(@, running)]
  /\ wake' = [wake EXCEPT ![running] = v]
  /\ delayed' = [delayed EXCEPT ![l] = InsertAt(@, Placed(@, v) + 1, running)]
  /\ UNCHANGED <<top, current, insertion>>

Returns(place) == pc' = "idle" /\ state' = [state EXCEPT ![running] = place]

(* crDELAY.                                                                 *)
Delay(n) ==
  /\ pc = "run" /\ op[1] = "none"
  /\ IF n > 0 THEN AddToDelayedList(n) ELSE UNCHANGED lists
  /\ Returns("start")
  /\ UNCHANGED <<time, queue, running, op, insertion>>

(* crQUEUE_SEND and crQUEUE_RECEIVE are entered.                            *)
Call(side, n) ==
  /\ pc = "run" /\ op[1] = "none"
  /\ op' = <<side, n>>
  /\ UNCHANGED <<time, lists, queue, state, running, pc, insertion>>

CanDo(side) == IF side = "send" THEN messages < Capacity ELSE messages > 0
Other(side) == IF side = "send" THEN "receive" ELSE "send"

(* xQueueCRReceive: it finds the queue empty and blocks, with interrupts    *)
(* disabled.  A waiter goes behind those of its priority and above.         *)
Behind(s, c) == CHOOSE n \in 0 .. Len(s) :
  /\ \A m \in 1 .. n : Priority[s[m]] >= Priority[c]
  /\ n < Len(s) => Priority[s[n + 1]] < Priority[c]
Block ==
  /\ pc = "run" /\ op[1] = "receive" /\ ~CanDo("receive")
  /\ IF op[2] > 0
     THEN /\ AddToDelayedList(op[2])
          /\ waiting' = [waiting EXCEPT !["receive"] = InsertAt(@, Behind(@, running) + 1, running)]
          /\ Returns("receive") /\ UNCHANGED op
     ELSE op' = <<"none", 0>> /\ UNCHANGED <<lists, waiting, state, pc>>
  /\ UNCHANGED <<time, pending, messages, running, insertion>>

(* xQueueCRSend: prvIsQueueFull says so, and interrupts are enabled.        *)
IsFull ==
  /\ pc = "run" /\ op[1] = "send" /\ ~CanDo("send")
  /\ IF op[2] > 0 THEN pc' = "full" /\ late' = FALSE /\ UNCHANGED op
                  ELSE op' = <<"none", 0>> /\ UNCHANGED <<pc, late>>
  /\ UNCHANGED <<time, lists, queue, state, running, at, torn>>
BlockSender ==
  /\ Goto("full", "walk") /\ AddToDelayedList(op[2]) /\ at' = 0
  /\ UNCHANGED <<time, queue, state, running, op, late, torn>>

(* vListInsert( xTasksWaitingToSend ).  The loop looks at the entry after   *)
(* pxIterator, then reads pxNext again to go there, or back to the end mark.*)
Look ==
  /\ Goto("walk", IF /\ at < Len(waiting["send"])
                     /\ Priority[waiting["send"][at + 1]] >= Priority[running]
                  THEN "step" ELSE "link")
  /\ UNCHANGED <<time, lists, queue, state, running, op, insertion>>
Advance ==
  /\ Goto("step", "walk")
  /\ at' = IF at < Len(waiting["send"]) THEN at + 1 ELSE 0
  /\ UNCHANGED <<time, lists, queue, state, running, op, late, torn>>
(* The four pointers; pvContainer; and ++uxNumberOfItems, which reads and   *)
(* writes.                                                                  *)
Link ==
  /\ Goto("link", "linked") /\ at' = 0
  /\ waiting' = [waiting EXCEPT !["send"] = InsertAt(@, at + 1, running)]
  /\ UNCHANGED <<time, lists, pending, messages, state, running, op, late, torn>>
SetContainer ==
  /\ Goto("linked", "listed")
  /\ UNCHANGED <<time, lists, queue, state, running, op, insertion>>
ReadItems ==
  /\ Goto("listed", "counting")
  /\ UNCHANGED <<time, lists, queue, state, running, op, insertion>>
WriteItems ==
  /\ pc = "counting" /\ Returns("send")
  /\ UNCHANGED <<time, lists, queue, running, op, insertion>>
Proceed ==
  /\ op[1] \in Sides /\ CanDo(op[1])
  /\ Goto("run", "nop")
  /\ UNCHANGED <<time, lists, queue, state, running, op, insertion>>

(* uxNumberOfItems, which does not count a sender that is still being linked.*)
Items(side) ==
  Len(waiting[side]) - IF side = "send" /\ pc \in {"linked", "listed", "counting"}
                       THEN 1 ELSE 0

(* Mutant: what was moved wakes nobody.                                     *)
WakesNobody(side) == UNCHANGED <<pending, waiting>>

(* xCoRoutineRemoveFromEventList: the first waiter, if there is one, is     *)
(* left to prvCheckPendingReadyList.                                        *)
Wakes(side) ==
  IF Items(side) = 0 THEN UNCHANGED <<pending, waiting>>
  ELSE /\ pending' = Append(pending, Head(waiting[side]))
       /\ waiting' = [waiting EXCEPT ![side] = Tail(@)]
Yields(side) == /\ waiting[side] # <<>>
                /\ Priority[Head(waiting[side])] >= Priority[running]

Moves(side) == messages' = IF side = "send" THEN messages + 1 ELSE messages - 1

(* The second critical section; an interrupt may have come in between.      *)
Transfer ==
  LET side == op[1] IN
  /\ pc = "nop" /\ CanDo(side)
  /\ Moves(side) /\ Wakes(Other(side))
  /\ IF Yields(Other(side)) THEN Returns("start") ELSE pc' = "run" /\ UNCHANGED state
  /\ op' = <<"none", 0>>
  /\ UNCHANGED <<time, lists, running, insertion>>
Missed ==
  /\ ~CanDo(op[1])
  /\ Goto("nop", "run") /\ op' = <<"none", 0>>
  /\ UNCHANGED <<time, lists, queue, state, running, insertion>>

-----------------------------------------------------------------------------
(* Interrupts: ticks, and xQueueCRSendFromISR and xQueueCRReceiveFromISR,   *)
(* called once each by an interrupt.                                        *)

Tick ==
  /\ ticks < MaxTicks
  /\ ticks - count < MaxLag
  /\ ticks' = ticks + 1
  /\ UNCHANGED <<count, passed, lists, queue, state, running, pc, op, insertion>>

SendFromISR ==
  /\ CanDo("send")
  /\ Moves("send") /\ Wakes("receive")
  /\ UNCHANGED <<time, lists, state, running, pc, op, insertion>>

(* An interrupt that removes the first waiting sender leaves vListInsert    *)
(* with the removed entry as pxIterator or as the entry to link before,     *)
(* finds no pvContainer in the new one, or has its -- overwritten.          *)
Tears ==
  /\ Items("send") > 0
  /\ \/ pc \in {"walk", "step"} /\ at = 1
     \/ pc = "link" /\ at <= 1
     \/ pc = "linked" /\ Head(waiting["send"]) = running
     \/ pc = "counting"
ReceiveFromISR ==
  /\ CanDo("receive") /\ Moves("receive")
  /\ IF Tears THEN torn' = TRUE /\ UNCHANGED <<pending, waiting, at, late>>
     ELSE /\ Wakes("send") /\ UNCHANGED torn
          /\ at' = IF at > 0 THEN at - 1 ELSE 0
          /\ late' = (late \/ (pc \in Listing /\ Items("send") = 0))
  /\ UNCHANGED <<time, lists, state, running, pc, op>>

(* What becomes of a torn list is not followed.                             *)
Torn == torn /\ UNCHANGED vars

-----------------------------------------------------------------------------

(* prvInitialiseCoRoutineLists.                                             *)
Init ==
  /\ ticks = 0 /\ count = 0 /\ passed = 0
  /\ ready = [p \in Levels |-> <<>>] /\ top = 0
  /\ delayed = [n \in {1, 2} |-> <<>>] /\ current = 1
  /\ wake = [c \in CoRoutines |-> 0]
  /\ pending = <<>> /\ waiting = [s \in Sides |-> <<>>] /\ messages = 0
  /\ state = [c \in CoRoutines |-> "start"]
  /\ running = None /\ pc = "creating" /\ op = <<"none", 0>>
  /\ at = 0 /\ late = FALSE /\ torn = FALSE

vCoRoutineSchedule ==
  \/ Begins \/ TakePending \/ MovePending
  \/ ReadTicks \/ CountTick \/ WakeDelayed \/ NoneDue
  \/ Select \/ NoneReady

CoRoutine ==
  \/ \E c \in Calls : /\ c[1] = running
                      /\ IF c[2] = "delay" THEN Delay(c[3]) ELSE Call(c[2], c[3])
  \/ Block \/ IsFull \/ BlockSender \/ Look \/ Advance
  \/ Link \/ SetContainer \/ ReadItems \/ WriteItems
  \/ Proceed \/ Transfer \/ Missed

Follows ==
  \/ \E c \in CoRoutines : xCoRoutineCreate(c)
  \/ vCoRoutineSchedule
  \/ CoRoutine
  \/ Tick \/ SendFromISR \/ ReceiveFromISR
Next == (~torn /\ Follows) \/ Torn

Spec == Init /\ [][Next]_vars

-----------------------------------------------------------------------------
(* Properties.                                                              *)

InReady(c) == c \in ToSet(ready[Priority[c]])
InDelayed(c) == \E n \in {1, 2} : c \in ToSet(delayed[n])
InEvent(c) == \E s \in Sides : c \in ToSet(waiting[s])
InPending(c) == c \in ToSet(pending) \/ pc = c
Created == {c \in CoRoutines : InReady(c) \/ InDelayed(c)}

(* A co-routine is on one list by its generic item: ready, or delayed; and  *)
(* by its event item on one at most, and then only while it is delayed.     *)
(* prvCheckDelayedList relies on it to find the item on the pending list    *)
(* when an interrupt has just moved it there.  All of it holds wherever an  *)
(* interrupt comes, also while a sender is being listed with interrupts     *)
(* enabled, until one comes upon the list half changed.                     *)
OneHome ==
  ~torn =>
  /\ \A p \in Levels : IsInjective(ready[p]) /\ \A c \in ToSet(ready[p]) : Priority[c] = p
  /\ IsInjective(delayed[1] \o delayed[2]) /\ IsInjective(pending)
  /\ IsInjective(waiting["send"] \o waiting["receive"])
  /\ \A c \in CoRoutines :
       /\ pc # "creating" /\ c \in Created => InReady(c) # InDelayed(c)
       /\ InEvent(c) \/ InPending(c) => InDelayed(c)
       /\ ~(InEvent(c) /\ InPending(c))
  /\ messages \in 0 .. Capacity

(* A delay ends at its time by the scheduler's count, neither before nor    *)
(* after, wrap or no wrap, unless an interrupt ends the wait.               *)
OnTime ==
  [][\A c \in CoRoutines :
       InDelayed(c) /\ ~InPending(c) /\ ~InDelayed(c)' => count = wake[c]]_vars

(* No wakeup is lost: while a co-routine waits for a message there are no   *)
(* more of them than co-routines on their way to receive one, and so for    *)
(* senders and room, unless the room was made while the last sender to find *)
(* the queue full was on its way into the list, which was empty.            *)
OnTheirWay(side) ==
  {c \in CoRoutines :
     IF c = running /\ pc \in Listing THEN side = "send" /\ c \in ToSet(pending)
     ELSE /\ state[c] = side /\ c \notin ToSet(waiting[side])
          /\ c = running /\ pc \in {"run", "nop"} => op[1] = side}
Supply(side) == IF side = "send" THEN Capacity - messages ELSE messages
NoLostWakeup ==
  \A side \in Sides :
    waiting[side] # <<>> /\ ~torn /\ ~(late /\ side = "send") =>
      Supply(side) <= Cardinality(OnTheirWay(side))

(* "A critical section is required to prevent an interrupt removing         *)
(* something from the queue between the check to see if the queue is full   *)
(* and blocking on the queue": not while a sender is on its way.            *)
NothingRemoved == [][(pc \in Listing) => messages' >= messages]_vars
=============================================================================

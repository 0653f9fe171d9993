----------------------------- MODULE FromaQueue -----------------------------
(***************************************************************************)
(* Queues, semaphores and mutexes: source/queue.c, and the event lists,    *)
(* priority inheritance and xTaskResumeAll of source/tasks.c as queues use *)
(* them.                                                                   *)
(*                                                                         *)
(* One core runs the tasks and takes the interrupts that use the queues.   *)
(* That is how the code can be used at all: queue.c masks interrupts of    *)
(* its own core only, and takes no lock the other core would see.  The     *)
(* other core's uxTopReadyPriority never rises to the tasks' level, for it *)
(* readies none of them.  So a critical section is one step, an interrupt  *)
(* comes between any two steps, and a yield is taken as soon as interrupts *)
(* are enabled, before the next step of a task.                            *)
(*                                                                         *)
(* Time is abstract: a wait that is neither 0 nor portMAX_DELAY may be     *)
(* over at any time.  Delayed tasks are woken in xTaskResumeAll only, by   *)
(* the ticks it unwinds: FromaTick shows why the tick interrupt itself     *)
(* wakes nobody here.                                                      *)
(***************************************************************************)
EXTENDS Integers, FiniteSets, SequencesExt, FromaWithout

CONSTANTS
  Tasks, NoTask,
  MaxPriorities,   (* configMAX_PRIORITIES                                  *)
  Priority,        (* the priority each task is created with                *)
  Queues,
  Kind,            (* of each queue: "queue", "semaphore" or "mutex"        *)
  Capacity,        (* uxLength                                              *)
  Items,           (* what is sent                                          *)
  Calls,           (* <<task, operation, queue, wait>>: the calls made      *)
  IsrSends, IsrReceives,   (* the queues that interrupts use                *)
  AltTasks,        (* the tasks that use the alternative API                *)
  PrioritySets,    (* <<caller, task, priority>>: the vTaskPrioritySet calls*)
  Suspends,        (* <<caller, task>>: who suspends and resumes whom       *)
  IsrResumes,      (* the tasks that interrupts resume                      *)
  Deletes,         (* <<caller, task>>: who deletes whom                    *)
  MaxLock,         (* model bound on xRxLock and xTxLock                    *)
  MaxNesting       (* model bound on uxRecursiveCallCount                   *)

Levels == 0 .. MaxPriorities - 1
IdlePriority == 0
Operations == {"send", "front", "receive", "peek", "take", "give"}
Waits == {"none", "some", "forever"}   (* 0, a time, portMAX_DELAY          *)
Fifos == {q \in Queues : Kind[q] = "queue"}
Mutexes == {q \in Queues : Kind[q] = "mutex"}

(* semphr.h: the recursive calls are for mutexes, and a task that uses them *)
(* for a mutex obtains and returns it by no other.                          *)
Recursive(c) == c[2] \in {"take", "give"}

ASSUME QueueAssumption ==
  /\ IsFiniteSet(Tasks) /\ NoTask \notin Tasks
  /\ MaxPriorities \in Nat \ {0}
  /\ Priority \in [Tasks -> Levels]
  /\ Kind \in [Queues -> {"queue", "semaphore", "mutex"}]
  /\ Capacity \in [Queues -> Nat \ {0}]
  /\ \A q \in Mutexes : Capacity[q] = 1
  /\ Queues # {} /\ Items # {}
  /\ Calls \subseteq Tasks \X Operations \X Queues \X Waits
  /\ IsrSends \cup IsrReceives \subseteq Queues \ Mutexes
  /\ PrioritySets \subseteq Tasks \X Tasks \X Levels
  /\ Suspends \cup Deletes \subseteq Tasks \X Tasks
  /\ AltTasks \cup IsrResumes \subseteq Tasks
  /\ \A c \in Calls : c[1] \in AltTasks => c[2] \notin {"take", "give"}
  /\ \A c \in Calls : Recursive(c) => c[3] \in Mutexes /\ MaxNesting > 0
  /\ \A c, d \in Calls : Recursive(c) /\ c[1] = d[1] /\ c[3] = d[3] =>
                         d[2] \in {"take", "give", "peek"}
  /\ MaxLock \in Nat /\ MaxNesting \in Nat

VARIABLES
  queue,        (* the xQUEUE of each queue, but for the event lists        *)
  blocked,      (* xTasksWaitingToSend and xTasksWaitingToReceive           *)
  home,         (* where xGenericListItem is: a ready list, or below        *)
  priority,     (* uxPriority                                               *)
  base,         (* uxBasePriority                                           *)
  value,        (* the value of xEventListItem                              *)
  pendingReady, (* xPendingReadyList                                        *)
  suspendAll,   (* uxSchedulerSuspended                                     *)
  missedYield,  (* xMissedYield                                             *)
  yield,        (* the yield interrupt is pending                           *)
  running,      (* pxCurrentTCB, NoTask for the idle task                   *)
  idle,         (* where the idle task is                                   *)
  pc, loc,      (* where each task is in its call, and the call's locals    *)
  got           (* what the latest receive or peek copied to its buffer     *)

prios == <<priority, base, value>>
sched == <<suspendAll, missedYield>>
core == <<running, idle>>
vars == <<queue, blocked, home, priority, base, value, pendingReady,
          suspendAll, missedYield, yield, running, idle, pc, loc, got>>

Delayed == -1       (* on a delayed task list                               *)
Suspended == -2     (* on xSuspendedTaskList                                *)
Terminated == -3    (* on xTasksWaitingTermination                          *)
Freed == -4         (* the TCB and the stack are free                       *)
Unlocked == -1      (* queueUNLOCKED                                        *)

-----------------------------------------------------------------------------
(* A task's call.                                                           *)

At(t, l) == running = t /\ ~yield /\ pc[t] = l
Goto(t, l) == pc' = [pc EXCEPT ![t] = l]

(* loc.timed is xEntryTimeSet; loc.late says that the time has run out;     *)
(* loc.then is what follows xTaskResumeAll.                                 *)
NoLocals == [op |-> "none", queue |-> CHOOSE q \in Queues : TRUE,
             item |-> CHOOSE x \in Items : TRUE, wait |-> "none",
             timed |-> FALSE, late |-> FALSE, then |-> "none"]
Return(t) == Goto(t, "run") /\ loc' = [loc EXCEPT ![t] = NoLocals]

Begin(t, op, q, x, w) ==
  /\ loc' = [loc EXCEPT ![t] = [NoLocals EXCEPT
                !.op = op, !.queue = q, !.item = x, !.wait = w]]
  /\ Goto(t, "try")

Sends(op) == op \in {"send", "front", "give"}
Side(op) == IF Sends(op) THEN "send" ELSE "receive"

(* xQueueGenericSend or xQueueGenericReceive is entered, or by AltTasks     *)
(* xQueueAltGenericSend or xQueueAltGenericReceive.  A mutex is given by    *)
(* its holder only, and taken by others.                                    *)
Call(t, op, q, w) ==
  /\ At(t, "run")
  /\ op \in {"send", "front", "receive", "peek"}
  /\ Kind[q] = "mutex" => (Sends(op) <=> queue[q].holder = t)
  /\ \E x \in Items :
       /\ ~Sends(op) => x = NoLocals.item
       /\ Begin(t, op, q, x, w)
  /\ UNCHANGED <<queue, blocked, home, prios, pendingReady, sched, yield, core,
                 got>>

(* xQueueTakeMutexRecursive: the holder only counts.                        *)
TakeRecursive(t, q, w) ==
  /\ At(t, "run")
  /\ IF queue[q].holder = t
     THEN /\ queue[q].calls < MaxNesting
          /\ queue' = [queue EXCEPT ![q].calls = @ + 1]
          /\ UNCHANGED <<pc, loc>>
     ELSE /\ Begin(t, "take", q, NoLocals.item, w)
          /\ UNCHANGED queue
  /\ UNCHANGED <<blocked, home, prios, pendingReady, sched, yield, core, got>>

(* The mutex was obtained: ( pxMutex->uxRecursiveCallCount )++.             *)
TakeCounted(t) ==
  /\ At(t, "count")
  /\ queue' = [queue EXCEPT ![loc[t].queue].calls = @ + 1]
  /\ Return(t)
  /\ UNCHANGED <<blocked, home, prios, pendingReady, sched, yield, core, got>>

(* xQueueGiveMutexRecursive: the outermost give sends to the queue.  A task *)
(* that is not the holder is refused, which changes nothing.                *)
GiveRecursive(t, q) ==
  /\ At(t, "run")
  /\ queue[q].holder = t
  /\ queue' = [queue EXCEPT ![q].calls = @ - 1]
  /\ IF queue[q].calls = 1
     THEN Begin(t, "give", q, NoLocals.item, "none")
     ELSE UNCHANGED <<pc, loc>>
  /\ UNCHANGED <<blocked, home, prios, pendingReady, sched, yield, core, got>>

-----------------------------------------------------------------------------
(* Waking the first task of an event list: xTaskRemoveFromEventList, with   *)
(* the places hm and priorities pr of the tasks as they are by then.        *)

PriorityIn(pr) == IF running = NoTask THEN IdlePriority ELSE pr[running]

(* It returns pdTRUE.                                                       *)
Outranks(q, side, pr) ==
  /\ blocked[q][side] # <<>>
  /\ pr[Head(blocked[q][side])] >= PriorityIn(pr)

WakeFirst(q, side, hm, pr) ==
  LET s == blocked[q][side] IN
  IF s = <<>>
  THEN home' = hm /\ UNCHANGED <<blocked, pendingReady>>
  ELSE /\ blocked' = [blocked EXCEPT ![q][side] = Tail(@)]
       /\ IF suspendAll = 0
          THEN /\ home' = [hm EXCEPT ![Head(s)] = pr[Head(s)]]
               /\ UNCHANGED pendingReady
          ELSE /\ pendingReady' = Append(pendingReady, Head(s))
               /\ home' = hm

-----------------------------------------------------------------------------
(* prvCopyDataToQueue and prvCopyDataFromQueue.                             *)

(* Mutant: an item for the front is put where the next one is read.         *)
CopiedInShort(Q, q, x, op) ==
  LET n == Capacity[q] IN
  [Q EXCEPT
    !.count = @ + 1,
    !.holder = NoTask,
    !.store = IF Kind[q] # "queue" THEN @
              ELSE IF op = "front" THEN [@ EXCEPT ![(Q.readFrom + 1) % n] = x]
              ELSE [@ EXCEPT ![Q.writeTo] = x],
    !.readFrom = IF Kind[q] = "queue" /\ op = "front" THEN (@ + n - 1) % n ELSE @,
    !.writeTo = IF Kind[q] = "queue" /\ op # "front" THEN (@ + 1) % n ELSE @]

(* To the back where pcWriteTo points; to the front where the latest item   *)
(* read was; of a mutex nothing is copied, and it has no holder any more.   *)
CopiedIn(Q, q, x, op) ==
  LET n == Capacity[q] IN
  [Q EXCEPT
    !.count = @ + 1,
    !.holder = NoTask,
    !.store = IF Kind[q] # "queue" THEN @
              ELSE IF op = "front" THEN [@ EXCEPT ![Q.readFrom] = x]
              ELSE [@ EXCEPT ![Q.writeTo] = x],
    !.readFrom = IF Kind[q] = "queue" /\ op = "front" THEN (@ + n - 1) % n ELSE @,
    !.writeTo = IF Kind[q] = "queue" /\ op # "front" THEN (@ + 1) % n ELSE @]

(* pcReadFrom moves on to the item, and stays only if the item goes.        *)
NextOut(q) == (queue[q].readFrom + 1) % Capacity[q]
CopyOut(q) ==
  got' = IF Kind[q] = "queue" THEN queue[q].store[NextOut(q)] ELSE got
Removed(Q, q) ==
  [Q EXCEPT !.count = @ - 1,
            !.readFrom = IF Kind[q] = "queue" THEN NextOut(q) ELSE @]

-----------------------------------------------------------------------------
(* The first critical section of xQueueGenericSend, xQueueGenericReceive    *)
(* and their alternatives.                                                  *)

HasRoom(q) == queue[q].count < Capacity[q]
HasItem(q) == queue[q].count > 0
Ready(op, q) == IF Sends(op) THEN HasRoom(q) ELSE HasItem(q)

(* Mutant: the priority is not given back with the mutex.                   *)
DisinheritNot(t) == UNCHANGED prios

(* vTaskPriorityDisinherit of the task that gives the mutex back.           *)
vTaskPriorityDisinherit(t) ==
  IF t # NoTask /\ priority[t] # base[t]
  THEN /\ priority' = [priority EXCEPT ![t] = base[t]]
       /\ value' = [value EXCEPT ![t] = MaxPriorities - base[t]]
       /\ UNCHANGED base
  ELSE UNCHANGED prios

TrySend(t) ==
  LET q == loc[t].queue
      h == queue[q].holder
      hm == IF h # NoTask /\ priority'[h] # priority[h]
            THEN [home EXCEPT ![h] = priority'[h]] ELSE home
  IN
  /\ At(t, "try") /\ Sends(loc[t].op) /\ HasRoom(q)
  /\ vTaskPriorityDisinherit(h)
  /\ queue' = [queue EXCEPT ![q] = CopiedIn(@, q, loc[t].item, loc[t].op)]
  /\ WakeFirst(q, "receive", hm, priority')
  /\ yield' = Outranks(q, "receive", priority')
  /\ Return(t)
  /\ UNCHANGED <<sched, core, got>>

TryReceive(t) ==
  LET q == loc[t].queue IN
  /\ At(t, "try") /\ loc[t].op \in {"receive", "take"} /\ HasItem(q)
  /\ CopyOut(q)
  /\ queue' = [queue EXCEPT ![q] =
                 [Removed(queue[q], q) EXCEPT
                    !.holder = IF Kind[q] = "mutex" THEN t ELSE queue[q].holder]]
  /\ WakeFirst(q, "send", home, priority)
  /\ yield' = Outranks(q, "send", priority)
  /\ IF loc[t].op = "take" THEN Goto(t, "count") /\ UNCHANGED loc ELSE Return(t)
  /\ UNCHANGED <<prios, sched, core>>

(* A peek leaves the item, so it wakes the next that waits for one.         *)
TryPeek(t) ==
  LET q == loc[t].queue IN
  /\ At(t, "try") /\ loc[t].op = "peek" /\ HasItem(q)
  /\ CopyOut(q)
  /\ WakeFirst(q, "receive", home, priority)
  /\ yield' = Outranks(q, "receive", priority)
  /\ Return(t)
  /\ UNCHANGED <<queue, prios, sched, core>>

(* Full, or empty: give up at once, or note the time of entry and wait.     *)
TryLater(t) ==
  /\ At(t, "try") /\ ~Ready(loc[t].op, loc[t].queue)
  /\ IF loc[t].wait = "none"
     THEN Return(t)
     ELSE /\ loc' = [loc EXCEPT ![t].timed = TRUE]
          /\ Goto(t, IF t \in AltTasks THEN "wait" ELSE "suspend")
  /\ UNCHANGED <<queue, blocked, home, prios, pendingReady, sched, yield, core,
                 got>>

-----------------------------------------------------------------------------
(* Waiting: the scheduler is suspended and the queue locked, so that only   *)
(* interrupts interfere, and those not with the event lists.                *)

vTaskSuspendAll(t) ==
  /\ At(t, "suspend")
  /\ suspendAll' = suspendAll + 1
  /\ Goto(t, "lock")
  /\ UNCHANGED <<queue, blocked, home, prios, pendingReady, missedYield, yield,
                 core, loc, got>>

Locked(n) == IF n = Unlocked THEN 0 ELSE n

prvLockQueue(t) ==
  /\ At(t, "lock")
  /\ queue' = [queue EXCEPT ![loc[t].queue].rxLock = Locked(@),
                            ![loc[t].queue].txLock = Locked(@)]
  /\ Goto(t, "check")
  /\ UNCHANGED <<blocked, home, prios, pendingReady, sched, yield, core, loc,
                 got>>

(* The call will go on with what after xTaskResumeAll.                      *)
Leave(t, then, late) ==
  /\ loc' = [loc EXCEPT ![t].then = then, ![t].late = late]
  /\ Goto(t, "unlockTx")

(* xTaskCheckForTimeOut: TRUE if the time has run out, never for            *)
(* portMAX_DELAY.                                                           *)
xTaskCheckForTimeOut(t) ==
  /\ At(t, "check")
  /\ \/ /\ loc[t].wait = "some"
        /\ Leave(t, "fail", TRUE)
     \/ /\ ~loc[t].late
        /\ Goto(t, "test")
        /\ UNCHANGED loc
  /\ UNCHANGED <<queue, blocked, home, prios, pendingReady, sched, yield, core,
                 got>>

WaitsForMutex(t) == Kind[loc[t].queue] = "mutex" /\ ~Sends(loc[t].op)

(* prvIsQueueFull, prvIsQueueEmpty: by now there may be room, or an item.   *)
TestQueue(t) ==
  LET q == loc[t].queue IN
  /\ At(t, "test")
  /\ IF Ready(loc[t].op, q)
     THEN Leave(t, "retry", FALSE)
     ELSE /\ Goto(t, IF WaitsForMutex(t) THEN "inherit" ELSE "place")
          /\ UNCHANGED loc
  /\ UNCHANGED <<queue, blocked, home, prios, pendingReady, sched, yield, core,
                 got>>

(* Mutant: the base priority is compared.                                   *)
InheritsBase(h, t) == base[h] < priority[t]
Inherits(h, t) == priority[h] < priority[t]

(* vTaskPriorityInherit; without a holder its assertion stops the core.     *)
InheritBy(h, t) ==
  /\ h \in Tasks
  /\ priority' = IF Inherits(h, t) THEN [priority EXCEPT ![h] = priority[t]]
                                   ELSE priority
  /\ value' = IF Inherits(h, t) THEN [value EXCEPT ![h] = MaxPriorities - priority[t]]
                                ELSE value
  /\ UNCHANGED base
HomeInherited(h, t) ==
  IF Inherits(h, t) /\ home[h] = priority[h] THEN [home EXCEPT ![h] = priority[t]]
                                             ELSE home

vTaskPriorityInherit(t) ==
  LET h == queue[loc[t].queue].holder IN
  /\ At(t, "inherit")
  /\ InheritBy(h, t)
  /\ home' = HomeInherited(h, t)
  /\ Goto(t, "place")
  /\ UNCHANGED <<queue, blocked, pendingReady, sched, yield, core, loc, got>>

(* vListInsert: behind the tasks whose values are not greater.              *)
InsertPlace(s, v) ==
  CHOOSE n \in 0 .. Len(s) : /\ \A m \in 1 .. n : value[s[m]] <= v
                             /\ n < Len(s) => value[s[n + 1]] > v

(* vTaskPlaceOnEventList.                                                   *)
Placed(t) ==
  blocked' = [blocked EXCEPT ![loc[t].queue][Side(loc[t].op)] =
                InsertAt(@, InsertPlace(@, value[t]) + 1, t)]
Away(t) == IF loc[t].wait = "forever" THEN Suspended ELSE Delayed

vTaskPlaceOnEventList(t) ==
  /\ At(t, "place")
  /\ Placed(t)
  /\ home' = [home EXCEPT ![t] = Away(t)]
  /\ Leave(t, "block", FALSE)
  /\ UNCHANGED <<queue, prios, pendingReady, sched, yield, core, got>>

(* The alternative API waits in a second critical section, with neither the *)
(* scheduler suspended nor the queue locked: it gives up, or sees that it   *)
(* can go on after all, or places itself on the event list and yields.      *)
AltExpired(t) ==
  /\ At(t, "wait")
  /\ loc[t].wait = "some"
  /\ Return(t)
  /\ UNCHANGED <<queue, blocked, home, prios, pendingReady, sched, yield, core,
                 got>>

AltBlock(t) ==
  LET q == loc[t].queue
      h == queue[q].holder
  IN
  /\ At(t, "wait") /\ ~loc[t].late
  /\ IF Ready(loc[t].op, q)
     THEN UNCHANGED <<blocked, home, prios, yield>>
     ELSE /\ IF WaitsForMutex(t) THEN InheritBy(h, t) ELSE UNCHANGED prios
          /\ home' = [IF WaitsForMutex(t) THEN HomeInherited(h, t) ELSE home
                         EXCEPT ![t] = Away(t)]
          /\ Placed(t)
          /\ yield' = TRUE
  /\ Goto(t, "try")
  /\ UNCHANGED <<queue, pendingReady, sched, core, loc, got>>

(* One half of prvUnlockQueue: of the tasks on the event list as many are   *)
(* woken as items came or went meanwhile.                                   *)
Replay(t, count, side) ==
  LET q == loc[t].queue
      s == blocked[q][side]
      n == IF count < 0 THEN 0 ELSE IF count < Len(s) THEN count ELSE Len(s)
      woken == SubSeq(s, 1, n)
  IN
  /\ blocked' = [blocked EXCEPT ![q][side] = SubSeq(s, n + 1, Len(s))]
  /\ pendingReady' = pendingReady \o woken
  /\ missedYield' = (missedYield \/ \E x \in ToSet(woken) :
                       priority[x] >= PriorityIn(priority))
  /\ UNCHANGED <<home, prios, suspendAll, yield, core, loc, got>>

(* Mutant: one task is woken however many items came.                       *)
UnlockTxOnce(t) ==
  LET q == loc[t].queue IN
  /\ At(t, "unlockTx")
  /\ Replay(t, IF queue[q].txLock > 1 THEN 1 ELSE queue[q].txLock, "receive")
  /\ queue' = [queue EXCEPT ![q].txLock = Unlocked]
  /\ Goto(t, "unlockRx")

UnlockTx(t) ==
  LET q == loc[t].queue IN
  /\ At(t, "unlockTx")
  /\ Replay(t, queue[q].txLock, "receive")
  /\ queue' = [queue EXCEPT ![q].txLock = Unlocked]
  /\ Goto(t, "unlockRx")

(* Mutant: the receive half leaves the queue locked.                        *)
UnlockRxForgotten(t) ==
  LET q == loc[t].queue IN
  /\ At(t, "unlockRx")
  /\ Replay(t, queue[q].rxLock, "send")
  /\ Goto(t, "resume")
  /\ UNCHANGED queue

UnlockRx(t) ==
  LET q == loc[t].queue IN
  /\ At(t, "unlockRx")
  /\ Replay(t, queue[q].rxLock, "send")
  /\ queue' = [queue EXCEPT ![q].rxLock = Unlocked]
  /\ Goto(t, "resume")

(* Mutant: a task whose time is over stays on the event list.               *)
ReleasedNot(late) == blocked

(* prvCheckDelayedTasks takes the tasks whose time is over off the event    *)
(* lists too.                                                               *)
Released(late) ==
  [q \in Queues |-> [side \in {"send", "receive"} |->
     Without(blocked[q][side], late)]]

(* Mutant: the ticks unwound call for no yield.                             *)
YieldMissed(level, held, ticked) ==
  missedYield \/ \E x \in held : priority[x] >= level

(* xYieldRequired, or xMissedYield.                                         *)
YieldDue(level, held, ticked) ==
  ticked \/ missedYield \/ \E x \in held : priority[x] >= level

(* xTaskResumeAll, for a caller of the priority "level": the tasks held     *)
(* pending are readied; the ticks missed are unwound, which wakes any of    *)
(* the delayed tasks from its wait; and a yield if one is due, or anyway.   *)
ResumeAll(level, late, ticked, anyway) ==
  LET held == ToSet(pendingReady)
      hm == [x \in Tasks |-> IF x \in held THEN priority[x] ELSE home[x]]
  IN
  /\ late \subseteq {x \in Tasks : hm[x] = Delayed}
  /\ late # {} => ticked
  /\ suspendAll' = suspendAll - 1
  /\ pendingReady' = <<>>
  /\ home' = [x \in Tasks |-> IF x \in late THEN priority[x] ELSE hm[x]]
  /\ blocked' = Released(late)
  /\ yield' = (anyway \/ YieldDue(level, held, ticked))
  /\ missedYield' = FALSE

Lately(late) == [x \in Tasks |-> [loc[x] EXCEPT !.late = @ \/ x \in late]]

(* The call is over, or the task tries again: at once, or having placed     *)
(* itself on an event list, when it yields whether or not one is due.       *)
xTaskResumeAll(t) ==
  /\ At(t, "resume")
  /\ \E late \in SUBSET {x \in Tasks : home[x] = Delayed}, ticked \in BOOLEAN :
       /\ ResumeAll(priority[t], late, ticked, loc[t].then = "block")
       /\ IF loc[t].then = "fail"
          THEN Goto(t, "run") /\ loc' = [Lately(late) EXCEPT ![t] = NoLocals]
          ELSE Goto(t, "try") /\ loc' = Lately(late)
  /\ UNCHANGED <<queue, prios, core, got>>

-----------------------------------------------------------------------------
(* Interrupts.                                                              *)

(* Of a locked queue what came or went is counted: ++( pxQueue->xTxLock ).  *)
Counted(k) == IF k = Unlocked THEN k ELSE k + 1

xQueueGenericSendFromISR(q, x, op) ==
  /\ HasRoom(q)
  /\ queue[q].txLock < MaxLock
  /\ queue' = [queue EXCEPT ![q] = [CopiedIn(queue[q], q, x, op) EXCEPT
                                      !.txLock = Counted(queue[q].txLock)]]
  /\ IF queue[q].txLock = Unlocked
     THEN /\ WakeFirst(q, "receive", home, priority)
          /\ yield' = (yield \/ Outranks(q, "receive", priority))
     ELSE UNCHANGED <<blocked, home, pendingReady, yield>>
  /\ UNCHANGED <<prios, sched, core, pc, loc, got>>

xQueueReceiveFromISR(q) ==
  /\ HasItem(q)
  /\ queue[q].rxLock < MaxLock
  /\ queue' = [queue EXCEPT ![q] = [Removed(queue[q], q) EXCEPT
                                      !.rxLock = Counted(queue[q].rxLock)]]
  /\ CopyOut(q)
  /\ IF queue[q].rxLock = Unlocked
     THEN /\ WakeFirst(q, "send", home, priority)
          /\ yield' = (yield \/ Outranks(q, "send", priority))
     ELSE UNCHANGED <<blocked, home, pendingReady, yield>>
  /\ UNCHANGED <<prios, sched, core, pc, loc>>

-----------------------------------------------------------------------------
(* The scheduler.                                                           *)

(* The most important of the ready tasks, whichever the lists turn up.      *)
Highest(hm) == {t \in Tasks : hm[t] >= 0 /\ \A x \in Tasks : hm[x] <= hm[t]}

(* The yield interrupt, vTaskSwitchContext.                                 *)
vTaskSwitchContext ==
  /\ yield
  /\ yield' = FALSE
  /\ IF suspendAll # 0
     THEN missedYield' = TRUE /\ UNCHANGED running
     ELSE /\ IF Highest(home) = {} THEN running' = NoTask
                                   ELSE running' \in Highest(home)
          /\ UNCHANGED missedYield
  /\ UNCHANGED <<queue, blocked, home, prios, pendingReady, suspendAll, idle,
                 pc, loc, got>>

Gone(x) == home[x] \in {Terminated, Freed}

(* vTaskPrioritySet.  A priority that is inherited stays until the mutex is *)
(* given back; the event list a blocked task is on is not sorted anew.      *)
vTaskPrioritySet(t, x, p) ==
  /\ At(t, "run")
  /\ base[x] # p /\ ~Gone(x)
  /\ base' = [base EXCEPT ![x] = p]
  /\ priority' = [priority EXCEPT ![x] = IF @ = base[x] THEN p ELSE @]
  /\ value' = [value EXCEPT ![x] = MaxPriorities - p]
  /\ home' = [home EXCEPT ![x] = IF @ = base[x] THEN priority'[x] ELSE @]
  /\ yield' = IF p > base[x] THEN x # t ELSE x = t
  /\ UNCHANGED <<queue, blocked, pendingReady, sched, core, pc, loc, got>>

(* vTaskSuspend: whatever x was waiting for, it waits no more.              *)
vTaskSuspend(t, x) ==
  /\ At(t, "run") /\ ~Gone(x)
  /\ home' = [home EXCEPT ![x] = Suspended]
  /\ blocked' = Released({x})
  /\ yield' = (x = t)
  /\ UNCHANGED <<queue, prios, pendingReady, sched, core, pc, loc, got>>

(* xTaskIsTaskSuspended: a task waiting for portMAX_DELAY is on the same    *)
(* list, but on an event list too, or held on xPendingReadyList.            *)
IsSuspended(x) ==
  /\ home[x] = Suspended
  /\ x \notin ToSet(pendingReady)
  /\ \A q \in Queues, side \in {"send", "receive"} : x \notin ToSet(blocked[q][side])

vTaskResume(t, x) ==
  /\ At(t, "run") /\ x # t
  /\ IsSuspended(x)
  /\ home' = [home EXCEPT ![x] = priority[x]]
  /\ yield' = (priority[x] >= priority[t])
  /\ UNCHANGED <<queue, blocked, prios, pendingReady, sched, core, pc, loc, got>>

(* The interrupt yields if it is told to.                                   *)
xTaskResumeFromISR(x) ==
  /\ IsSuspended(x)
  /\ IF suspendAll = 0
     THEN /\ home' = [home EXCEPT ![x] = priority[x]]
          /\ yield' = (yield \/ priority[x] >= PriorityIn(priority))
          /\ UNCHANGED pendingReady
     ELSE /\ pendingReady' = Append(pendingReady, x)
          /\ UNCHANGED <<home, yield>>
  /\ UNCHANGED <<queue, blocked, prios, sched, core, pc, loc, got>>

(* Nobody deletes a task that holds a mutex, or one that was woken for      *)
(* something it has yet to take: vTaskDelete would pass on neither.         *)
Deletable(x) ==
  /\ ~Gone(x)
  /\ \A q \in Mutexes : queue[q].holder # x
  /\ loc[x].timed /\ pc[x] = "try" =>
       \E q \in Queues, side \in {"send", "receive"} : x \in ToSet(blocked[q][side])

(* vTaskDelete: x is taken off the event list that it waits on too.         *)
vTaskDelete(t, x) ==
  /\ At(t, "run") /\ Deletable(x)
  /\ home' = [home EXCEPT ![x] = Terminated]
  /\ blocked' = Released({x})
  /\ yield' = (x = t)
  /\ UNCHANGED <<queue, prios, pendingReady, sched, core, pc, loc, got>>

(* prvIdleTask on its way through prvCheckTasksWaitingTermination.          *)
IdleAt(l) == running = NoTask /\ ~yield /\ idle = l
Dead == {x \in Tasks : home[x] = Terminated}

(* uxTasksDeleted says that there is something to do.  The list is looked   *)
(* at with the scheduler suspended: only the idle task shortens it, so it   *)
(* is not empty.                                                            *)
CheckTermination ==
  /\ IdleAt("check") /\ Dead # {}
  /\ suspendAll' = suspendAll + 1
  /\ idle' = "resume"
  /\ UNCHANGED <<queue, blocked, home, prios, pendingReady, missedYield, yield,
                 running, pc, loc, got>>

CheckedTermination ==
  /\ IdleAt("resume")
  /\ \E late \in SUBSET {x \in Tasks : home[x] = Delayed}, ticked \in BOOLEAN :
       /\ ResumeAll(IdlePriority, late, ticked, FALSE)
       /\ loc' = Lately(late)
  /\ idle' = "free"
  /\ UNCHANGED <<queue, prios, running, pc, got>>

(* The task at the head of the list goes, and its memory with it.           *)
prvDeleteTCB ==
  /\ IdleAt("free")
  /\ \E x \in Dead : home' = [home EXCEPT ![x] = Freed]
  /\ idle' = "check"
  /\ UNCHANGED <<queue, blocked, prios, pendingReady, sched, yield, running, pc,
                 loc, got>>

-----------------------------------------------------------------------------

(* xQueueCreate, xQueueCreateMutex and xQueueCreateCountingSemaphore (of an *)
(* initial count of 0): nothing waits, nothing is locked, and the first     *)
(* item is read from where pcReadFrom, one before it, leads.                *)
Created(q) ==
  [count |-> IF Kind[q] = "mutex" THEN 1 ELSE 0,
   store |-> [n \in 0 .. Capacity[q] - 1 |-> NoLocals.item],
   writeTo |-> 0, readFrom |-> Capacity[q] - 1,
   rxLock |-> Unlocked, txLock |-> Unlocked,
   holder |-> NoTask, calls |-> 0]

Init ==
  /\ queue = [q \in Queues |-> Created(q)]
  /\ blocked = [q \in Queues |-> [side \in {"send", "receive"} |-> <<>>]]
  /\ home = Priority
  /\ priority = Priority /\ base = Priority
  /\ value = [t \in Tasks |-> MaxPriorities - Priority[t]]
  /\ pendingReady = <<>>
  /\ suspendAll = 0 /\ missedYield = FALSE /\ yield = FALSE
  /\ running \in Highest(home) /\ idle = "check"
  /\ pc = [t \in Tasks |-> "run"]
  /\ loc = [t \in Tasks |-> NoLocals]
  /\ got = NoLocals.item

Sending(t) == pc[t] # "run" /\ Sends(loc[t].op)
Receiving(t) == pc[t] # "run" /\ ~Sends(loc[t].op)

(* What the two have in common once the task has seen that it must wait.    *)
Wait(t) ==
  \/ vTaskSuspendAll(t) \/ prvLockQueue(t) \/ xTaskCheckForTimeOut(t)
  \/ TestQueue(t) \/ vTaskPlaceOnEventList(t)
  \/ UnlockTx(t) \/ UnlockRx(t) \/ xTaskResumeAll(t)

xQueueGenericSend(t) ==
  t \notin AltTasks /\ Sending(t) /\ (TrySend(t) \/ TryLater(t) \/ Wait(t))

xQueueGenericReceive(t) ==
  /\ t \notin AltTasks /\ Receiving(t)
  /\ \/ TryReceive(t) \/ TryPeek(t) \/ TryLater(t)
     \/ Wait(t) \/ vTaskPriorityInherit(t)

xQueueAltGenericSend(t) ==
  /\ t \in AltTasks /\ Sending(t)
  /\ TrySend(t) \/ TryLater(t) \/ AltExpired(t) \/ AltBlock(t)

xQueueAltGenericReceive(t) ==
  /\ t \in AltTasks /\ Receiving(t)
  /\ TryReceive(t) \/ TryPeek(t) \/ TryLater(t) \/ AltExpired(t) \/ AltBlock(t)

Step(t) ==
  \/ xQueueGenericSend(t) \/ xQueueGenericReceive(t) \/ TakeCounted(t)
  \/ xQueueAltGenericSend(t) \/ xQueueAltGenericReceive(t)

Next ==
  \/ \E t \in Tasks : Step(t)
  \/ \E c \in Calls :
       \/ Call(c[1], c[2], c[3], c[4])
       \/ c[2] = "take" /\ TakeRecursive(c[1], c[3], c[4])
       \/ c[2] = "give" /\ GiveRecursive(c[1], c[3])
  \/ \E c \in PrioritySets : vTaskPrioritySet(c[1], c[2], c[3])
  \/ \E c \in Suspends : vTaskSuspend(c[1], c[2]) \/ vTaskResume(c[1], c[2])
  \/ \E c \in Deletes : vTaskDelete(c[1], c[2])
  \/ CheckTermination \/ CheckedTermination \/ prvDeleteTCB
  \/ \E x \in IsrResumes : xTaskResumeFromISR(x)
  \/ \E q \in IsrSends, x \in Items, op \in {"send", "front"} :
       xQueueGenericSendFromISR(q, x, op)
  \/ \E q \in IsrReceives : xQueueReceiveFromISR(q)
  \/ vTaskSwitchContext

Spec == Init /\ [][Next]_vars

-----------------------------------------------------------------------------
(* Properties.                                                              *)

Sections == {"lock", "check", "test", "inherit", "place", "unlockTx",
             "unlockRx", "resume"}

(* The type invariant.                                                      *)
TypeOK ==
  /\ \A q \in Queues :
       /\ queue[q].count \in 0 .. Capacity[q]
       /\ queue[q].writeTo \in 0 .. Capacity[q] - 1
       /\ queue[q].readFrom \in 0 .. Capacity[q] - 1
       /\ queue[q].rxLock \in Unlocked .. MaxLock
       /\ queue[q].txLock \in Unlocked .. MaxLock
       /\ queue[q].holder \in Tasks \cup {NoTask}
       /\ queue[q].calls \in 0 .. MaxNesting
       /\ \A s \in {"send", "receive"} : blocked[q][s] \in Seq(Tasks)
  /\ home \in [Tasks -> Levels \cup {Delayed, Suspended, Terminated, Freed}]
  /\ priority \in [Tasks -> Levels] /\ base \in [Tasks -> Levels]
  /\ pendingReady \in Seq(Tasks)
  /\ suspendAll \in 0 .. 1
  /\ running \in Tasks \cup {NoTask} /\ idle \in {"check", "resume", "free"}
  /\ pc \in [Tasks -> Sections \cup {"run", "try", "suspend", "wait", "count"}]

(* What callers were promised: the messages between pcReadFrom and          *)
(* pcWriteTo are FromaQueueSpec's bounded sequence.                         *)
Messages == [q \in Fifos |-> [n \in 1 .. queue[q].count |->
               queue[q].store[(queue[q].readFrom + n) % Capacity[q]]]]
Promise == INSTANCE FromaQueueSpec WITH
             messages <- Messages, Capacity <- [q \in Fifos |-> Capacity[q]]
PromiseKept == Promise!Spec

(* A task that is on its way to try again, having been woken or having seen *)
(* that there is something.                                                 *)
EnRoute(q, side) ==
  {t \in Tasks : /\ loc[t].timed /\ loc[t].queue = q /\ Side(loc[t].op) = side
                 /\ \/ pc[t] = "try"
                    \/ /\ pc[t] \in {"unlockTx", "unlockRx", "resume"}
                       /\ loc[t].then # "fail"
                 /\ t \notin ToSet(blocked[q][side]) /\ ~Gone(t)}

(* No wakeup is lost between a task's look at the queue and its wait: while *)
(* a task waits for an item, every item there is belongs to a task that was *)
(* woken for it or is still to be replayed by prvUnlockQueue; and so for    *)
(* room and the tasks that wait for room.                                   *)
NoLostWakeup ==
  \A q \in Queues :
    /\ blocked[q]["receive"] # <<>> =>
         queue[q].count <= Cardinality(EnRoute(q, "receive"))
                           + Locked(queue[q].txLock)
    /\ blocked[q]["send"] # <<>> =>
         Capacity[q] - queue[q].count <= Cardinality(EnRoute(q, "send"))
                                         + Locked(queue[q].rxLock)

(* A queue is locked by one task at a time, which runs with the scheduler   *)
(* suspended ("THIS FUNCTION MUST BE CALLED WITH THE SCHEDULER SUSPENDED"), *)
(* and no queue stays locked when it resumes the scheduler.                 *)
LockedAlone ==
  /\ \A q \in Queues :
       {queue[q].rxLock, queue[q].txLock} # {Unlocked} =>
         /\ suspendAll = 1
         /\ running # NoTask /\ loc[running].queue = q
         /\ pc[running] \in Sections \ {"lock", "resume"}
  /\ suspendAll = Cardinality({t \in Tasks : pc[t] \in Sections})
                  + (IF idle = "resume" THEN 1 ELSE 0)

(* The type invariant, and: a task waits for one thing at most, is then on  *)
(* no ready list, and has not been woken already; a task in its own code is *)
(* ready, unless it was suspended or deleted.                               *)
OneWait ==
  LET waits == Queues \X {"send", "receive"}
      suspended == {x \in Tasks : IsSuspended(x) /\ \E c \in Suspends : c[2] = x}
  IN
  TypeOK /\ \A t \in Tasks :
    LET on == {w \in waits : t \in ToSet(blocked[w[1]][w[2]])} IN
    /\ Cardinality(on) <= 1
    /\ on # {} => home[t] < 0 /\ ~Gone(t) /\ t \notin ToSet(pendingReady)
    /\ on = {} /\ home[t] < 0 /\ ~Gone(t) =>
         t \in ToSet(pendingReady) \cup suspended
    /\ \A w \in waits : IsInjective(blocked[w[1]][w[2]])
    /\ IsInjective(pendingReady)
    /\ on # {} => pc[t] \in Sections \cup {"try"}
    /\ home[t] >= 0 => t \notin ToSet(pendingReady)

(* With the scheduler running and no yield on its way, the task that runs   *)
(* is one of the most important that are ready: every wake, from a call, an *)
(* interrupt, a lock that is released or a priority that changes, yields    *)
(* when it must.                                                            *)
HighestRuns ==
  suspendAll = 0 /\ ~yield =>
    IF running = NoTask THEN Highest(home) = {} ELSE running \in Highest(home)

(* Priority inheritance: while a task waits for a mutex, whoever holds it,  *)
(* or is on its way to take it, is no less important.                       *)
NoInversion ==
  \A q \in Mutexes : \A t \in ToSet(blocked[q]["receive"]) :
    \/ queue[q].holder # NoTask /\ priority[queue[q].holder] >= priority[t]
    \/ \E x \in EnRoute(q, "receive") : priority[x] >= priority[t]

(* An inherited priority goes with the mutex: a task that holds none has    *)
(* its own again, as a ready task and for event lists too.                  *)
Restored ==
  \A t \in Tasks :
    /\ priority[t] # base[t] => \E q \in Mutexes : queue[q].holder = t
    /\ home[t] \in Levels => home[t] = priority[t]
    /\ priority[t] = base[t] => value[t] = MaxPriorities - priority[t]

(* The event lists are "stored in priority order".                          *)
InPriorityOrder ==
  \A q \in Queues, s \in {"send", "receive"} :
    \A m, n \in DOMAIN blocked[q][s] :
      m < n => priority[blocked[q][s][m]] >= priority[blocked[q][s][n]]
=============================================================================

----------------------------- MODULE FromaTick -----------------------------
(***************************************************************************)
(* Ticks, delays and timeouts: vTaskIncrementTick, prvCheckDelayedTasks,   *)
(* vTaskDelay, vTaskDelayUntil, xTaskResumeAll, vTaskSetTimeOutState and   *)
(* xTaskCheckForTimeOut of source/tasks.c, and the tick interrupt of       *)
(* board/port.c.                                                           *)
(*                                                                         *)
(* Core 1 takes the tick interrupts and core 0 makes the calls; nothing    *)
(* excludes one from the other, so a step is one access to the variables   *)
(* they share.  An operation of list.c is one step: what two cores in one  *)
(* list do to its pointers is left to FromaSched.                          *)
(*                                                                         *)
(* The tick interrupt counts in xTickCount[ 0 ] but, being on core 1,      *)
(* looks for tasks to wake with xTickCount[ 1 ], which nobody counts, and  *)
(* so finds none before the count of core 0 has wrapped.                   *)
(* After that the two cores may be looking for tasks to wake at once, as    *)
(* nothing excludes this either, and take the same task.  A core that then  *)
(* removes an item which is on no list, or takes the head of an empty list, *)
(* writes and reads where it should not: the model ends there (clashed).    *)
(*                                                                         *)
(* Times are kept here without wrapping, and wrapped where the code looks  *)
(* at them: W(x) is what a portTickType holds of x.                        *)
(***************************************************************************)
EXTENDS Integers, FiniteSets, SequencesExt, FromaWithout

CONSTANTS
  Tasks, NoTask,
  Width,           (* the number of values of a portTickType                *)
  Calls,           (* <<task, operation, ticks>>: the calls made            *)
  MaxInterrupts,   (* model bound on the tick interrupts                    *)
  MaxAhead         (* model bound on how far a period may be ahead of time  *)

W(x) == x % Width
portMAX_DELAY == Width - 1
Operations == {"delay", "until", "wait", "hold"}

ASSUME TickAssumption ==
  /\ IsFiniteSet(Tasks) /\ NoTask \notin Tasks
  /\ Width \in Nat \ {0, 1}
  /\ MaxInterrupts \in Nat /\ MaxAhead \in Nat
  /\ Calls \subseteq Tasks \X Operations \X (1 .. Width - 1)

VARIABLES
  k,            (* the kernel's variables: ticks (xTickCount[ 0 ]),         *)
                (* suspended (uxSchedulerSuspended), missed (uxMissedTicks),*)
                (* unblock (xNextTaskUnblockTime), overflows                *)
                (* (xNumOfOverflows), list (the two delayed task lists),    *)
                (* delayed and overflow (which list is which), wake (the    *)
                (* value of xGenericListItem), ready (the ready tasks)      *)
  pc,           (* where each core is in its code                           *)
  tmp,          (* what each core has read and not used yet                 *)
  running,      (* pxCurrentTCB[ 0 ], NoTask for the idle task              *)
  call,         (* the locals of each task's call                           *)
  previous,     (* each task's *pxPreviousWakeTime                          *)
  interrupts,   (* the tick interrupts taken                                *)
  slipped,      (* history: some ++ or -- wrote over the other core's       *)
  hand,         (* the pxTCB of each core in prvCheckDelayedTasks and in    *)
                (* the wrap of the count, NoTask where it is dead           *)
  asleep,       (* xSuspendedTaskList                                       *)
  clashed       (* history: an item that is on no list was removed, or the  *)
                (* head of an empty list was taken                          *)

task == <<running, call, previous>>
waking == <<hand, asleep, clashed>>
vars == <<k, pc, tmp, task, interrupts, slipped, waking>>

(* Core c goes from one place to another.                                   *)
Step(c, from, to) == pc[c] = from /\ pc' = [pc EXCEPT ![c] = to]
Read(c, v) == tmp' = [tmp EXCEPT ![c] = v]

xTickCount(c) == IF c = 0 THEN W(k.ticks) ELSE 0

-----------------------------------------------------------------------------
(* vTaskIncrementTick( 0 ) on core c, for a tick interrupt or, on core 0,   *)
(* for a tick that was missed.                                              *)

(* Mutant: a tick that comes while the scheduler is suspended is dropped.   *)
IncrementTickDropped(c) ==
  /\ Step(c, "tick", IF k.suspended = 0 THEN "count" ELSE "ticked")
  /\ UNCHANGED <<k, tmp, task, interrupts, slipped, waking>>

IncrementTick(c) ==
  /\ Step(c, "tick", IF k.suspended = 0 THEN "count" ELSE "miss")
  /\ UNCHANGED <<k, tmp, task, interrupts, slipped, waking>>

(* ++x reads x, then writes it.                                             *)
Overwrites(c, x) == slipped' = (slipped \/ x # tmp[c])
CountRead(c) ==
  /\ Step(c, "count", "counted") /\ Read(c, k.ticks)
  /\ UNCHANGED <<k, task, interrupts, slipped, waking>>
CountWrite(c) ==
  /\ Step(c, "counted", "wrap") /\ k' = [k EXCEPT !.ticks = tmp[c] + 1]
  /\ UNCHANGED <<tmp, task, interrupts, waking>> /\ Overwrites(c, k.ticks)
MissRead(c) ==
  /\ Step(c, "miss", "missed") /\ Read(c, k.missed)
  /\ UNCHANGED <<k, task, interrupts, slipped, waking>>
MissWrite(c) ==
  /\ Step(c, "missed", "ticked") /\ k' = [k EXCEPT !.missed = tmp[c] + 1]
  /\ UNCHANGED <<tmp, task, interrupts, waking>> /\ Overwrites(c, k.missed)

(* A count of 0 has overflowed.  A task that is on the delayed list even    *)
(* now fails the assertion, and the core stops for good.                    *)
Overflow(c) ==
  /\ \/ W(k.ticks) # 0 /\ Step(c, "wrap", "check") /\ UNCHANGED tmp
     \/ W(k.ticks) = 0 /\ k.list[k.delayed] # <<>>
        /\ Step(c, "wrap", "halted") /\ UNCHANGED tmp
     \/ W(k.ticks) = 0 /\ k.list[k.delayed] = <<>>
        /\ Step(c, "wrap", "swap") /\ Read(c, k.delayed)
  /\ UNCHANGED <<k, task, interrupts, slipped, waking>>

(* The two lists are swapped, and the first task of the new one is next.    *)
Swap(c) ==
  /\ Step(c, "swap", "swapped") /\ k' = [k EXCEPT !.delayed = k.overflow]
  /\ UNCHANGED <<tmp, task, interrupts, slipped, waking>>
Swapped(c) ==
  /\ Step(c, "swapped", "next")
  /\ k' = [k EXCEPT !.overflow = tmp[c], !.overflows = @ + 1]
  /\ UNCHANGED <<tmp, task, interrupts, slipped, waking>>

Next1(c) ==
  /\ IF k.list[k.delayed] = <<>>
     THEN Step(c, "next", "newset") /\ Read(c, portMAX_DELAY)
     ELSE Step(c, "next", "newhead") /\ UNCHANGED tmp
  /\ UNCHANGED <<k, task, interrupts, slipped, waking>>

(* prvCheckDelayedTasks goes by the count of its own core.                  *)
CheckDelayed(c) ==
  /\ Step(c, "check", IF xTickCount(c) >= k.unblock THEN "wake" ELSE "ticked")
  /\ UNCHANGED <<k, tmp, task, interrupts, slipped, waking>>
Wake(c) ==
  /\ IF k.list[k.delayed] = <<>>
     THEN Step(c, "wake", "set") /\ Read(c, portMAX_DELAY)
     ELSE Step(c, "wake", "head") /\ UNCHANGED tmp
  /\ UNCHANGED <<k, task, interrupts, slipped, waking>>

(* The head of the list, and the value of its item.                         *)
HeadRead(c) ==
  /\ Step(c, "head", "value") \/ Step(c, "newhead", "newvalue")
  /\ IF k.list[k.delayed] = <<>>
     THEN clashed' = TRUE /\ UNCHANGED hand
     ELSE /\ hand' = [hand EXCEPT ![c] = Head(k.list[k.delayed])]
          /\ UNCHANGED clashed
  /\ UNCHANGED <<k, tmp, task, interrupts, slipped, asleep>>
ValueRead(c) ==
  /\ \/ Step(c, "value", "due") /\ UNCHANGED hand
     \/ Step(c, "newvalue", "newset") /\ hand' = [hand EXCEPT ![c] = NoTask]
  /\ Read(c, W(k.wake[hand[c]]))
  /\ UNCHANGED <<k, task, interrupts, slipped, asleep, clashed>>

(* Mutant: the task whose time is the next tick's is woken too.             *)
DueTestNext(c) ==
  /\ IF xTickCount(c) + 1 < tmp[c]
     THEN Step(c, "due", "set") /\ hand' = [hand EXCEPT ![c] = NoTask]
     ELSE Step(c, "due", "unlist") /\ UNCHANGED hand
  /\ UNCHANGED <<k, tmp, task, interrupts, slipped, asleep, clashed>>
DueTest(c) ==
  /\ IF xTickCount(c) < tmp[c]
     THEN Step(c, "due", "set") /\ hand' = [hand EXCEPT ![c] = NoTask]
     ELSE Step(c, "due", "unlist") /\ UNCHANGED hand
  /\ UNCHANGED <<k, tmp, task, interrupts, slipped, asleep, clashed>>
SetUnblock(c) ==
  /\ Step(c, "set", "ticked") \/ Step(c, "newset", "check")
  /\ k' = [k EXCEPT !.unblock = tmp[c]]
  /\ UNCHANGED <<tmp, task, interrupts, slipped, waking>>

(* vListRemove takes the item off the list it is on by now, which need not  *)
(* be the one it was found on.                                              *)
Unlist(c) ==
  LET t == hand[c] IN
  /\ Step(c, "unlist", "move")
  /\ k' = [k EXCEPT !.ready = @ \ {t},
                     !.list = [n \in {1, 2} |-> Without(k.list[n], {t})]]
  /\ asleep' = asleep \ {t}
  /\ clashed' = (/\ t \notin k.ready \cup asleep
                 /\ \A n \in {1, 2} : t \notin ToSet(k.list[n]))
  /\ UNCHANGED <<tmp, task, interrupts, slipped, hand>>
MakeReady(c) ==
  /\ Step(c, "move", "wake")
  /\ k' = [k EXCEPT !.ready = @ \cup {hand[c]}]
  /\ hand' = [hand EXCEPT ![c] = NoTask]
  /\ UNCHANGED <<tmp, task, interrupts, slipped, asleep, clashed>>

-----------------------------------------------------------------------------
(* vPortSysTickHandler, on core 1.                                          *)

TickInterrupt ==
  /\ Step(1, "idle", "tick")
  /\ interrupts < MaxInterrupts /\ interrupts' = interrupts + 1
  /\ UNCHANGED <<k, tmp, task, slipped, waking>>
TickReturns ==
  /\ Step(1, "ticked", "idle")
  /\ UNCHANGED <<k, tmp, task, interrupts, slipped, waking>>

-----------------------------------------------------------------------------
(* The calls, on core 0: "delay" is vTaskDelay and "until" vTaskDelayUntil; *)
(* "wait" is a queue's operation with a timeout, on a queue that has        *)
(* nothing to offer; "hold" only suspends the scheduler for a while.        *)

Mine == call[running]
NoCall == [op |-> "none", asked |-> 0, left |-> 0, target |-> 0,
           start |-> 0, entered |-> 0, overflows |-> 0, expired |-> FALSE]
Note(f, v) == call' = [call EXCEPT ![running][f] = v]

Call(t, op, n) ==
  /\ running = t
  /\ op = "until" => previous[t] + n <= k.ticks + MaxAhead
  /\ Step(0, "run", IF op = "wait" THEN "enter" ELSE "suspend")
  /\ call' = [call EXCEPT ![t] =
                [NoCall EXCEPT !.op = op, !.asked = n, !.left = n]]
  /\ UNCHANGED <<k, tmp, running, previous, interrupts, slipped, waking>>

(* vTaskSetTimeOutState reads the overflows, then the ticks.                *)
SetTimeOutOverflows ==
  /\ Step(0, "enter", "entered") \/ Step(0, "reenter", "reentered")
  /\ Note("overflows", k.overflows)
  /\ UNCHANGED <<k, tmp, running, previous, interrupts, slipped, waking>>
SetTimeOutTime ==
  /\ \/ Step(0, "entered", "suspend")
        /\ call' = [call EXCEPT ![running].entered = k.ticks,
                                ![running].start = k.ticks]
     \/ Step(0, "reentered", "target") /\ Note("entered", k.ticks)
  /\ UNCHANGED <<k, tmp, running, previous, interrupts, slipped, waking>>

vTaskSuspendAll ==
  /\ Step(0, "suspend", CASE Mine.op = "delay" -> "target"
                          [] Mine.op = "until" -> "until"
                          [] Mine.op = "wait" -> "timeout"
                          [] OTHER -> "resume")
  /\ k' = [k EXCEPT !.suspended = @ + 1]
  /\ UNCHANGED <<tmp, task, interrupts, slipped, waking>>

(* vTaskDelayUntil reads the count twice to see whether to delay.           *)
UntilWrapped ==
  /\ Step(0, "until", "decide")
  /\ Read(0, k.ticks)
  /\ UNCHANGED <<k, task, interrupts, slipped, waking>>
(* Mutant: it delays only if the time to wake has wrapped.                  *)
ShouldDelayWrapped(first, second, from, to) ==
  IF W(first) < W(from) THEN W(to) < W(from) /\ W(to) > W(second)
                        ELSE W(to) < W(from)
ShouldDelay(first, second, from, to) ==
  IF W(first) < W(from) THEN W(to) < W(from) /\ W(to) > W(second)
                        ELSE W(to) < W(from) \/ W(to) > W(second)
UntilDecide ==
  LET to == previous[running] + Mine.asked IN
  /\ Step(0, "decide",
       IF ShouldDelay(tmp[0], k.ticks, previous[running], to) THEN "sleep"
                                                              ELSE "resume")
  /\ Note("target", to)
  /\ previous' = [previous EXCEPT ![running] = to]
  /\ UNCHANGED <<k, tmp, running, interrupts, slipped, waking>>

(* xTaskCheckForTimeOut: four readings of the time.                         *)
TimeOutOverflows ==
  /\ IF Mine.left = portMAX_DELAY
     THEN Step(0, "timeout", "target") /\ UNCHANGED tmp
     ELSE /\ Step(0, "timeout", "passed")
          /\ Read(0, k.overflows)
  /\ UNCHANGED <<k, task, interrupts, slipped, waking>>
TimeOutPassed ==
  /\ IF tmp[0] # Mine.overflows /\ W(k.ticks) >= W(Mine.entered)
     THEN Step(0, "passed", "resume") /\ Note("expired", TRUE)
     ELSE Step(0, "passed", "elapsed") /\ UNCHANGED call
  /\ UNCHANGED <<k, tmp, running, previous, interrupts, slipped, waking>>
(* Mutant: one tick less is enough.                                         *)
TimeOutElapsedSooner ==
  /\ IF W(k.ticks - Mine.entered) + 1 < Mine.left
     THEN Step(0, "elapsed", "left") /\ UNCHANGED call
     ELSE Step(0, "elapsed", "resume") /\ Note("expired", TRUE)
  /\ UNCHANGED <<k, tmp, running, previous, interrupts, slipped, waking>>
TimeOutElapsed ==
  /\ IF W(k.ticks - Mine.entered) < Mine.left
     THEN Step(0, "elapsed", "left") /\ UNCHANGED call
     ELSE Step(0, "elapsed", "resume") /\ Note("expired", TRUE)
  /\ UNCHANGED <<k, tmp, running, previous, interrupts, slipped, waking>>
TimeOutLeft ==
  /\ Step(0, "left", "reenter")
  /\ Note("left", W(Mine.left - W(k.ticks - Mine.entered)))
  /\ UNCHANGED <<k, tmp, running, previous, interrupts, slipped, waking>>

(* The time to wake, of vTaskDelay and of vTaskPlaceOnEventList.            *)
Target ==
  /\ Step(0, "target", "sleep")
  /\ Note("target", k.ticks + Mine.left)
  /\ UNCHANGED <<k, tmp, running, previous, interrupts, slipped, waking>>

(* Mutant: the task stays on its ready list.                                *)
SleepReady ==
  /\ Step(0, "sleep", IF Mine.op = "wait" /\ Mine.left = portMAX_DELAY
                      THEN "forever" ELSE "which")
  /\ k' = [k EXCEPT !.wake[running] = Mine.target]
  /\ clashed' = (running \notin k.ready)
  /\ UNCHANGED <<tmp, task, interrupts, slipped, hand, asleep>>

(* Off the ready list; a wait of portMAX_DELAY goes to xSuspendedTaskList.  *)
Sleep ==
  /\ Step(0, "sleep", IF Mine.op = "wait" /\ Mine.left = portMAX_DELAY
                      THEN "forever" ELSE "which")
  /\ k' = [k EXCEPT !.ready = @ \ {running}, !.wake[running] = Mine.target]
  /\ clashed' = (running \notin k.ready)
  /\ UNCHANGED <<tmp, task, interrupts, slipped, hand, asleep>>
Forever ==
  /\ Step(0, "forever", "resume") /\ asleep' = asleep \cup {running}
  /\ UNCHANGED <<k, tmp, task, interrupts, slipped, hand, clashed>>

(* prvAddCurrentTaskToDelayedList.                                          *)
WhichList ==
  /\ Step(0, "which", IF W(Mine.target) < W(k.ticks) THEN "later" ELSE "insert")
  /\ UNCHANGED <<k, tmp, task, interrupts, slipped, waking>>
(* vListInsert: behind the tasks whose values are not greater.              *)
InsertByWake(s, t) ==
  LET before(x) == W(k.wake[x]) <= W(k.wake[t])
      n == CHOOSE n \in 0 .. Len(s) : /\ \A m \in 1 .. n : before(s[m])
                                      /\ n < Len(s) => ~before(s[n + 1])
  IN InsertAt(s, n + 1, t)
Insert ==
  /\ \/ Step(0, "later", "resume")
        /\ k' = [k EXCEPT !.list[k.overflow] = InsertByWake(@, running)]
     \/ Step(0, "insert", "sooner")
        /\ k' = [k EXCEPT !.list[k.delayed] = InsertByWake(@, running)]
  /\ UNCHANGED <<tmp, task, interrupts, slipped, waking>>
(* Mutant: xNextTaskUnblockTime is left as it is.                           *)
SoonerNever ==
  /\ Step(0, "sooner", "resume")
  /\ UNCHANGED <<k, tmp, task, interrupts, slipped, waking>>
Sooner ==
  /\ Step(0, "sooner", IF W(Mine.target) < k.unblock THEN "lower" ELSE "resume")
  /\ UNCHANGED <<k, tmp, task, interrupts, slipped, waking>>
Lower ==
  /\ Step(0, "lower", "resume")
  /\ k' = [k EXCEPT !.unblock = W(Mine.target)]
  /\ UNCHANGED <<tmp, task, interrupts, slipped, waking>>

-----------------------------------------------------------------------------
(* xTaskResumeAll: the missed ticks are unwound one by one.                 *)

ResumeAll ==
  /\ Step(0, "resume", "unwind")
  /\ k' = [k EXCEPT !.suspended = @ - 1]
  /\ UNCHANGED <<tmp, task, interrupts, slipped, waking>>
Unwind ==
  /\ k.missed > 0 /\ Step(0, "unwind", "tick")
  /\ UNCHANGED <<k, tmp, task, interrupts, slipped, waking>>
UnmissRead ==
  /\ Step(0, "ticked", "unmiss") /\ Read(0, k.missed)
  /\ UNCHANGED <<k, task, interrupts, slipped, waking>>
UnmissWrite ==
  /\ Step(0, "unmiss", "unwind") /\ k' = [k EXCEPT !.missed = tmp[0] - 1]
  /\ UNCHANGED <<tmp, task, interrupts, waking>> /\ Overwrites(0, k.missed)

(* The call returns, but that of a queue goes on until the time is over.    *)
(* It yields, or does not if it slept not and no tick was unwound; which is *)
(* left open, as priorities are.                                            *)
Done ==
  /\ k.missed = 0
  /\ call' = [call EXCEPT ![running] =
                IF @.op = "wait" /\ ~@.expired THEN @ ELSE NoCall]
  /\ running' \in k.ready \cup (IF k.ready = {} THEN {NoTask} ELSE {})
  /\ Step(0, "unwind", IF running' \in Tasks /\ call'[running'].op = "wait"
                       THEN "suspend" ELSE "run")
  /\ UNCHANGED <<k, tmp, previous, interrupts, slipped, waking>>

-----------------------------------------------------------------------------

Init ==
  /\ k = [ticks |-> 0, suspended |-> 0, missed |-> 0, unblock |-> portMAX_DELAY,
          overflows |-> 0, list |-> [n \in {1, 2} |-> <<>>],
          delayed |-> 1, overflow |-> 2,
          wake |-> [t \in Tasks |-> 0], ready |-> Tasks]
  /\ pc = [c \in {0, 1} |-> IF c = 0 THEN "run" ELSE "idle"]
  /\ tmp = [c \in {0, 1} |-> 0]
  /\ running \in Tasks
  /\ call = [t \in Tasks |-> NoCall]
  /\ previous = [t \in Tasks |-> 0]
  /\ interrupts = 0 /\ slipped = FALSE
  /\ hand = [c \in {0, 1} |-> NoTask] /\ asleep = {} /\ clashed = FALSE

Increment(c) ==
  \/ IncrementTick(c) \/ CountRead(c) \/ CountWrite(c) \/ MissRead(c)
  \/ MissWrite(c) \/ Overflow(c) \/ Swap(c) \/ Swapped(c) \/ Next1(c)
  \/ CheckDelayed(c) \/ Wake(c) \/ HeadRead(c) \/ ValueRead(c) \/ DueTest(c)
  \/ SetUnblock(c) \/ Unlist(c) \/ MakeReady(c)

(* Core 0 in the call of the task it runs.                                  *)
InCall ==
  \/ SetTimeOutOverflows \/ SetTimeOutTime \/ vTaskSuspendAll
  \/ UntilWrapped \/ UntilDecide
  \/ TimeOutOverflows \/ TimeOutPassed \/ TimeOutElapsed \/ TimeOutLeft
  \/ Target \/ Sleep \/ Forever \/ WhichList \/ Insert \/ Sooner \/ Lower
  \/ ResumeAll \/ Unwind \/ UnmissRead \/ UnmissWrite \/ Done

Next ==
  /\ ~clashed
  /\ \/ Increment(0) \/ Increment(1) \/ TickInterrupt \/ TickReturns
     \/ \E c \in Calls : Call(c[1], c[2], c[3])
     \/ running \in Tasks /\ InCall

Spec == Init /\ [][Next]_vars

-----------------------------------------------------------------------------
(* Properties.                                                              *)

(* The type invariant.                                                      *)
TypeOK ==
  /\ k.ticks \in Nat /\ k.missed \in Nat /\ k.overflows \in Nat
  /\ k.suspended \in {0, 1}
  /\ k.unblock \in 0 .. portMAX_DELAY
  /\ k.list \in [{1, 2} -> Seq(Tasks)]
  /\ k.delayed \in {1, 2} /\ k.overflow \in {1, 2}
  /\ k.wake \in [Tasks -> Nat] /\ previous \in [Tasks -> Nat]
  /\ k.ready \subseteq Tasks
  /\ tmp \in [{0, 1} -> Nat]
  /\ running \in Tasks \cup {NoTask}
  /\ hand \in [{0, 1} -> Tasks \cup {NoTask}]
  /\ asleep \subseteq Tasks /\ clashed \in BOOLEAN

(* The count has not wrapped so far, nor have two updates overlapped: what  *)
(* happens otherwise is the matter of the runs that find violations.        *)
Regular == ~slipped /\ k.ticks < Width

(* Where a task can be: on the ready lists, on one of the two delayed task  *)
(* lists, on xSuspendedTaskList, in the hands of a core that has removed it *)
(* from one list and has not put it on another, or between two lists in its *)
(* own call.                                                                *)
Whereabouts ==
  {"ready", "first", "second", "asleep", "hand 0", "hand 1", "between"}
At(p, t) ==
  CASE p = "ready"   -> t \in k.ready
    [] p = "first"   -> t \in ToSet(k.list[1])
    [] p = "second"  -> t \in ToSet(k.list[2])
    [] p = "asleep"  -> t \in asleep
    [] p = "hand 0"  -> pc[0] = "move" /\ hand[0] = t
    [] p = "hand 1"  -> pc[1] = "move" /\ hand[1] = t
    [] p = "between" ->
         t = running /\ pc[0] \in {"which", "later", "insert", "forever"}

(* A task is in exactly one place, and in no list twice, whatever the two   *)
(* cores move at once, until they clash: both take the same head, or one    *)
(* takes a task that the other has just taken.  That never happens before   *)
(* the count has wrapped.                                                   *)
OneHome ==
  /\ TypeOK
  /\ clashed => ~Regular
  /\ ~clashed =>
       /\ \A t \in Tasks : \E p \in Whereabouts :
                              \A q \in Whereabouts : At(q, t) <=> q = p
       /\ \A n \in {1, 2} : IsInjective(k.list[n])

(* No two cores take the same task off its list: "Remove an item from a     *)
(* list.  The list item has a pointer to the list that it is in".           *)
NoClash == ~clashed

(* "This ensures the tick count does not slip": between the calls, every    *)
(* tick interrupt is counted, or is missed and waits to be unwound.         *)
TicksKept ==
  ~slipped /\ pc[0] = "run" /\ pc[1] = "idle" => k.ticks + k.missed = interrupts

(* The same without regard to updates that overlap.                         *)
NoSlip == pc[0] = "run" /\ pc[1] = "idle" => k.ticks + k.missed = interrupts

(* No task is woken before its time.                                        *)
NeverEarly ==
  [][Regular' => \A t \in k'.ready \ k.ready : k.ticks >= k.wake[t]]_vars

(* xNextTaskUnblockTime, which spares a look at the list, is never later    *)
(* than the first task of the list, but while a task that has just joined   *)
(* it is about to bring it forward.                                         *)
NextCovered ==
  Regular /\ pc[0] \notin {"sooner", "lower"} =>
    \A t \in ToSet(k.list[k.delayed]) : k.unblock <= W(k.wake[t])

(* vTaskDelayUntil: a task that is not in it is not ahead of its period.    *)
PeriodKept ==
  Regular => \A t \in k.ready : call[t].op # "until" => previous[t] <= k.ticks

(* A wait is given up only when as many ticks as were asked for have passed *)
(* since it began.                                                          *)
TimesOutRight ==
  Regular => \A t \in Tasks :
    call[t].expired => k.ticks - call[t].start >= call[t].asked

(* "If there are any items in pxDelayedTaskList here then there is an       *)
(* error!": configASSERT( ( listLIST_IS_EMPTY( pxDelayedTaskList ) ) ).     *)
NoneLeftBehind == "halted" \notin {pc[0], pc[1]}
=============================================================================

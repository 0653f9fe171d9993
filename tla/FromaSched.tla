----------------------------- MODULE FromaSched -----------------------------
(***************************************************************************)
(* The dual-core scheduler of FROMA: source/tasks.c (suspend, resume,      *)
(* vTaskSuspendAll, vTaskSwitchContext), kernel/board/port.c (the context  *)
(* save and restore around the yield interrupt), kernel/board/portmacro.h  *)
(* (yield SGI, interrupt mask) and kernel/sync/spinlock.h (schedulerLock). *)
(*                                                                         *)
(* The two cores interleave between any two steps.  A step is one access   *)
(* to shared memory that the other core can observe: one list operation,   *)
(* or one read, write or test of a scheduler variable, together with the   *)
(* core-local work around it (masking, locals, registers).                 *)
(* What a step of list.c does inside is the subject of FromaList; here     *)
(* each list operation is atomic.                                          *)
(*                                                                         *)
(* The module starts where both cores have run xPortStartScheduler() and   *)
(* core 0 has set xSchedulerRunning.  No task waits on an event list, no   *)
(* task is delayed: queues and ticks are other modules.                    *)
(***************************************************************************)
EXTENDS Integers, FiniteSets, SequencesExt

CONSTANTS
  Tasks,          (* the tasks created before the scheduler was started     *)
  NoTask,         (* NULL, or a pointer that is no TCB                      *)
  MaxPriorities,  (* configMAX_PRIORITIES                                   *)
  Priority,       (* uxPriority of each task                                *)
  CreatedBy,      (* the core that ran xTaskCreate() for each task          *)
  SuspendCalls,   (* <<caller, handle, core>>: the vTaskSuspend() calls     *)
  ResumeCalls,    (* <<caller, handle, core>>: the vTaskResume() calls      *)
  Yielders,       (* the tasks that call taskYIELD()                        *)
  Lockers,        (* the tasks that call vTaskSuspendAll/xTaskResumeAll     *)
  MaxSuspendAll   (* model bound on uxSchedulerSuspended                    *)

Cores == {0, 1}
Levels == 0 .. MaxPriorities - 1
Free == 2                        (* schedulerLock.sLock = 0 *)
CreatedOn(c) == {t \in Tasks : CreatedBy[t] = c}

ASSUME TasksAssumption == IsFiniteSet(Tasks) /\ NoTask \notin Tasks
ASSUME LevelsAssumption ==
  MaxPriorities \in Nat \ {0} /\ Priority \in [Tasks -> Levels]
ASSUME CreatedAssumption ==
  /\ CreatedBy \in [Tasks -> Cores]
  /\ \A c \in Cores : CreatedOn(c) # {}
ASSUME CallsAssumption ==
  /\ SuspendCalls \subseteq Tasks \X (Tasks \cup {NoTask}) \X Cores
  /\ ResumeCalls \subseteq Tasks \X Tasks \X Cores
  /\ Yielders \subseteq Tasks
  /\ Lockers \subseteq Tasks
ASSUME BoundAssumption == MaxSuspendAll \in Nat

VARIABLES
  current,      (* pxCurrentTCB[core]                                       *)
  ready,        (* pxReadyTasksLists[p], from the next entry to pxIndex     *)
  suspended,    (* the tasks whose xGenericListItem is in xSuspendedTaskList*)
  top,          (* uxTopReadyPriority[core]                                 *)
  lock,         (* schedulerLock: the core that holds it, or Free           *)
  suspendAll,   (* uxSchedulerSuspended                                     *)
  missedYield,  (* xMissedYield                                             *)
  live,         (* the task whose registers the core holds                  *)
  stack,        (* the task whose context lies saved on each task's stack   *)
  masked,       (* the core's GIC priority mask hides the yield SGI         *)
  pending,      (* the sources of the yield SGIs pending at each core       *)
  irq,          (* where the core is in the yield interrupt                 *)
  scan,         (* the locals of vTaskSwitchContext                         *)
  pc,           (* where each task is in the kernel call it makes           *)
  loc           (* the locals of that call                                  *)

lists == <<ready, suspended>>
switch == <<current, top, lock, irq, scan>>
regs == <<live, stack>>
all == <<suspendAll, missedYield>>
vars == <<current, ready, suspended, top, lock, suspendAll, missedYield,
          live, stack, masked, pending, irq, scan, pc, loc>>

-----------------------------------------------------------------------------
(* list.c, as the scheduler uses it.                                        *)

Position(s, t) == CHOOSE i \in DOMAIN s : s[i] = t

(* The item's pvContainer is not NULL.                                      *)
IsReady(t) == \E p \in Levels : t \in ToSet(ready[p])
OnList(t) == IsReady(t) \/ t \in suspended

vListRemove(t) ==
  /\ suspended' = suspended \ {t}
  /\ ready' = [p \in Levels |-> IF t \in ToSet(ready[p])
                                THEN RemoveAt(ready[p], Position(ready[p], t))
                                ELSE ready[p]]

InsertReady(t) == ready' = [ready EXCEPT ![Priority[t]] = Append(@, t)]

(* listGET_OWNER_OF_NEXT_ENTRY: the head is returned and becomes the entry  *)
(* pxIndex points to, the last of the next round.                           *)
Rotate(p) == ready' = [ready EXCEPT ![p] = Append(Tail(@), Head(@))]

-----------------------------------------------------------------------------
(* The port.                                                                *)

Other(c) == 1 - c                              (* CORE_ID_REVERSE_MASK      *)

(* The SGI is always sent: the test before it looks at bit 0 of ICDISPR,    *)
(* SGI 0, which nothing ever sends.  For the same reason                    *)
(* portSGI_CLEAR_YIELD clears nothing.  The GIC keeps one pending bit for   *)
(* each core that sends.                                                    *)
portYIELD_CORE(c, k) == pending' = [pending EXCEPT ![k] = @ \cup {c}]

Mask(c) == masked' = [masked EXCEPT ![c] = TRUE]
Unmask(c) == masked' = [masked EXCEPT ![c] = FALSE]

(* A failed configASSERT, or the abort a wild pointer raises: both handlers *)
(* loop for ever with the core's interrupts off.                            *)
Halt(c) == irq' = [irq EXCEPT ![c] = "halt"]

(* Core c executes task t, which is at l.                                   *)
At(c, t, l) == irq[c] = "none" /\ live[c] = t /\ pc[t] = l
Goto(t, l) == pc' = [pc EXCEPT ![t] = l]

(* The call returns to the task's own code, and its locals are gone.        *)
NoLocals == [task |-> NoTask, core |-> 0, self |-> FALSE, count |-> 0]
Return(t) == Goto(t, "run") /\ loc' = [loc EXCEPT ![t] = NoLocals]

-----------------------------------------------------------------------------
(* vTaskSuspend(handle, core).                                              *)

(* Mutant: the critical section is not entered.                              *)
SuspendEnterUnmasked(c, t, x, k) ==
  LET self == x = NoTask \/ x = current[k] IN
  /\ At(c, t, "run")
  /\ loc' = [loc EXCEPT ![t].task = x, ![t].core = k, ![t].self = self]
  /\ Goto(t, IF self THEN "sReread" ELSE "sRemove")
  /\ UNCHANGED <<lists, switch, regs, all, masked, pending>>

(* taskENTER_CRITICAL, and the test of the handle against pxCurrentTCB.     *)
SuspendEnter(c, t, x, k) ==
  LET self == x = NoTask \/ x = current[k] IN
  /\ At(c, t, "run")
  /\ loc' = [loc EXCEPT ![t].task = x, ![t].core = k, ![t].self = self]
  /\ Goto(t, IF self THEN "sReread" ELSE "sRemove")
  /\ Mask(c)
  /\ UNCHANGED <<lists, switch, regs, all, pending>>

(* pxTCB = pxCurrentTCB[ xCoreID ]: the second read of it.                  *)
SuspendReread(c, t) ==
  /\ At(c, t, "sReread")
  /\ loc' = [loc EXCEPT ![t].task = current[loc[t].core]]
  /\ Goto(t, "sRemove")
  /\ UNCHANGED <<lists, switch, regs, all, masked, pending>>

(* vListRemove of the generic item; an item on no list has no container,   *)
(* and vListRemove then follows a NULL pxList.                              *)
SuspendRemove(c, t) ==
  LET x == loc[t].task IN
  /\ At(c, t, "sRemove")
  /\ \/ /\ OnList(x)
        /\ vListRemove(x)
        /\ Goto(t, "sInsert")
        /\ UNCHANGED irq
     \/ /\ ~OnList(x)
        /\ Halt(c)
        /\ UNCHANGED <<lists, pc>>
  /\ UNCHANGED <<current, top, lock, scan, regs, all, masked, pending, loc>>

(* vListInsertEnd into xSuspendedTaskList, and taskEXIT_CRITICAL.           *)
SuspendInsert(c, t) ==
  /\ At(c, t, "sInsert")
  /\ suspended' = suspended \cup {loc[t].task}
  /\ IF loc[t].self THEN Goto(t, "sYield") /\ UNCHANGED loc ELSE Return(t)
  /\ Unmask(c)
  /\ UNCHANGED <<ready, switch, regs, all, pending>>

(* Mutant: the yield goes to the other core.                                 *)
SuspendYieldReversed(c, t) ==
  /\ At(c, t, "sYield")
  /\ portYIELD_CORE(c, Other(loc[t].core))
  /\ Return(t)
  /\ UNCHANGED <<lists, switch, regs, all, masked>>

(* portYIELD_WITHIN_API_CORE( xCoreID ).                                    *)
SuspendYield(c, t) ==
  /\ At(c, t, "sYield")
  /\ portYIELD_CORE(c, loc[t].core)
  /\ Return(t)
  /\ UNCHANGED <<lists, switch, regs, all, masked>>

-----------------------------------------------------------------------------
(* vTaskResume(handle, core).                                               *)

(* The test against pxCurrentTCB[ xCoreID ], outside the critical section:  *)
(* a task that is still current there is not resumed at all.                *)
ResumeCheck(c, t, x, k) ==
  /\ At(c, t, "run")
  /\ IF x = current[k]
     THEN Return(t)
     ELSE /\ loc' = [loc EXCEPT ![t].task = x, ![t].core = k]
          /\ Goto(t, "rTest")
  /\ UNCHANGED <<lists, switch, regs, all, masked, pending>>

(* taskENTER_CRITICAL and xTaskIsTaskSuspended; FALSE leaves at once.       *)
ResumeTest(c, t) ==
  /\ At(c, t, "rTest")
  /\ \/ /\ loc[t].task \in suspended
        /\ Goto(t, "rRemove")
        /\ Mask(c)
        /\ UNCHANGED loc
     \/ /\ loc[t].task \notin suspended
        /\ Return(t)
        /\ UNCHANGED masked
  /\ UNCHANGED <<lists, switch, regs, all, pending>>

ResumeRemove(c, t) ==
  LET x == loc[t].task IN
  /\ At(c, t, "rRemove")
  /\ \/ /\ OnList(x)
        /\ vListRemove(x)
        /\ Goto(t, "rRaise")
        /\ UNCHANGED irq
     \/ /\ ~OnList(x)
        /\ Halt(c)
        /\ UNCHANGED <<lists, pc>>
  /\ UNCHANGED <<current, top, lock, scan, regs, all, masked, pending, loc>>

(* Mutant: the task is inserted without raising uxTopReadyPriority.          *)
ResumeRaiseForgotten(c, t) ==
  /\ At(c, t, "rRaise")
  /\ Goto(t, "rInsert")
  /\ UNCHANGED <<lists, switch, regs, all, masked, pending, loc>>

(* prvAddTaskToReadyQueueCore: the test of uxTopReadyPriority, the store,   *)
(* the insertion.                                                           *)
ResumeRaise(c, t) ==
  LET above == Priority[loc[t].task] > top[loc[t].core] IN
  /\ At(c, t, "rRaise")
  /\ Goto(t, IF above THEN "rStore" ELSE "rInsert")
  /\ UNCHANGED <<lists, switch, regs, all, masked, pending, loc>>

ResumeStore(c, t) ==
  /\ At(c, t, "rStore")
  /\ top' = [top EXCEPT ![loc[t].core] = Priority[loc[t].task]]
  /\ Goto(t, "rInsert")
  /\ UNCHANGED <<lists, current, lock, irq, scan, regs, all, masked, pending,
                 loc>>

(* Mutant: the list is indexed by the core's top priority, not the task's.   *)
ResumeInsertAtTop(c, t) ==
  /\ At(c, t, "rInsert")
  /\ ready' = [ready EXCEPT ![top[loc[t].core]] = Append(@, loc[t].task)]
  /\ Goto(t, "rYield")
  /\ UNCHANGED <<suspended, switch, regs, all, masked, pending, loc>>

ResumeInsert(c, t) ==
  /\ At(c, t, "rInsert")
  /\ InsertReady(loc[t].task)
  /\ Goto(t, "rYield")
  /\ UNCHANGED <<suspended, switch, regs, all, masked, pending, loc>>

(* A yield of that core if the task is at least as important as what it     *)
(* runs, and taskEXIT_CRITICAL.                                             *)
ResumeYield(c, t) ==
  LET k == loc[t].core
      p == Priority[loc[t].task]
  IN
  /\ At(c, t, "rYield")
  /\ \/ /\ current[k] \in Tasks
        /\ IF p >= Priority[current[k]] THEN portYIELD_CORE(c, k)
                                         ELSE UNCHANGED pending
        /\ Return(t)
        /\ Unmask(c)
        /\ UNCHANGED irq
     \/ /\ current[k] = NoTask
        /\ Halt(c)
        /\ UNCHANGED <<pc, loc, masked, pending>>
  /\ UNCHANGED <<lists, current, top, lock, scan, regs, all>>

(* taskYIELD().                                                             *)
Yield(c, t) ==
  /\ At(c, t, "run")
  /\ t \in Yielders
  /\ portYIELD_CORE(c, c)
  /\ UNCHANGED <<lists, switch, regs, all, masked, pc, loc>>

-----------------------------------------------------------------------------
(* vTaskSuspendAll and xTaskResumeAll, around a section that walks lists.   *)

(* ++uxSchedulerSuspended is a load and a store.                            *)
SuspendAllLoad(c, t) ==
  /\ At(c, t, "run")
  /\ t \in Lockers
  /\ suspendAll < MaxSuspendAll
  /\ loc' = [loc EXCEPT ![t].count = suspendAll + 1]
  /\ Goto(t, "aStore")
  /\ UNCHANGED <<lists, switch, regs, all, masked, pending>>

SuspendAllStore(c, t) ==
  /\ At(c, t, "aStore")
  /\ suspendAll' = loc[t].count
  /\ Goto(t, "locked")
  /\ UNCHANGED <<lists, switch, regs, missedYield, masked, pending, loc>>

(* configASSERT( uxSchedulerSuspended ), taskENTER_CRITICAL and the load.   *)
ResumeAllLoad(c, t) ==
  /\ At(c, t, "locked")
  /\ \/ /\ suspendAll # 0
        /\ loc' = [loc EXCEPT ![t].count = suspendAll - 1]
        /\ Goto(t, "aDrop")
        /\ Mask(c)
        /\ UNCHANGED irq
     \/ /\ suspendAll = 0
        /\ Halt(c)
        /\ UNCHANGED <<loc, pc, masked>>
  /\ UNCHANGED <<lists, current, top, lock, scan, regs, all, pending>>

ResumeAllStore(c, t) ==
  /\ At(c, t, "aDrop")
  /\ suspendAll' = loc[t].count
  /\ Goto(t, "aTest")
  /\ UNCHANGED <<lists, switch, regs, missedYield, masked, pending, loc>>

(* With the scheduler released, a yield missed meanwhile, or a tick (free   *)
(* here: uxMissedTicks belongs to the tick module), yields THIS core.       *)
ResumeAllYield(c, t) ==
  /\ At(c, t, "aTest")
  /\ \E ticked \in BOOLEAN :
       IF suspendAll = 0 /\ (ticked \/ missedYield)
       THEN missedYield' = FALSE /\ portYIELD_CORE(c, c)
       ELSE UNCHANGED <<missedYield, pending>>
  /\ Return(t)
  /\ Unmask(c)
  /\ UNCHANGED <<lists, switch, regs, suspendAll>>

-----------------------------------------------------------------------------
(* The yield interrupt: vPortInterruptContext, vPortYieldFromISR and        *)
(* vTaskSwitchContext.                                                      *)

(* The GIC delivers one pending SGI; the registers go to the stack of the   *)
(* task pxCurrentTCB names.                                                 *)
InterruptEnter(c) ==
  /\ irq[c] = "none" /\ ~masked[c]
  /\ \E k \in pending[c] : pending' = [pending EXCEPT ![c] = @ \ {k}]
  /\ stack' = [stack EXCEPT ![current[c]] = live[c]]
  /\ live' = [live EXCEPT ![c] = NoTask]
  /\ irq' = [irq EXCEPT ![c] = "spin"]
  /\ UNCHANGED <<lists, current, top, lock, scan, all, masked, pc, loc>>

(* Mutants: the lock is taken without waiting for it; the scheduler being    *)
(* suspended is not looked at.                                              *)
SwitchLockUnguarded(c) ==
  /\ irq[c] = "spin"
  /\ lock' = c
  /\ irq' = [irq EXCEPT ![c] = IF suspendAll # 0 THEN "miss" ELSE "count"]
  /\ UNCHANGED <<lists, current, top, scan, regs, all, masked, pending, pc, loc>>
SwitchLockAlways(c) ==
  /\ irq[c] = "spin"
  /\ lock = Free
  /\ lock' = c
  /\ irq' = [irq EXCEPT ![c] = "count"]
  /\ UNCHANGED <<lists, current, top, scan, regs, all, masked, pending, pc, loc>>

(* __spin_lock( &schedulerLock ), and the test of uxSchedulerSuspended.     *)
SwitchLock(c) ==
  /\ irq[c] = "spin"
  /\ lock = Free
  /\ lock' = c
  /\ irq' = [irq EXCEPT ![c] = IF suspendAll # 0 THEN "miss" ELSE "count"]
  /\ UNCHANGED <<lists, current, top, scan, regs, all, masked, pending, pc, loc>>

(* The scheduler is suspended: note the missed yield and unlock.            *)
SwitchMiss(c) ==
  /\ irq[c] = "miss"
  /\ missedYield' = TRUE
  /\ lock' = Free
  /\ irq' = [irq EXCEPT ![c] = "exit"]
  /\ UNCHANGED <<lists, current, top, scan, regs, suspendAll, masked, pending,
                 pc, loc>>

(* Mutant: while( --numberOfTasks ) in place of while( numberOfTasks-- ).    *)
ScanCountOneLess(c) ==
  LET n == Len(ready[top[c]]) IN
  /\ irq[c] = "count"
  /\ scan' = [scan EXCEPT ![c].level = top[c], ![c].n = IF n = 0 THEN 0 ELSE n - 1]
  /\ irq' = [irq EXCEPT ![c] = "next"]
  /\ UNCHANGED <<lists, current, top, lock, regs, all, masked, pending, pc, loc>>

(* pxList and numberOfTasks for the level uxTopReadyPriority[ core ] names. *)
ScanCount(c) ==
  /\ irq[c] = "count"
  /\ scan' = [scan EXCEPT ![c].level = top[c], ![c].n = Len(ready[top[c]])]
  /\ irq' = [irq EXCEPT ![c] = "next"]
  /\ UNCHANGED <<lists, current, top, lock, regs, all, masked, pending, pc, loc>>

(* Mutant: the first task of the level is taken, whoever runs it.            *)
ScanNextUnchecked(c) ==
  LET p == scan[c].level IN
  /\ irq[c] = "next"
  /\ scan[c].n > 0
  /\ ready[p] # <<>>
  /\ Rotate(p)
  /\ scan' = [scan EXCEPT ![c].n = @ - 1, ![c].pick = Head(ready[p])]
  /\ irq' = [irq EXCEPT ![c] = "pick"]
  /\ UNCHANGED <<suspended, current, top, lock, regs, all, masked, pending, pc,
                 loc>>

(* One turn of the inner loop: rotate the list, take the task unless the    *)
(* other core runs it.                                                      *)
ScanNext(c) ==
  LET p == scan[c].level
      x == Head(ready[p])
  IN
  /\ irq[c] = "next"
  /\ scan[c].n > 0
  /\ ready[p] # <<>>
  /\ Rotate(p)
  /\ IF x # current[Other(c)]
     THEN /\ scan' = [scan EXCEPT ![c].n = @ - 1, ![c].pick = x]
          /\ irq' = [irq EXCEPT ![c] = "pick"]
     ELSE /\ scan' = [scan EXCEPT ![c].n = @ - 1]
          /\ UNCHANGED irq
  /\ UNCHANGED <<suspended, current, top, lock, regs, all, masked, pending, pc,
                 loc>>

(* The list was emptied by the other core after it was counted: the owner   *)
(* read is not an item's but the word after the list, the length of the     *)
(* next one: NULL ends the loop, any other value is taken for a TCB.        *)
ScanEmptied(c) ==
  LET p == scan[c].level
      wild == IF p + 1 \in Levels THEN {ready[p + 1] # <<>>} ELSE BOOLEAN
  IN
  /\ irq[c] = "next"
  /\ scan[c].n > 0
  /\ ready[p] = <<>>
  /\ scan' = [scan EXCEPT ![c].n = 0, ![c].pick = NoTask]
  /\ \E w \in wild : irq' = [irq EXCEPT ![c] = IF w THEN "pick" ELSE "next"]
  /\ UNCHANGED <<lists, current, top, lock, regs, all, masked, pending, pc, loc>>

(* Mutant: configASSERT compiled out.                                        *)
ScanExhaustedUnasserted(c) ==
  /\ irq[c] = "next"
  /\ scan[c].n = 0
  /\ scan' = [scan EXCEPT ![c].level = top[c]]
  /\ irq' = [irq EXCEPT ![c] = "lower"]
  /\ UNCHANGED <<lists, current, top, lock, regs, all, masked, pending, pc, loc>>

(* Nothing at this level: configASSERT( uxTopReadyPriority ), and the load  *)
(* of --uxTopReadyPriority.                                                 *)
ScanExhausted(c) ==
  /\ irq[c] = "next"
  /\ scan[c].n = 0
  /\ scan' = [scan EXCEPT ![c].level = top[c]]
  /\ irq' = [irq EXCEPT ![c] = IF top[c] = 0 THEN "halt" ELSE "lower"]
  /\ UNCHANGED <<lists, current, top, lock, regs, all, masked, pending, pc, loc>>

(* Mutant: the level is not lowered.                                         *)
ScanLowerStuck(c) ==
  /\ irq[c] = "lower"
  /\ irq' = [irq EXCEPT ![c] = "count"]
  /\ UNCHANGED <<lists, current, top, lock, scan, regs, all, masked, pending, pc,
                 loc>>

(* The store of --uxTopReadyPriority.                                       *)
ScanLower(c) ==
  /\ irq[c] = "lower"
  /\ top' = [top EXCEPT ![c] = scan[c].level - 1]
  /\ irq' = [irq EXCEPT ![c] = "count"]
  /\ UNCHANGED <<lists, current, lock, scan, regs, all, masked, pending, pc, loc>>

(* Mutant: the way out that switched forgets __spin_unlock.                   *)
SwitchPickKeepsLock(c) ==
  /\ irq[c] = "pick"
  /\ current' = [current EXCEPT ![c] = scan[c].pick]
  /\ irq' = [irq EXCEPT ![c] = "exit"]
  /\ UNCHANGED <<lists, top, lock, scan, regs, all, masked, pending, pc, loc>>

(* pxCurrentTCB[ core ] = pxTempTCB, and __spin_unlock.                     *)
SwitchPick(c) ==
  /\ irq[c] = "pick"
  /\ current' = [current EXCEPT ![c] = scan[c].pick]
  /\ lock' = Free
  /\ irq' = [irq EXCEPT ![c] = "exit"]
  /\ UNCHANGED <<lists, top, scan, regs, all, masked, pending, pc, loc>>

(* End of interrupt: the registers are those saved on the stack of the task *)
(* pxCurrentTCB names now.                                                  *)
InterruptExit(c) ==
  /\ irq[c] = "exit"
  /\ \/ /\ current[c] \in Tasks
        /\ live' = [live EXCEPT ![c] = stack[current[c]]]
        /\ stack' = [stack EXCEPT ![current[c]] = NoTask]
        /\ irq' = [irq EXCEPT ![c] = "none"]
     \/ /\ current[c] = NoTask
        /\ Halt(c)
        /\ UNCHANGED regs
  /\ scan' = [scan EXCEPT ![c] = [level |-> 0, n |-> 0, pick |-> NoTask]]
  /\ UNCHANGED <<lists, current, top, lock, all, masked, pending, pc, loc>>

-----------------------------------------------------------------------------
(* The state the boot leaves: every task ready, each core running the last  *)
(* created of the most important tasks it created.                          *)
Orders(S) == {s \in [1 .. Cardinality(S) -> S] : IsInjective(s)}

Init ==
  /\ current \in [Cores -> Tasks]
  /\ \A c \in Cores :
       /\ current[c] \in CreatedOn(c)
       /\ \A t \in CreatedOn(c) : Priority[t] <= Priority[current[c]]
  /\ ready \in [Levels -> UNION {Orders({t \in Tasks : Priority[t] = p}) :
                                   p \in Levels}]
  /\ \A p \in Levels : ready[p] \in Orders({t \in Tasks : Priority[t] = p})
  /\ suspended = {}
  /\ top = [c \in Cores |-> Priority[current[c]]]
  /\ lock = Free
  /\ suspendAll = 0 /\ missedYield = FALSE
  /\ live = current
  /\ stack = [t \in Tasks |-> IF t \in {current[0], current[1]} THEN NoTask
                                                                  ELSE t]
  /\ masked = [c \in Cores |-> FALSE]
  /\ pending = [c \in Cores |-> {}]
  /\ irq = [c \in Cores |-> "none"]
  /\ scan = [c \in Cores |-> [level |-> 0, n |-> 0, pick |-> NoTask]]
  /\ pc = [t \in Tasks |-> "run"]
  /\ loc = [t \in Tasks |-> NoLocals]

TaskStep(c, t) ==
  \/ \E x \in Tasks \cup {NoTask}, k \in Cores :
       <<t, x, k>> \in SuspendCalls /\ SuspendEnter(c, t, x, k)
  \/ SuspendReread(c, t) \/ SuspendRemove(c, t)
  \/ SuspendInsert(c, t) \/ SuspendYield(c, t)
  \/ \E x \in Tasks, k \in Cores :
       <<t, x, k>> \in ResumeCalls /\ ResumeCheck(c, t, x, k)
  \/ ResumeTest(c, t) \/ ResumeRemove(c, t)
  \/ ResumeRaise(c, t) \/ ResumeStore(c, t)
  \/ ResumeInsert(c, t) \/ ResumeYield(c, t)
  \/ Yield(c, t)
  \/ SuspendAllLoad(c, t) \/ SuspendAllStore(c, t)
  \/ ResumeAllLoad(c, t) \/ ResumeAllStore(c, t) \/ ResumeAllYield(c, t)

InterruptStep(c) ==
  \/ InterruptEnter(c)
  \/ SwitchLock(c) \/ SwitchMiss(c)
  \/ ScanCount(c) \/ ScanNext(c) \/ ScanEmptied(c) \/ ScanExhausted(c)
  \/ ScanLower(c) \/ SwitchPick(c)
  \/ InterruptExit(c)

Next == \E c \in Cores : InterruptStep(c) \/ \E t \in Tasks : TaskStep(c, t)

Spec == Init /\ [][Next]_vars

-----------------------------------------------------------------------------
(* Properties.                                                              *)

Switching == {"spin", "miss", "count", "next", "lower", "pick", "exit"}
Holding == {"miss", "count", "next", "lower", "pick"}
Critical == {"sReread", "sRemove", "sInsert", "rRemove", "rRaise", "rStore",
             "rInsert", "rYield", "aDrop", "aTest"}
Scans == [level : Levels, n : Nat, pick : Tasks \cup {NoTask}]
Locals == [task : Tasks \cup {NoTask}, core : Cores, self : BOOLEAN, count : Int]
PCs == Critical \cup {"run", "sYield", "rTest", "aStore", "locked"}

(* Every variable keeps its type: in particular the level being scanned     *)
(* never goes below the array of ready lists (the assertion on              *)
(* uxTopReadyPriority guards the decrement).                                *)
TypeOK ==
  /\ current \in [Cores -> Tasks \cup {NoTask}]
  /\ ready \in [Levels -> Seq(Tasks)]
  /\ suspended \in SUBSET Tasks
  /\ top \in [Cores -> Levels]
  /\ lock \in Cores \cup {Free}
  /\ suspendAll \in Int /\ missedYield \in BOOLEAN
  /\ live \in [Cores -> Tasks \cup {NoTask}]
  /\ stack \in [Tasks -> Tasks \cup {NoTask}]
  /\ masked \in [Cores -> BOOLEAN]
  /\ pending \in [Cores -> SUBSET Cores]
  /\ irq \in [Cores -> Switching \cup {"none", "halt"}]
  /\ scan \in [Cores -> Scans]
  /\ pc \in [Tasks -> PCs]
  /\ loc \in [Tasks -> Locals]

(* The two cores are never given the same task: the reason for              *)
(* schedulerLock and for the comparison with the other core's pxCurrentTCB  *)
(* in vTaskSwitchContext, although each core stores its choice only after   *)
(* the scan.                                                                *)
NoSharedTask == current[0] = current[1] => current[0] = NoTask

(* Saving to and restoring from the stack of "the current task" around the  *)
(* switch never loses, duplicates or crosses a register context: a task is  *)
(* either live on exactly the core whose pxCurrentTCB names it, or its own  *)
(* context is saved on its own stack.                                       *)
ContextIntact ==
  /\ \A c \in Cores : irq[c] = "none" => live[c] = current[c]
  /\ \A t \in Tasks : /\ stack[t] \in {t, NoTask}
                      /\ stack[t] = NoTask <=> \E c \in Cores : live[c] = t

(* A core owns schedulerLock exactly while it is between __spin_lock and    *)
(* __spin_unlock, on both paths of vTaskSwitchContext; so no core ever      *)
(* spins on a lock it holds itself.                                         *)
LockOwner ==
  \A c \in Cores : /\ irq[c] \in Holding => lock = c
                   /\ lock = c => irq[c] \in Holding \cup {"halt"}

(* A task inside a critical section is on a core, and that core's yield is  *)
(* masked: uxCriticalNesting is only ever counted in the TCB of the task    *)
(* that entered.  No core stays masked once its task has left.              *)
CriticalPinned ==
  /\ \A t \in Tasks : pc[t] \in Critical =>
       \E c \in Cores : live[c] = t /\ masked[c]
  /\ \A c \in Cores : masked[c] => /\ live[c] \in Tasks
                                   /\ pc[live[c]] \in Critical

(* The task of a call that took the generic item off its list and has not   *)
(* inserted it yet.                                                         *)
Holds(u, t) == /\ pc[u] \in {"sInsert", "rRaise", "rStore", "rInsert"}
               /\ loc[u].task = t

(* However the calls of the two cores interleave, a task is on exactly one  *)
(* list, once, at its own priority, or in the hands of exactly one call     *)
(* that is moving it.                                                       *)
OneHome ==
  /\ \A p \in Levels : /\ IsInjective(ready[p])
                       /\ \A t \in ToSet(ready[p]) : Priority[t] = p
  /\ \A t \in Tasks :
       LET holders == {u \in Tasks : Holds(u, t)} IN
       IF OnList(t) THEN ~(IsReady(t) /\ t \in suspended) /\ holders = {}
                    ELSE Cardinality(holders) = 1

(* No core ends in an assertion or an abort.                                *)
NoHalt == \A c \in Cores : irq[c] # "halt"

(* A yield of core c is still to come: pending, under way, or about to be   *)
(* requested by the call that suspended a task there.                       *)
YieldComing(c) ==
  \/ pending[c] # {} \/ irq[c] # "none"
  \/ \E t \in Tasks : pc[t] = "sYield" /\ loc[t].core = c

(* A suspended task does not keep its core: task.h promises it never gets   *)
(* any processing time.                                                     *)
SuspendedStops == \A c \in Cores : current[c] \in suspended => YieldComing(c)

(* Only tasks that some vTaskSuspend() call names are ever suspended.       *)
OnlyNamed == suspended \subseteq {call[2] : call \in SuspendCalls}

(* Once every call and switch is over, no ready task is out of sight of     *)
(* both cores' uxTopReadyPriority: the next yield can still find it.        *)
Quiet == /\ \A c \in Cores : irq[c] = "none" /\ pending[c] = {}
         /\ \A t \in Tasks : pc[t] = "run"
NoForgotten ==
  Quiet => \A t \in Tasks : IsReady(t) /\ t \notin {current[0], current[1]} =>
             \E c \in Cores : top[c] >= Priority[t]

(* And none of them is more important than what both cores run.             *)
HighestRuns ==
  Quiet => \A t \in Tasks : IsReady(t) /\ t \notin {current[0], current[1]} =>
             \E c \in Cores : Priority[current[c]] >= Priority[t]

(* Between vTaskSuspendAll() and xTaskResumeAll() the caller is not swapped *)
(* out.                                                                     *)
LockedRuns ==
  \A t \in Tasks : pc[t] = "locked" => \E c \in Cores : current[c] = t

(* Each core executes its interrupt handler to the end.  WF is all the      *)
(* hardware gives: nothing makes the ldrex/strex loop of __spin_lock fair.  *)
FairSpec == Spec /\ \A c \in Cores : WF_vars(InterruptStep(c))

(* The scan holds schedulerLock while the other core's calls empty the list  *)
(* it has counted, put tasks into the lists it walks and raise the level it  *)
(* has lowered, and nothing bounds its turns.  It ends all the same, with    *)
(* the lock given back or in the assertion on uxTopReadyPriority: what the   *)
(* other core runs while the lock is held may not both suspend and resume    *)
(* the same task, and it needs the lock to switch to a task that does.       *)
ScanEnds == \A c \in Cores : (lock = c) ~> (lock # c \/ irq[c] = "halt")
=============================================================================

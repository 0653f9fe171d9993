# A verification of FROMA, a dual-core FreeRTOS

FROMA is FreeRTOS V7.0 made to run on both Cortex-A9 cores of a PandaBoard: one
kernel image, one set of task lists, two cores that schedule from it. This
directory models the kernel, its boot, its heap, its serial port and its shell
in TLA+, checks the models with TLC and proves theorems about them with TLAPS.

Only the code decides what a module says. The build is that of `src/Makefile`
with `src/kernel/include/FreeRTOSConfig.h`: preemption, ten priorities, 32-bit
ticks at 10000 Hz (the count wraps after some five days), mutexes and counting
semaphores, `vTaskSuspend`, the delays, `vTaskPrioritySet`, the assertion
`configASSERT`, an 8 MB `heap_2.c`. Off in that build, and modelled as their
options would build them: software timers, co-routines, the alternative queue
API, `vTaskDelete`.

## The system

| part | code | state | operations |
|---|---|---|---|
| scheduler | `source/tasks.c` | per core `pxCurrentTCB`, `uxTopReadyPriority`, `xTickCount`; shared: the ready, delayed, suspended and pending lists, `uxSchedulerSuspended`, `xMissedYield`, `uxMissedTicks`, `schedulerLock` | create, suspend, resume, delay, priority, delete, suspend all, switch, tick |
| lists | `source/list.c`, `list.h` | a ring of items with an end marker, a walking index, a length; each item's container | insert at the end, insert in order, remove, walk, head |
| port | `kernel/board/port.c`, `portmacro.h`, `kernel/sync/spinlock.h` | each core's registers, priority mask and pending interrupts; a context on each task's stack; the handler table | save, switch, restore; yield by software interrupt (SGI); mask; spin lock; install a handler |
| boot | `startup.S`, `port.c:_init`, `kernel/main.c` | the two flags of `main.c`, `xSchedulerRunning` | start both cores, create their tasks, start the scheduler |
| queues | `source/queue.c` | ring buffer, two event lists, two lock counts, the mutex holder | send, receive, peek, from interrupts, recursive mutex, semaphores |
| heap | `kernel/mm/heap_2.c` | free blocks sorted by size, bytes left | malloc, free |
| application | `kernel/app/shell.c`, `apps.c` | the command line; which task is suspended on which core | shell commands; prime-number tasks on one or two cores |
| UART | `kernel/uart/omap4_uart.c` | device registers, one lock for strings and one for characters | put, get |
| timers | `source/timers.c` | two lists of timers, a queue of commands | start, reset, stop, change of period, delete |
| co-routines | `source/croutine.c`, `croutine.h` | ready, delayed and pending lists of their own, `uxState` | create, schedule, delay, send, receive |

How they interact. A task calls the scheduler, the scheduler moves its TCB
between lists and asks for a context switch by sending a yield SGI to a core.
When the core takes it, the port saves the registers on the stack of
`pxCurrentTCB[core]`, `vTaskSwitchContext` chooses a task under
`schedulerLock`, and the port restores the registers of the task
`pxCurrentTCB[core]` names then. The timer interrupt of core 1 counts a tick
and never switches. Queues block and wake tasks through event lists, while the
scheduler is suspended. The shell runs the `prime` and `primeSMP` commands by
suspending itself and the task that stands for the idle task of core 1, and the
prime-number tasks resume them. All of them print through one UART.

What is hard. *Two cores with single-core protection:* a critical section masks
interrupts of its own core; the only kernel lock, `schedulerLock`, is held only
in `vTaskSwitchContext`. *Shared counters that are not atomic*
(`uxSchedulerSuspended`, `uxTopReadyPriority`, `uxMissedTicks`). *State read
twice or outside the section* (`vTaskSuspend`, `vTaskResume`). *One flag for two
cores* (`xMissedYield`). *Clocks:* each core reads its own tick count and only
one advances. *Wrap-around, lock counts and time-outs* in delays, timers and
queues. *Start-up:* both cores zero `.bss` and share every list. `PROJECT.json`
lists these under `hazards`, at their lines, with the properties that watch
each.

## Modules

| module | what it is | composed with |
|---|---|---|
| `FromaSched` | suspend, resume, suspend-all and the switch, on two cores, access by access | |
| `FromaBoot` | from reset to both cores' first task | ends in a state of `FromaSched!Init` |
| `FromaTick` | ticks, delays, time-outs, on two cores, access by access | |
| `FromaQueue` | queues, semaphores, mutexes; event lists, inheritance, deletion | implements `FromaQueueSpec` |
| `FromaQueueSpec` | bounded sequences of messages | |
| `FromaList` | `list.c` with its pointers | implements `FromaListSpec`; `FromaListUse` holds what both share |
| `FromaListSpec` | lists as sequences | |
| `FromaHeap` | `heap_2.c` | implements `FromaHeapSpec` |
| `FromaHeapSpec` | disjoint, aligned memory | |
| `FromaTimers` | the timer task and its clients | |
| `FromaCoRoutines` | the co-routine scheduler and its queues | |
| `FromaSerial` | UART driver, shell, prime tasks | |
| `FromaWithout` | a list that several items leave at once | used by `FromaQueue`, `FromaTimers`, `FromaCoRoutines` |
| `FromaSchedProofs`, `FromaListBootProofs`, `FromaHeapSerialProofs`, `FromaQueueProofs`, `FromaTickProofs`, `FromaCoRoutinesProofs`, `FromaTimersProofs` | the theorems about each component, or about two that share nothing | |
| `FromaSequences` | lemmas about lists and wrapping times that they share | |
| `MC…` | instances for TLC: tasks, calls, bounds | |

### FromaSched

One action is one access to shared memory that the other core can observe, with
the core-local work around it: `++uxSchedulerSuspended` is a load and a store,
the two reads of `pxCurrentTCB` in `vTaskSuspend` are two actions, the test and
the store of `uxTopReadyPriority` in `vTaskResume` too, and each list
operation is one (its inside is the subject of `FromaList`).

| variable | in the code |
|---|---|
| `current` | `pxCurrentTCB[core]` |
| `ready`, `suspended` | `pxReadyTasksLists`, each from the entry after `pxIndex`; the members of `xSuspendedTaskList` |
| `top` | `uxTopReadyPriority[core]` |
| `lock` | `schedulerLock` and, beyond it, who holds it |
| `suspendAll`, `missedYield` | `uxSchedulerSuspended`, `xMissedYield` |
| `live`, `stack` | whose registers a core holds, whose context lies on each task's stack |
| `masked`, `pending` | the core's GIC priority mask; its pending yield SGIs, by sending core |
| `irq`, `scan` | where the core is in the yield interrupt, the locals of `vTaskSwitchContext` |
| `pc`, `loc` | where each task is in the kernel call it makes, that call's locals |

`SuspendEnter … SuspendYield` are `vTaskSuspend`; `ResumeCheck … ResumeYield`
are `vTaskResume`; `SuspendAllLoad/Store`, `ResumeAllLoad/Store/Yield` are
`vTaskSuspendAll` and `xTaskResumeAll`; `Yield` is `taskYIELD`;
`InterruptEnter`, `SwitchLock` … `SwitchPick`, `InterruptExit` are the yield
interrupt. Which calls are made is a parameter: sets of (caller, handle, core),
in any order, any number of times. Where it stops: an assertion and the load
after it are one access; a wild pointer or a failed assertion halts the core, as
the handlers do; no queue, no delay and no change of priority is here; critical
sections do not nest, so `uxCriticalNesting` is the mask; the pending test of
`portYIELD_CORE` looks at SGI 0 while the yield is SGI 1, so it is always sent.

### FromaBoot

Each core's program as a sequence of steps from `Reset_Handler`: `.bss` zeroed
by both, `main` and `secondary_main` with their two flags, `xTaskGenericCreate`
in its parts (the lists are initialised by whichever core is first), the
installation of handlers with the GIC's priority registers (four vectors to a
register, banked per core), `vTaskStartScheduler`, and the SVC that restores the
first task. `bss` holds the kernel's variables, so that zeroing `.bss` wipes
them; `gic` and `pmr` are registers, which it does not. Core 1 may be as late as
it likes with its zeroing; `wiped` remembers that it zeroed something that was
not zero. Nothing in the code prevents that, and what comes of it is not
followed up: `HandsOver`, which says that the end of the boot satisfies `Init` of
`FromaSched`, and `BothRun` are about the boots in which it does not happen.

### FromaTick

Core 1 takes the tick interrupt, core 0 makes the calls; a step is one access,
or one list operation. `prvCheckDelayedTasks` and the wrap of the count are cut
up so: the look at the list, the head (`HeadRead`, into `hand`, which is
`pxTCB`), its value, the comparison, the removal (`Unlist`), the insertion
(`MakeReady`), the store of `xNextTaskUnblockTime`. Both cores may be in there at
once after a wrap; when one removes an item that is on no list, or takes the head
of an empty list, what it writes is no longer the kernel's (`clashed`), and the
model ends. Event lists are left to `FromaQueue`.
Times are unbounded numbers that the code sees only modulo `Width`, so a
property can tell a time from the one a wrap later. The interrupt counts in
`xTickCount[0]` but looks for sleepers with `xTickCount[1]`, so nobody is woken
by it: delayed tasks wake when a task resumes the scheduler and unwinds the
missed ticks.

### FromaQueue

One core, as the code can be used: `queue.c` masks interrupts of its own core
and takes no lock. A critical section is one step; interrupts come between any
two. `queue` has the fields of `xQUEUE` (with the mutex's holder and recursive
count), `blocked` the two event lists of each queue, `home` the list the generic
item of each task is on, `pc` and `loc` the place in a call: look, suspend the
scheduler, lock the queue, look again, inherit, wait, unlock each half, resume
the scheduler, try again. The alternative API waits in two critical sections
instead. Time is abstract: a bounded wait may be over at any resumption of the
scheduler. `vTaskPrioritySet`, `vTaskSuspend`, `vTaskResume`,
`xTaskResumeFromISR` and `vTaskDelete` interfere with tasks as they wait; the
idle task frees the deleted ones.

### FromaList, FromaHeap

`FromaList` has the pointers as `list.c` sets them, with its quirks: a removed
item keeps its pointers, an index on a removed item moves back, `vListInsert`
treats `portMAX_DELAY` apart, the walk steps over the end marker. `vTaskList`
and `vTaskGetRunTimeStats` walk whole lists and leave the index where it was,
having taken one turn. `FromaHeap` has block addresses and sizes in bytes, the
chain sorted by size, the split of a block when the rest is large enough. Both
are one caller at a time: `vTaskSuspendAll` around the heap does not exclude the
other core, which in this system allocates during the hand-shake only.

### FromaTimers, FromaCoRoutines

The timer task is a loop of steps between which clients, interrupts and ticks
come; its command queue is a bounded sequence. A client that has commanded a
deletion uses the timer no more, but a restart of the timer task's own may be
queued behind it: it is obeyed like any other, on freed memory, which keeps its
contents until somebody else allocates it (`vPortFree` writes to the header of the
block only), as nobody does in the model. `revived` remembers these timers. The
co-routine scheduler is one
thread that interrupts interleave with at every point where they are enabled,
the `portNOP` window of `xQueueCRSend` and `xQueueCRReceive` among them. A sender
blocks with interrupts enabled: `xQueueCRSend` disables them, but the test for
room is `prvIsQueueFull`, a critical section of its own, whose end enables them
(`queue.c:1236`, `tasks.c:2552-2566`). So the test, the delay and each step of
`vListInsert` are actions of their own, and an interrupt that takes a message may
come between any two: before the sender is counted in its list it wakes nobody
(`late` records it), and where it removes an entry that `vListInsert` holds on to
(`Tears`) the list is no longer followed (`torn`), and the properties stop. An
interrupt posts one item at a time: posting twice before the scheduler runs
wakes one co-routine only, as `croutine.h` documents.

### FromaSerial

A step is one access to a lock or a UART register, or a scheduler call. Strings
take `uartLock`, characters `uartMiniLock`. The shell's editor and all its
commands are there, and both prime tasks; core 1 prints only while `IDLE1` is
suspended (`primeSMP`). `screen` and `sent` are histories: what the terminal
shows of the shell's echo since the last prompt, and which strings have begun.

## Runs

| run | asks | instance | holds | distinct states |
|---|---|---|---|---|
| `SchedRace` | do two cores keep tasks, contexts, lists, lock and masks intact, and does every scan end? | 3 tasks, 2 levels; suspends and resumes across cores, NULL handles, one yielder, one holder of the scheduler | `TypeOK`, `NoSharedTask`, `ContextIntact`, `LockOwner`, `CriticalPinned`, `OneHome`, `LockedRuns`, `ScanEnds` | 772,992 |
| `SchedOneCore` | is the API right when one core makes all calls, about its own tasks? | 4 tasks, 4 levels; core 1 rotates the list of its one task | `NoHalt`, `SuspendedStops`, `HighestRuns` | 16,317 |
| `Lists` | do the pointers implement the sequences? | 3 items, one list of each use, 3 values | `WellFormed`, `PromiseKept` | 53,735 up to symmetry |
| `Heap` | does the heap hand out disjoint memory? | 168 bytes, alignment 8, header 16, six sizes | `OnceEach`, `Apart`, `PromiseKept` | 2,177 |
| `Queue` | is a queue a bounded sequence that loses no wake-up? | a queue of two, 3 tasks, interrupts at both ends, every kind of wait, the alternative API, a suspension, a priority change | `NoLostWakeup`, `LockedAlone`, `OneWait`, `HighestRuns`, `PromiseKept` | 1,639,120 |
| `Mutex` | does inheritance hold and end? | a recursive mutex and a semaphore, 3 tasks of 3 priorities, time-outs, deletions | `NoInversion`, `Restored` | 1,078,751 |
| `Tick` | do lists, missed ticks, delays, periods and time-outs survive the other core? | 2 tasks, 2-bit ticks | `OneHome`, `TicksKept`, `NextCovered`, `PeriodKept`, `TimesOutRight`, `NeverEarly` | 4,816,213 |
| `Timers` | are timers listed once, in their cycle, and never early? | 2 timers, ticks modulo 5, a queue of two | `ListedOnce`, `InOwnCycle`, `NeverEarly` | 8,246,161 |
| `Boot` | do both cores come up, with all that a core needs? | the application's tasks and five vectors | `HandsOver`, `BothRun` | 2,812 |
| `Serial` | what reaches the screen? | 5 keys, two letters, a buffer of 3, six commands | `NeverMixed`, `ShowsBuffer`, `LostAcrossLocks` | 899,904 |
| `CoRoutines` | do co-routines wake, once and in time? | 3 co-routines, a queue of one, ticks modulo 4 | `OneHome`, `NoLostWakeup`, `OnTime` | 3,668,392 |
| `LostResume` | is one resume enough? (`task.h:746`) | one suspend, one later resume from the other core | violated: `ResumeTakes` | |

What the properties say, and why they are not obvious, stands above each of
them in its module.

*Bounds.* Two cores are all the hardware has. Three tasks are the fewest in
which one is left over to be resumed, stolen, forgotten, or to wait behind two
others; only the order of priorities matters, so ten levels become two to four.
`MaxSuspendAll` bounds `uxSchedulerSuspended`. In lists, three items are enough
for one to enter between two others, behind an equal, and for the index to stand
on a removed one. The heap holds up to five blocks, with rests just too small
and just large enough for a block. `MaxLock` bounds the lock counts of a queue
by its capacity, beyond which a count means no more; `MaxNesting` is one more
than the first recursive take. Tick counts are two bits wide or modulo 5 so that
a few ticks reach the wrap and, in timers and co-routines, cross it; `MaxInterrupts`, `MaxTicks`, `MaxAhead`, `MaxLate`, `MaxLag` end the
counting after a wrap and bound how far work may fall behind. A lag below one
cycle is what the code needs, too: a longer one it cannot see. The shell's buffer
of three is filled with one key to spare.

*Deadlock.* Checked where somebody can always move (lists, heap, queues,
co-routines, serial port); off where a halted or computing core takes no step
(`FromaSched`, `FromaBoot`) or where the clock's bound ends the run (`FromaTick`,
`FromaTimers`).

*Fairness.* `ScanEnds` assumes weak fairness of each core's interrupt
handler: interrupts are off in IRQ mode, so a core runs it to the end. `BothRun`
assumes weak fairness of each core's program: a core that can go on does.
Nothing makes the `ldrex`/`strex` loop of the spin lock fair between the cores,
and no strong fairness is assumed anywhere. All other properties are safety.

*Mutants.* Every property of a passing run has a mutant, a definition next to
the one it would replace, that breaks the code in a plausible way; TLC then
finds the property violated.

## Statements the code breaks

`LostResume` is a run of the project; `PROJECT.json` tells how it comes about.
The following configurations check what a comment, an assertion or the API
documentation says, and TLC finds each violated. They are kept to be run by hand
(`tlc -config X.cfg M`).

| configuration, module | statement | how it breaks |
|---|---|---|
| `AppSuspended`, `MCSched` | `task.h:693` a suspended task "will never get any microcontroller processing time" (`SuspendedStops`) | `vTaskSuspend` compares with `pxCurrentTCB` (`tasks.c:933`) before it takes the task off its list; the other core picks it in between and no yield is sent |
| `AppVictim`, `MCSched` | `task.h:700` the handle names the task suspended (`OnlyNamed`) | `pxCurrentTCB[xCoreID]` is read again (943); if the core has switched, another task is suspended |
| `AppHalt`, `MCSched` | `tasks.c:1058` "As we are in a critical section we can access the ready lists" (`NoHalt`) | the section masks one core; the other's calls remove the same item or empty a list under a scan |
| `OwnForgotten`, `MCSched` | `tasks.c:1066` the lists are left "in the correct state for the next yield" (`NoForgotten`) | the raise of `uxTopReadyPriority` falls between load and store of its decrement by the other core |
| `TwoLockers`, `MCSched` | `task.h:904` no "risk of being swapped out", `tasks.c:1192` no critical section needed (`LockedRuns`) | two increments of `uxSchedulerSuspended` overlap and one is lost |
| `MissedYield`, `MCSched` | `task.h:693` again | core 1's missed yield is consumed by `xTaskResumeAll` on core 0, which yields core 0 |
| `Clash`, `MCTick` | `list.h:304` "Remove an item from a list.  The list item has a pointer to the list that it is in" (`NoClash`) | at the wrap both cores come to `prvCheckDelayedTasks`, core 0 with a missed tick it unwinds, core 1 in its interrupt: both take the same head, or one takes the head of a list that the other has emptied or swapped away |
| `FreedListed`, `MCTimers` | `timers.c:529` "The timer has already been removed from the active list, just free up the memory." (`FreedUnlisted`) | the timer task restarts a timer that expired before it was started; the restart is queued behind a client's deletion and lists the freed timer |
| `SendWindow`, `MCCoRoutines` | `queue.c:1258` "A critical section is required to prevent an interrupt removing something from the queue between the check [...] and blocking", `croutine.c:219` "the function must be called with interrupts disabled" (`NothingRemoved`) | `prvIsQueueFull` enables interrupts at its end; a message is taken while the sender is on its way into the list, and nobody is woken |
| `EventOrder`, `MCQueue` | `queue.c:109-113` event lists are "Stored in priority order" (`InPriorityOrder`) | inheritance and `vTaskPrioritySet` change the value of an item in its list and sort nothing |
| `EarlyTimer`, `MCTimers` | `timers.h:303-304` a timer expires so many ticks after its start (`NotBeforeItsTime`) | one `xTimeNow` serves all commands of a round (`timers.c:477`); a later start looks as if the count had wrapped |
| `TicksSlip`, `MCTick` | `tasks.c:1234` "the tick count does not slip" (`NoSlip`) | `--uxMissedTicks` on core 0 overlaps with `++` on core 1 |
| `LeftBehind`, `MCTick` | the assertion at `tasks.c:1518` that nobody is left on the list at the wrap (`NoneLeftBehind`) | the tick interrupt wakes nobody, so that tasks due before the wrap are still listed |
| `ClockBack`, `MCBoot` | `tasks.c:1142` no tick comes before the scheduler starts (`NeverBack`) | core 1 takes ticks before core 0 sets `xTickCount[0]` to 0 |

Further things the models show, or had to be told:

- Core 1 may zero `.bss` after core 0 has begun to use it (`wiped`): then tasks,
  lists or flags are gone, and neither `HandsOver` nor `BothRun` need hold.
  Nothing in the code prevents it.
- Writing a vector's priority as a word leaves its three neighbours at 0, not
  maskable, until they are written; the loop of `prvSetupHardware` leaves three
  of every four so. Its targets argument is `portCORE_ID()`, not `1 << portCORE_ID()`.
- A mutex whose waiter's base priority is changed, or whose inheriting holder's
  is, may be held up by a less important task; the `Mutex` run changes none.
  When a holder that inherited gives the mutex back after its waiter timed out,
  it does not yield, though a more important task may be ready: `HighestRuns` is
  a property of the `Queue` run only.
- A task that was woken for an item and is deleted before it takes it leaves the
  others waiting beside the item; a deleted holder leaves the mutex held. The
  model deletes neither (`Deletable`).
- `vTaskDelayUntil` and `vTaskSetTimeOutState` read the clock in two accesses; a
  wrap in between costs a whole cycle, or times out at once. `Regular` confines
  four properties of `FromaTick` to behaviours with no wrap so far and no
  overlapping update.
- A full command queue fails the assertion of the timer task when it restarts a
  timer; a wrap is missed if two samples of the time lie nearly a cycle apart.
- A character is lost when a string and an echo overlap, for they take different
  locks. A line of spaces only makes `strtok` return NULL in the shell.
- A sender whose room was made before it was listed sleeps beside it until its
  time is over, or the next message is taken; `NoLostWakeup` excepts just that
  (`late`) and a list changed underneath (`torn`).
- A co-routine's delay counts from the scheduler's last look at the time and may
  end early by the lag.

## Proofs

Every theorem holds for all values of the constants that the assumptions of its
module allow: any finite number of tasks, items, timers or co-routines, any
priorities, any capacity of a queue, any width of the tick count, any set of
calls. Where a bound in a guard ends the counting (`MaxInterrupts`,
`MaxSuspendAll`, `MaxLock` ...), it is any number too. Each component has one
invariant, `IInv` (`BootInv`, `SerialInv` for the second in a module), which the
initial states satisfy and every step keeps; TLC checked it on the instance of the
component's run before it was proved. The properties follow from it.

The assumptions say what the code's types and callers ensure. A task, timer or
co-routine is no NULL; sets are finite; capacities, widths, sizes and
alignments are positive; calls are calls of tasks on objects that exist; only
mutexes are taken recursively. Some are there because TLA+ is untyped: there is
a queue and a message, a co-routine is not the name of a place in the
scheduler, and a key is neither a place in a call nor a string.

**Induction.** The induction theorems of the library are out of the provers'
reach, for they take an operator as a parameter. Where a proof needs induction
over numbers that have a bound, `Least` of `FromaSequences` stands in: a set of
numbers up to a bound that is not empty has a least element, so the first
counterexample can be looked at. That is how `Without` is shown to keep the
order of a list, and how the walks of `FromaList` are shown to exist and to end.

**Scheduler** (`FromaSchedProofs`). `TypeCorrect` (`TypeOK`, in which the level
scanned stays in the array), `NeverShared` (`NoSharedTask`), `ContextsKept`
(`ContextIntact`), `LockOwned` (`LockOwner`) and `CriticalStays`
(`CriticalPinned`). None is inductive alone. That the two cores differ needs the
lock (the other core's choice stands still while this one scans); that the right
registers come back needs that the task chosen was not live elsewhere; that a
section stays on its core needs that a masked core takes no yield. `IInv` is
their conjunction with `Residence` (where a core's registers are at each step of
the interrupt, and that the task about to be stored is not the other core's) and
`Operand` (a call that moves a task has one).
`NeverLost` proves `OneHome`. A step does one of five things to the lists:
nothing, a task taken off into a call's hands, a task put from there into the
suspended list or into the ready list of its priority, a rotation. The invariant
`Homes` says `OneHome` in five parts, and each effect keeps all of them.
`LockedStays` proves `LockedRuns` under `OneLocker`: if one task at most ever
calls `vTaskSuspendAll`, it stays on its core until `xTaskResumeAll`, however
often it calls and whatever the others do. `Counted` says that the count is that
one task's, `LockKept` that its core has finished any choice it had begun.
Without `OneLocker` the statement is false (`TwoLockers` above).

`NeverHalts` (`NoHalt`), `SuspendedLeaves` (`SuspendedStops`), `HighestOnOneCore`
(`HighestRuns`) and `NeverForgotten` (`NoForgotten`) hold under `OneCore`, of which
`SchedOneCore` is an instance: all calls are about core 0 and made by tasks that
core 1 never runs; core 1 has a level of tasks of its own, which no call names;
some task of the lowest level is never suspended, as the idle task; one of core 0's
tasks is of the highest level; nobody suspends the scheduler. Both cores still
switch at any time and share the lock, and a scan of core 0 may pass core 1's level;
but no list is emptied under the other core's scan (that is `SchedRace`). `Alone` carries the proof: core 1
never leaves its level (`Divided`); a call moves what it was called for, and takes
the running task off only when it will yield (`Named`, `Stopping`); a scan has
passed only the other core's task, so that an empty-handed one means there is
nothing else (`Scanning`); what is ready above the level core 0 looks at runs on
core 1, also between the test and the store of a raise (`InSight`); core 0 runs at that level or is about to choose (`TopRuns`).
Without `OneCore` the statements are false (`AppHalt`, `AppSuspended`,
`OwnForgotten` above).

**Lists** (`FromaListBootProofs`). Of the sequences, `NeverTwice` and
`AlwaysInOrder`: an item is on at most one list, and sorted lists are in order.
Of the pointers, `PointersIntact` (`WellFormed`) and `PointersKeepPromise`
(`PromiseKept`): `FromaList` implements `FromaListSpec`, step by step, and so
`PointersInOrder` has the pointers keep what the sequences promise. `IInv` says
of every list that its marker and its items are linked as one ring in both
directions, that the items of the ring are exactly those whose `pvContainer` is
the list, that the count is their number, and that `pxIndex` stands at a place
of the ring. The sequence a ring stands for is read from the marker, or from the
entry after the index for a list that is used in turn; an insertion, a removal
and a move of the index are an insertion, a removal and a rotation of it.
`vListInsert` is an iteration along the ring, shown to stop at the first larger
value; the walk of `vTaskList` is shown to meet every item once and to leave the
index one turn on, or where it was.

**Heap** (`FromaHeapSerialProofs`). `BlocksOnceEach` (`OnceEach`), `BlocksApart`
(`Apart`) and `HeapKeepsPromise` (`PromiseKept`, the refinement of
`FromaHeapSpec`). `IInv` adds that block addresses are aligned, and that a block
in use has room for its header, without which the bytes behind it could lie
outside the heap. The arithmetic (rounding up keeps a size aligned and no
smaller) and the four effects on the blocks (take whole, cut, chain, give back)
are lemmas; each action is put together from them.

**Queues** (`FromaQueueProofs`). `IInv` has six parts: `Typed`; `Called` (what a
task in a call is there for); `Locking` (a queue is locked by the task between
its lock and its unlock, which has suspended the scheduler); `Placing` (each task
is on one list by each item, and where it is in a call says which); `Holding`
(who holds a mutex, how many times); `Restored`. From it, `TypeCorrect`,
`LockedByOne` (`LockedAlone`), `WaitsOnce` (`OneWait`) and `PriorityRestored`
(`Restored`). Four more theorems add an argument of their own:

- `NoWakeupLost` (`NoLostWakeup`). `AllCovered`: while somebody waits for a
  message or for room, the tasks on their way to take it are at least as many as
  there is to take, less what `prvUnlockQueue` will yet wake tasks for. That is
  kept by a task that begins to wait because of `Noticed`: from its last look at
  the queue until it waits, the queue is locked, so what interrupts bring is
  counted in the lock.
- `QueueKeepsPromise` (`PromiseKept`), the refinement of `FromaQueueSpec`.
  `Rings`: the read and write places are apart by the number of messages, around
  the ring. Sending at the back, at the front, receiving and peeking are then
  the operations on the sequence between them.
- `HighestWithoutMutexes`: `HighestRuns` in a system without mutexes. `Foremost`:
  nobody outranks the running task unless a yield is on its way or it is about to
  block. The hypothesis is needed: a holder that gives a mutex back after its
  waiter timed out falls in priority and does not yield.
- `NoneInverted`: `NoInversion` under `OwnMutex`, of which the `Mutex` run is an
  instance: a task uses one mutex at most, and nobody sets the priority of a user
  or suspends it. `Order` says that the waiters are sorted by the priorities they
  have, that the holder is as important as each of them, and that it has been
  raised before a task waits. `Relayed` bridges the time between a give and the
  next take: a mutex that is free while tasks wait has a woken task that is ready
  and as important as they are, and no less important user runs before it. For
  that, `NoneMissed` says that no yield is left over when the scheduler is not
  suspended. Without `OwnMutex` the statement is false: the priority a waiter
  brings is passed on once, to one holder, when it begins to wait.

**Boot** (`FromaListBootProofs`). `TheSchedulerBegins`: `HandsOver` holds for any
tasks, priorities and vectors, in every behaviour in which core 1 zeroes no part of
`.bss` after core 0 has written to it (`~wiped`, a history; once it is wiped, the
statement is false). What is inductive is `wiped \/ BootInv`: a core that still zeroes
while the other has written sets `wiped`, and it is never reset. So what such a boot
leaves is an initial state of `FromaSched`, from which the theorems about the
scheduler start. `HandShake` lists
the places that the two cores can be at together: the flags of `main.c` let one core
at a time create tasks. With that, `Made` follows each task through its creation:
`Past` is the set of the tasks that are beyond a place of `xTaskGenericCreate`, and
the TCBs, the count, the current task of each core, the ready lists and the level
to scan from are right for the sets beyond the places that set them. `Handling` is
about the handlers and the priorities: the second handler a core installs does not
wipe out the priority of the first, for its vector is in another register.

**Serial port** (`FromaHeapSerialProofs`). `StringsNeverMixed` (`NeverMixed`),
`OnlyLostAcrossLocks` (`LostAcrossLocks`) and `LineShowsBuffer` (`ShowsBuffer`), for
any letters, commands and size of the buffer. `SerialInv` has, beside its types,
`Engaged` and `LocksHeld` (a lock is held by the core that is in a call that takes
it, and a core's task changes in no such call); `Sequence` (the string whose letters
come next is the last that began, or a new one, and the register holds a letter of
no other); `Polled` (who is about to write an echo has seen no other echo in the
register, since whoever else writes one holds the same lock); and `Echoing`, which
follows the line on the terminal through the stages of an echo: a letter that is in
the buffer and not yet on the screen, and the three characters that wipe out one
that is on the screen and no longer in the buffer.

**Ticks** (`FromaTickProofs`). `IInv` has parts that hold always: `Typed`, `Placed`
(where each core is in its call or interrupt), `Asked` and `Counts`; `Housed` (which
list has a task, or whose hands), which holds until the cores' moves clash; and parts
that hold while `Regular`, that is until the count first wraps or an update is
overwritten: `NotWrapped` (the lists have not been switched), `Covered`, `Positive`,
`Alone`, `Periods`, `Waits`, and that nothing has clashed. That last is where the
separate steps of `prvCheckDelayedTasks` are met: core 1 looks with its own count,
which stays 0 until the wrap, and no wake time on the list is 0 (`Positive`), so that
before the wrap core 0 alone takes tasks off (`Alone`) and finds the head it has read.
From it, `TypeCorrect`, `HomesOnce` (`OneHome`, until a clash), `TicksCounted`
(`TicksKept`), `UnblockCovered` (`NextCovered`), `PeriodsKept` (`PeriodKept`),
`TimeoutsRight` (`TimesOutRight`) and the action property `WokenInTime`
(`NeverEarly`). `Regular` is part of the last four: at the wrap the code halts if a
task is still listed, a wrap between two reads of a call breaks them, and so does an
update that the other core overwrites (`LeftBehind`, `TicksSlip` above); past the
wrap, both cores move tasks (`Clash`). `TicksKept` holds across the wrap, and
`OneHome` as long as nothing clashes.

**Timers** (`FromaTimersProofs`). `TimersListedOnce` (`ListedOnce`) holds always. Its
part about freed timers is `Deletions`: a command in the queue for a freed timer, or
behind the timer's deletion, can only be a start of a timer that reloads, for the
timer task alone sends one there; so only such a restart lists a freed timer
(`revived`), which the code does (`FreedListed` above).
`CyclesApart` (`InOwnCycle`) and the action property `NotCalledEarly`
(`NeverEarly`) hold if `Short`: every period, at first and by every change, plus
the lateness of the timer task is less than a cycle of the count. The `Timers`
run has such periods. `IInv` says that a timer is listed once; how late its expiry
may be found (`Late`), that the commands in the queue are sound and not sent late (`Orders`); and
then that the two lists hold one cycle each (`InCycles`), and that no entry lies
further off than a wrapped comparison can tell (`Near`, `Heads`).

**Co-routines** (`FromaCoRoutinesProofs`). `HomesOnce` (`OneHome`), `WakeupsKept`
(`NoLostWakeup`) and the action property `WokenOnTime` (`OnTime`). `IInv` says
which list has a co-routine by each item (`Once`, `Homes`), what it will do when
it is resumed (`Resumes`), where a sender that is being listed is and that the
iterator of `vListInsert` stays within the list (`Inserting`), and that the two
delayed lists hold one cycle of the count each, in order (`InCycles`), so that the
scheduler, which looks at the head only, meets each time as it comes. `Served` is
`NoLostWakeup` for the sender on its way as well. The conditions of the properties
are the histories `late` and `torn`, no assumption.

**Only model-checked.**

- `HighestRuns` with mutexes, and `NoInversion` beyond `OwnMutex`: in general both
  are false, for inheritance passes over a waiter that times out, or whose priority
  is set.
- `HandsOver` once core 1 has zeroed what core 0 had written: it is false then.
- `ScanEnds` and `BothRun`: liveness is out of the prover's reach.
- The instances of `FromaSched` with calls across the cores: what holds of them in
  general is `IInv`, `OneHome` and `LockedRuns`.

## Not modelled

- `heap_1.c`, `heap_3.c`, the other serial drivers (`pl011.c`, `serial.c`) and the
  MPU wrappers are not built. `vUARTInitialise` is not called.
- `printf`, the real-time clock, the SP804 timer, the trace buffer, stack checks,
  task tags and run-time counters have no state the kernel's behaviour depends on.
- `vQueueDelete` and the queue registry, `vTaskCleanUpResources`, creation of tasks
  once the scheduler runs.
- Two cores inside one list operation: `FromaSched` and `FromaTick` take list
  operations as single steps, and find the kernel broken across cores at that
  grain already.
- Memory is sequentially consistent in the models; weaker orders of the
  Cortex-A9 are not explored.

## Plan

1. `FromaTick` beyond the wrap: what delays, periods and time-outs keep when the
   delayed list was empty at the wrap and no call was between its two reads.
2. Proofs: `NoInversion` where a task holds several mutexes that it takes and gives
   in a fixed order.
3. `FromaListSteps`: list operations statement by statement with two cores inside.
4. Queues used across the cores, as the API would allow it.

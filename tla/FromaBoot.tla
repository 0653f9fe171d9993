----------------------------- MODULE FromaBoot -----------------------------
(***************************************************************************)
(* The start of the two cores: kernel/startup.S, _init of board/port.c,    *)
(* main.c, xTaskGenericCreate and vTaskStartScheduler of source/tasks.c,   *)
(* xPortStartScheduler of board/port.c.                                    *)
(*                                                                         *)
(* Core 0 starts core 1, and both run _init at once: both zero .bss, where *)
(* all the variables of the kernel are.  Then core 0 creates its tasks     *)
(* while core 1 waits, core 1 creates its own while core 0 waits, and core *)
(* 0 creates the idle task while core 1 is already running tasks.  Nothing *)
(* but the two flags of main.c excludes one core from the other.           *)
(*                                                                         *)
(* The module ends where both cores run their first task, which is where   *)
(* FromaSched begins.  Memory is taken to suffice (configTOTAL_HEAP_SIZE   *)
(* is 8 MB), and the two allocations of a task are one here.  Of the GIC   *)
(* there is what is banked per core: the mask of the core (ICCPMR) and the *)
(* priorities of a few of its 32 private vectors, four to a register.      *)
(***************************************************************************)
EXTENDS Integers, FiniteSets, SequencesExt

CONSTANTS
  NoTask,
  MainTasks,      (* the tasks that main() creates, in order                *)
  SecondTasks,    (* those of secondary_main()                              *)
  idle0,          (* the task that vTaskStartScheduler() creates            *)
  MaxPriorities,  (* configMAX_PRIORITIES                                   *)
  Priority,       (* uxPriority of each task                                *)
  Vectors,        (* the interrupt vectors considered                       *)
  MaxTicks        (* model bound on the interrupts                          *)

Cores == {0, 1}
Levels == 0 .. MaxPriorities - 1
Tasks == ToSet(MainTasks) \cup ToSet(SecondTasks) \cup {idle0}
Yield == 1             (* portSGI_YIELD_VECTOR_ID                           *)
SysTick == 29          (* portSYSTICK_VECTOR_ID                             *)
Lowest == 255          (* configLOWEST_INTERRUPT_PRIORITY                   *)
Kernel == 192          (* configKERNEL_INTERRUPT_PRIORITY                   *)
MaxSyscall == 160      (* configMAX_SYSCALL_INTERRUPT_PRIORITY              *)
CreatedBy == [t \in Tasks |-> IF t \in ToSet(SecondTasks) THEN 1 ELSE 0]

ASSUME BootAssumption ==
  /\ NoTask \notin Tasks
  /\ MainTasks \in Seq(Tasks) \ {<<>>} /\ SecondTasks \in Seq(Tasks) \ {<<>>}
  /\ IsInjective(MainTasks \o SecondTasks \o <<idle0>>)
  /\ MaxPriorities \in Nat \ {0} /\ Priority \in [Tasks -> Levels]
  /\ {Yield, SysTick} \subseteq Vectors /\ Vectors \subseteq 0 .. 31
  /\ MaxTicks \in Nat

VARIABLES
  pc,           (* where each core is                                       *)
  todo,         (* the tasks each core has yet to create before it goes on  *)
  seen,         (* uxCurrentNumberOfTasks, as each core has read it         *)
  bss,          (* the variables in .bss                                    *)
  tcb,          (* of each task, what is in its TCB and on its stack        *)
  wiped,        (* history: what had been written to .bss has been zeroed   *)
  executing,    (* the task whose code each core executes                   *)
  pmr,          (* the priority mask of each core                           *)
  gic,          (* the priority of each vector at each core                 *)
  pending,      (* a yield interrupt is pending at the core                 *)
  timer,        (* the private timer of core 1 runs                         *)
  interrupts    (* the interrupts taken                                     *)

mem == <<bss, tcb, wiped>>
cpu == <<executing, pmr, gic, pending, timer>>
boot == <<pc, todo, seen, mem, cpu, interrupts>>

(* What _init leaves in .bss: started (xCoreStart_0 and xCoreStart_1),      *)
(* current (pxCurrentTCB), count (uxCurrentNumberOfTasks), lists (whether   *)
(* the task lists are initialised), ready (pxReadyTasksLists), top          *)
(* (uxTopReadyPriority), running (xSchedulerRunning), suspended             *)
(* (uxSchedulerSuspended), ticks (xTickCount[ 0 ]), missed (uxMissedTicks), *)
(* handler (pxInterruptHandlers).                                           *)
Zeroes == [started |-> [c \in Cores |-> FALSE],
           current |-> [c \in Cores |-> NoTask],
           count |-> 0, lists |-> FALSE, ready |-> [p \in Levels |-> <<>>],
           top |-> [c \in Cores |-> 0], running |-> FALSE,
           suspended |-> 0, ticks |-> 0, missed |-> 0,
           handler |-> [c \in Cores |-> [v \in Vectors |-> "null"]]]

Step(c, from, to) == pc[c] = from /\ pc' = [pc EXCEPT ![c] = to]

-----------------------------------------------------------------------------
(* startup.S and _init.                                                     *)

Reset_Handler ==
  /\ pc[0] = "reset"
  /\ pc' = [c \in Cores |-> "zero"]
  /\ UNCHANGED <<todo, seen, mem, cpu, interrupts>>

(* Both cores zero the whole of it, and neither waits for the other.  The   *)
(* step is the end of the loop.                                             *)
ZeroBss(c) ==
  /\ Step(c, "zero", "init")
  /\ bss' = Zeroes
  /\ wiped' = (wiped \/ bss # Zeroes)
  /\ UNCHANGED <<todo, seen, tcb, cpu, interrupts>>

(* The stacks, the vectors and the page tables, and then main().            *)
EnterMain(c) ==
  /\ Step(c, "init", IF c = 0 THEN "setup" ELSE "await")
  /\ UNCHANGED <<todo, seen, mem, cpu, interrupts>>

-----------------------------------------------------------------------------
(* main() and secondary_main().                                             *)

(* Mutant: core 1 does not wait.                                            *)
AwaitCore0Not ==
  /\ Step(1, "await", "setup")
  /\ UNCHANGED <<todo, seen, mem, cpu, interrupts>>

AwaitCore0 ==
  /\ Step(1, "await", "setup") /\ bss.started[0]
  /\ UNCHANGED <<todo, seen, mem, cpu, interrupts>>

(* vPortInstallInterruptHandler: the handler is recorded and the vector is  *)
(* given a priority; the write to the register zeroes its three neighbours. *)
Recorded(b, c, v, h) == [b EXCEPT !.handler[c][v] = h]
Ranked(g, c, v, p) ==
  [g EXCEPT ![c] = [w \in Vectors |-> IF w = v THEN p
                                      ELSE IF w \div 4 = v \div 4 THEN 0
                                      ELSE g[c][w]]]

(* Interrupts are masked, and every vector of the core, one by one, gets    *)
(* vPortUnknownInterruptHandler and a priority, which only the last of each *)
(* register keeps.                                                          *)
xPortSetInterruptMask(c) == pmr' = [pmr EXCEPT ![c] = MaxSyscall]

prvSetupHardware(c) ==
  /\ Step(c, "setup", "create")
  /\ xPortSetInterruptMask(c)
  /\ bss' = [bss EXCEPT !.handler[c] = [v \in Vectors |-> "unknown"]]
  /\ gic' = [gic EXCEPT ![c] = [v \in Vectors |-> IF v % 4 = 3 THEN MaxSyscall ELSE 0]]
  /\ UNCHANGED <<todo, seen, tcb, wiped, executing, pending, timer, interrupts>>

(* Mutant: core 0 gives the word only after core 1 has given its own.       *)
TellCoreLast(c) ==
  /\ todo[c] = <<>> /\ ~bss.started[c]
  /\ c = 0 => bss.started[1]
  /\ Step(c, "create", IF c = 0 THEN "await" ELSE "port")
  /\ bss' = [bss EXCEPT !.started[c] = TRUE]
  /\ UNCHANGED <<todo, seen, tcb, wiped, cpu, interrupts>>

(* Its tasks created, a core tells the other.                               *)
TellCore(c) ==
  /\ todo[c] = <<>> /\ ~bss.started[c]
  /\ Step(c, "create", IF c = 0 THEN "await" ELSE "port")
  /\ bss' = [bss EXCEPT !.started[c] = TRUE]
  /\ UNCHANGED <<todo, seen, tcb, wiped, cpu, interrupts>>

AwaitCore1 ==
  /\ Step(0, "await", "create") /\ bss.started[1]
  /\ todo' = [todo EXCEPT ![0] = <<idle0>>]
  /\ UNCHANGED <<seen, mem, cpu, interrupts>>

-----------------------------------------------------------------------------
(* xTaskGenericCreate.                                                      *)

(* The assertion on the priority is made first.  pvPortMalloc suspends the  *)
(* scheduler ...                                                            *)
Allocate(c) ==
  /\ todo[c] # <<>>
  /\ Step(c, "create", IF Priority[Head(todo[c])] < MaxPriorities THEN "allocate"
                                                                  ELSE "abort")
  /\ bss' = [bss EXCEPT !.suspended = @ + 1]
  /\ UNCHANGED <<todo, seen, tcb, wiped, cpu, interrupts>>

(* ... and resumes it: the ticks missed meanwhile are counted, and the core *)
(* sends itself a yield.  Critical sections mask, and do not unmask before  *)
(* xSchedulerRunning is set.                                                *)
Allocated(c) ==
  LET resumed == bss.suspended = 1 /\ bss.count > 0 IN
  /\ Step(c, "allocate", IF resumed /\ ~bss.lists THEN "abort" ELSE "initialise")
  /\ bss' = [bss EXCEPT !.suspended = @ - 1,
                        !.ticks = IF resumed THEN @ + bss.missed ELSE @,
                        !.missed = IF resumed THEN 0 ELSE @]
  /\ pending' = [pending EXCEPT ![c] = @ \/ (resumed /\ bss.missed > 0)]
  /\ UNCHANGED <<todo, seen, tcb, wiped, executing, pmr, gic, timer, interrupts>>

(* The stack is laid out as if the task had been interrupted as it began;   *)
(* its status word has interrupts switched on.                              *)
pxPortInitialiseStack(t) == [entry |-> t, irqs |-> TRUE]

(* A priority that is too high is capped.                                   *)
prvInitialiseTCBVariables(t) ==
  LET capped == IF Priority[t] >= MaxPriorities THEN MaxPriorities - 1 ELSE Priority[t]
  IN  [priority |-> capped, base |-> capped, value |-> MaxPriorities - capped,
       frame |-> pxPortInitialiseStack(t)]

Initialise(c) ==
  LET t == Head(todo[c]) IN
  /\ Step(c, "initialise", "count")
  /\ tcb' = [tcb EXCEPT ![t] = prvInitialiseTCBVariables(t)]
  /\ UNCHANGED <<todo, seen, bss, wiped, cpu, interrupts>>

(* uxCurrentNumberOfTasks++.                                                *)
CountRead(c) ==
  /\ Step(c, "count", "counted")
  /\ seen' = [seen EXCEPT ![c] = bss.count]
  /\ UNCHANGED <<todo, mem, cpu, interrupts>>
CountWrite(c) ==
  /\ Step(c, "counted", "current")
  /\ bss' = [bss EXCEPT !.count = seen[c] + 1]
  /\ UNCHANGED <<todo, seen, tcb, wiped, cpu, interrupts>>

(* Before the scheduler runs, the current task is the last of the most      *)
(* important ones created; the first task ever initialises the lists.       *)
prvInitialiseTaskLists(b) == [b EXCEPT !.lists = TRUE, !.ready = Zeroes.ready]

TakesOver(c, t) ==
  \/ bss.current[c] = NoTask
  \/ ~bss.running /\ tcb[bss.current[c]].priority <= Priority[t]
TakeCurrent(c) ==
  LET t == Head(todo[c])
      first == bss.current[c] = NoTask /\ bss.count = 1
      b == [bss EXCEPT !.current[c] = IF TakesOver(c, t) THEN t ELSE @]
  IN
  /\ Step(c, "current", "link")
  /\ bss' = IF first THEN prvInitialiseTaskLists(b) ELSE b
  /\ UNCHANGED <<todo, seen, tcb, wiped, cpu, interrupts>>

(* prvAddTaskToReadyQueue: a list that is not initialised has no end marker *)
(* to insert the item before.                                               *)
prvAddTaskToReadyQueue(c) ==
  LET t == Head(todo[c])
      p == tcb[t].priority
  IN
  /\ Step(c, "link", IF bss.lists THEN "yield" ELSE "abort")
  /\ bss' = [bss EXCEPT !.top[c] = IF p > @ THEN p ELSE @,
                        !.ready[p] = Append(@, t)]
  /\ UNCHANGED <<todo, seen, tcb, wiped, cpu, interrupts>>

(* Once the scheduler runs, a task that outranks its creator takes over.    *)
Created(c) ==
  LET t == Head(todo[c]) IN
  /\ Step(c, "yield", "create")
  /\ pending' = [pending EXCEPT ![c] =
                   @ \/ (bss.running /\ tcb[bss.current[c]].priority < Priority[t])]
  /\ todo' = [todo EXCEPT ![c] = Tail(@)]
  /\ UNCHANGED <<seen, mem, executing, pmr, gic, timer, interrupts>>

-----------------------------------------------------------------------------
(* vTaskStartScheduler, on core 0, and xPortStartScheduler.                 *)

vTaskStartScheduler ==
  /\ Step(0, "create", "clock") /\ todo[0] = <<>> /\ bss.started[0]
  /\ xPortSetInterruptMask(0)
  /\ bss' = [bss EXCEPT !.running = TRUE]
  /\ UNCHANGED <<todo, seen, tcb, wiped, executing, gic, pending, timer, interrupts>>
ResetClock ==
  /\ Step(0, "clock", "port")
  /\ bss' = [bss EXCEPT !.ticks = 0]
  /\ UNCHANGED <<todo, seen, tcb, wiped, cpu, interrupts>>

(* prvSetupTimerInterrupt, on core 1, and the handler of the yield.         *)
InstallHandlers(c) ==
  /\ Step(c, "port", "gic")
  /\ timer' = (timer \/ c = 1)
  /\ LET b == IF c = 1 THEN Recorded(bss, 1, SysTick, "tick") ELSE bss
         g == IF c = 1 THEN Ranked(gic, 1, SysTick, Kernel) ELSE gic
     IN  /\ bss' = Recorded(b, c, Yield, "yield")
         /\ gic' = Ranked(g, c, Yield, Kernel)
  /\ UNCHANGED <<todo, seen, tcb, wiped, executing, pmr, pending, interrupts>>

(* The mask is lifted; the core itself takes interrupts only in its first   *)
(* task.                                                                    *)
EnableGic(c) ==
  /\ Step(c, "gic", "first")
  /\ pmr' = [pmr EXCEPT ![c] = Lowest]
  /\ UNCHANGED <<todo, seen, mem, executing, gic, pending, timer, interrupts>>

(* vPortSVCHandler loads the context that is on the stack of pxCurrentTCB.  *)
vPortSVCHandler(c) ==
  executing' = [executing EXCEPT ![c] = tcb[bss.current[c]].frame.entry]

vPortStartFirstTask(c) ==
  /\ IF bss.current[c] = NoTask
     THEN Step(c, "first", "abort") /\ UNCHANGED executing
     ELSE Step(c, "first", "run") /\ vPortSVCHandler(c)
  /\ UNCHANGED <<todo, seen, mem, pmr, gic, pending, timer, interrupts>>

(* The tick is counted, or missed, in core 0's name; vTaskIncrementTick.    *)
vPortSysTickHandler(b) ==
  IF b.suspended = 0 THEN [b EXCEPT !.ticks = @ + 1] ELSE [b EXCEPT !.missed = @ + 1]

(* vPortGICInterruptHandler, once the core runs a task: the timer of core 1 *)
(* and whatever else the mask lets through.  An interrupt without a handler *)
(* is passed over; vPortUnknownInterruptHandler just says so.               *)
vPortGICInterruptHandler(c, v) ==
  /\ pc[c] = "run" /\ tcb[executing[c]].frame.irqs
  /\ gic[c][v] < pmr[c]
  /\ v # Yield /\ interrupts < MaxTicks
  /\ v = SysTick => c = 1 /\ timer
  /\ bss' = IF bss.handler[c][v] = "tick" THEN vPortSysTickHandler(bss) ELSE bss
  /\ interrupts' = interrupts + 1
  /\ UNCHANGED <<pc, todo, seen, tcb, wiped, cpu>>

-----------------------------------------------------------------------------

BootInit ==
  /\ pc = [c \in Cores |-> IF c = 0 THEN "reset" ELSE "off"]
  /\ todo = [c \in Cores |-> IF c = 0 THEN MainTasks ELSE SecondTasks]
  /\ seen = [c \in Cores |-> 0]
  /\ bss = Zeroes
  /\ wiped = FALSE
  /\ tcb = [t \in Tasks |-> [frame |-> [entry |-> NoTask, irqs |-> FALSE]]]
  /\ executing = [c \in Cores |-> NoTask]
  /\ pmr = [c \in Cores |-> 0]
  /\ gic = [c \in Cores |-> [v \in Vectors |-> 0]]
  /\ pending = [c \in Cores |-> FALSE]
  /\ timer = FALSE
  /\ interrupts = 0

Core0 == Reset_Handler \/ AwaitCore1 \/ vTaskStartScheduler \/ ResetClock
Core(c) ==
  \/ ZeroBss(c) \/ EnterMain(c) \/ prvSetupHardware(c)
  \/ Allocate(c) \/ Allocated(c) \/ Initialise(c)
  \/ CountRead(c) \/ CountWrite(c) \/ TakeCurrent(c)
  \/ prvAddTaskToReadyQueue(c) \/ Created(c)
  \/ TellCore(c)
  \/ InstallHandlers(c) \/ EnableGic(c) \/ vPortStartFirstTask(c)

BootNext ==
  \/ Core0 \/ AwaitCore0
  \/ \E c \in Cores : Core(c) \/ \E v \in Vectors : vPortGICInterruptHandler(c, v)

(* Each core goes on executing.  Ticks come or not.                         *)
Fairness == WF_boot(Core0 \/ Core(0)) /\ WF_boot(AwaitCore0 \/ Core(1))
BootSpec == BootInit /\ [][BootNext]_boot /\ Fairness

-----------------------------------------------------------------------------
(* Properties.                                                              *)

(* The scheduler, as it would begin with what this module has set up.  A    *)
(* yield that is pending as well is one that a task could have asked for.   *)
Sched == INSTANCE FromaSched WITH
  SuspendCalls <- {}, ResumeCalls <- {}, Yielders <- {}, Lockers <- {},
  MaxSuspendAll <- 0,
  current <- bss.current, ready <- bss.ready, suspended <- {},
  top <- bss.top, lock <- 2, suspendAll <- bss.suspended,
  missedYield <- FALSE, live <- executing,
  masked <- [c \in Cores |-> pmr[c] <= Kernel],
  stack <- [t \in Tasks |-> IF t \in {bss.current[0], bss.current[1]} THEN NoTask ELSE t],
  pending <- [c \in Cores |-> {}],
  irq <- [c \in Cores |-> "none"],
  scan <- [c \in Cores |-> [level |-> 0, n |-> 0, pick |-> NoTask]],
  pc <- [t \in Tasks |-> "run"],
  loc <- [t \in Tasks |-> [task |-> NoTask, core |-> 0, self |-> FALSE, count |-> 0]]

(* When both cores run tasks, they are in a state that FromaSched begins    *)
(* in: every task created is on its ready list, once, none was wiped out,   *)
(* each core runs the most important task it created, its scan starts high  *)
(* enough, every interrupt has its handler, those of the kernel are masked  *)
(* by critical sections, and uxCurrentNumberOfTasks counts every task.      *)
(* That is, unless core 1 has been so slow that it zeroed what core 0 had   *)
(* already set up, which _init does nothing to prevent.                     *)
Booted == \A c \in Cores : pc[c] = "run"
HandsOver ==
  Booted /\ ~wiped =>
    /\ Sched!Init
    /\ bss.running /\ bss.count = Cardinality(Tasks)
    /\ \A c \in Cores : /\ bss.handler[c][Yield] = "yield"
                         /\ \A v \in Vectors : bss.handler[c][v] # "null"
                         /\ gic[c][Yield] >= MaxSyscall
    /\ bss.handler[1][SysTick] = "tick" /\ gic[1][SysTick] >= MaxSyscall

(* Both cores come to run their tasks: the two flags of main.c do not make  *)
(* each core wait for the other, and no list is used before it is there,    *)
(* unless core 1 has zeroed them.                                           *)
BothRun == ([]~wiped) => <>[]Booted

(* vTaskStartScheduler means no tick to come before it has set the clock:   *)
(* time never goes back.                                                    *)
NeverBack == [][pc[0] # "zero" => bss'.ticks >= bss.ticks]_boot
=============================================================================

-------------------------- MODULE FromaSchedProofs --------------------------
(***************************************************************************)
(* Proofs about FromaSched, for every number of tasks and priority levels  *)
(* and every set of calls: the two cores never run the same task, no       *)
(* register context is lost or crossed, schedulerLock is owned by the core *)
(* that is between lock and unlock, critical sections stay on their core,  *)
(* and every variable keeps its type.  No task is lost, doubled or left at *)
(* the wrong priority, and a task that holds the scheduler suspended is    *)
(* not swapped out if no other task holds it too.  If all calls are about  *)
(* core 0 and core 1 is left alone (OneCore), no core halts, what is       *)
(* suspended stops, and the most important tasks run.                      *)
(*                                                                         *)
(* The first five hold together or not at all: the choice of a task is     *)
(* only safe because the lock keeps the other core's pxCurrentTCB still,   *)
(* and the restore only finds the right registers because the choice was   *)
(* safe.                                                                   *)
(* IInv is their conjunction with Residence, which says where the core's   *)
(* registers are while it switches.                                        *)
(***************************************************************************)
EXTENDS FromaSched, FromaSequences, TLAPS, SequenceTheorems, FiniteSetTheorems

(* Where a core and its registers are, step by step of the interrupt.       *)
Residence ==
  \A c \in Cores :
    /\ irq[c] = "none" => live[c] = current[c] /\ current[c] \in Tasks
    /\ irq[c] \in Switching => live[c] = NoTask /\ ~masked[c]
    /\ live[c] \in {current[c], NoTask}
    /\ irq[c] = "lower" => scan[c].level > 0
    /\ irq[c] = "pick" => \/ scan[c].pick = NoTask
                          \/ scan[c].pick # current[Other(c)]

(* The call that moves a task has a task to move.                           *)
Operand ==
  \A t \in Tasks :
    pc[t] \in {"sInsert", "rRemove", "rRaise", "rStore", "rInsert", "rYield"} =>
      loc[t].task \in Tasks

IInv == /\ TypeOK /\ Operand /\ LockOwner /\ CriticalPinned
        /\ NoSharedTask /\ ContextIntact /\ Residence

-----------------------------------------------------------------------------
(* Lists.                                                                   *)

(* A function on an initial segment of the naturals is a sequence.          *)
LEMMA FunctionIsSeq ==
  ASSUME NEW S, NEW n \in Nat, NEW f \in [1 .. n -> S]
  PROVE  f \in Seq(S)
<1>1. f \in UNION {[1 .. k -> S] : k \in Nat}
  OBVIOUS
<1> QED
  BY <1>1, SeqDef, Zenon

(* Deleting an element of a sequence of tasks leaves a sequence of tasks.   *)
LEMMA RemoveType ==
  ASSUME NEW s \in Seq(Tasks), NEW t \in ToSet(s)
  PROVE  RemoveAt(s, Position(s, t)) \in Seq(Tasks)
<1>1. Position(s, t) \in 1 .. Len(s)
  BY DEF Position, ToSet
<1>2. /\ SubSeq(s, 1, Position(s, t) - 1) \in Seq(Tasks)
      /\ SubSeq(s, Position(s, t) + 1, Len(s)) \in Seq(Tasks)
  BY <1>1, SubSeqProperties
<1> QED
  BY <1>2, ConcatProperties DEF RemoveAt

(* So does vListRemove, on all the lists.                                   *)
LEMMA ListRemoveType ==
  ASSUME ready \in [Levels -> Seq(Tasks)], suspended \in SUBSET Tasks,
         NEW t, vListRemove(t)
  PROVE  ready' \in [Levels -> Seq(Tasks)] /\ suspended' \in SUBSET Tasks
<1>1. ASSUME NEW p \in Levels
      PROVE  (IF t \in ToSet(ready[p])
              THEN RemoveAt(ready[p], Position(ready[p], t))
              ELSE ready[p]) \in Seq(Tasks)
  BY RemoveType
<1> QED
  BY <1>1 DEF vListRemove

(* And the rotation of a level that is not empty.                           *)
LEMMA RotateType ==
  ASSUME ready \in [Levels -> Seq(Tasks)], NEW p \in Levels,
         ready[p] # <<>>, Rotate(p)
  PROVE  ready' \in [Levels -> Seq(Tasks)] /\ Head(ready[p]) \in Tasks
<1>1. Head(ready[p]) \in Tasks /\ Tail(ready[p]) \in Seq(Tasks)
  BY HeadTailProperties
<1>2. Append(Tail(ready[p]), Head(ready[p])) \in Seq(Tasks)
  BY <1>1, AppendProperties
<1> QED
  BY <1>1, <1>2 DEF Rotate

-----------------------------------------------------------------------------
(* The initial state.                                                       *)

(* The invariant holds when the boot hands over.                            *)
LEMMA InitInv == Init => IInv
<1> SUFFICES ASSUME Init PROVE IInv
  OBVIOUS
<1> USE TasksAssumption, LevelsAssumption, CreatedAssumption
<1>1. current \in [Cores -> Tasks] /\ current[0] \in Tasks /\ current[1] \in Tasks
  BY DEF Init, Cores
<1>2. current[0] # current[1]
  BY DEF Init, CreatedOn, Cores
<1>3. ready \in [Levels -> Seq(Tasks)]
  <2>1. ASSUME NEW p \in Levels
        PROVE  ready[p] \in Seq(Tasks)
    <3> DEFINE S == {t \in Tasks : Priority[t] = p}
    <3>1. IsFiniteSet(S)
      BY FS_Subset
    <3>2. Cardinality(S) \in Nat
      BY <3>1, FS_CardinalityType
    <3>3. ready[p] \in [1 .. Cardinality(S) -> S]
      BY DEF Init, Orders
    <3>4. ready[p] \in [1 .. Cardinality(S) -> Tasks]
      BY <3>3
    <3> HIDE DEF S
    <3> QED
      BY <3>2, <3>4, FunctionIsSeq
  <2>2. ready = [p \in Levels |-> ready[p]]
    BY DEF Init
  <2> QED
    BY <2>1, <2>2
<1>4. TypeOK /\ Operand
  <2>1. 0 \in Levels
    BY DEF Levels
  <2>2. top \in [Cores -> Levels]
    BY <1>1 DEF Init
  <2>3. /\ live \in [Cores -> Tasks \cup {NoTask}]
        /\ stack \in [Tasks -> Tasks \cup {NoTask}]
        /\ masked \in [Cores -> BOOLEAN]
        /\ pending \in [Cores -> SUBSET Cores]
        /\ irq \in [Cores -> Switching \cup {"none", "halt"}]
    BY <1>1 DEF Init
  <2>4. pc \in [Tasks -> PCs]
    BY DEF Init, PCs
  <2>5. scan \in [Cores -> Scans]
    BY <2>1 DEF Init, Scans
  <2>6. loc \in [Tasks -> Locals]
    BY DEF Init, NoLocals, Locals, Cores
  <2>7. suspended \in SUBSET Tasks /\ lock \in Cores \cup {Free}
    BY DEF Init
  <2>8. suspendAll \in Int
    BY DEF Init
  <2>9. missedYield \in BOOLEAN
    BY DEF Init
  <2> QED
    BY <1>1, <1>3, <2>2, <2>3, <2>4, <2>5, <2>6, <2>7, <2>8, <2>9
       DEF TypeOK, Operand, Init
<1>5. LockOwner /\ CriticalPinned
  BY <1>1 DEF Init, LockOwner, CriticalPinned, Cores, Free, Holding, Critical
<1>6. NoSharedTask /\ ContextIntact
  BY <1>1, <1>2 DEF Init, NoSharedTask, ContextIntact, Cores
<1>7. Residence
  BY <1>1 DEF Init, Residence, Cores, Switching
<1> QED
  BY <1>4, <1>5, <1>6, <1>7 DEF IInv

-----------------------------------------------------------------------------
(* A step of a task.                                                        *)

TaskFrame(c, t) ==
  /\ irq[c] = "none" /\ live[c] = t
  /\ UNCHANGED <<current, lock, scan, live, stack>>
  /\ irq' = irq \/ irq' = [irq EXCEPT ![c] = "halt"]
  /\ \A u \in Tasks \ {t} : pc'[u] = pc[u]
  /\ \A k \in Cores \ {c} : masked'[k] = masked[k]
  /\ masked'[c] <=> pc'[t] \in Critical

(* What the seventeen actions of a call have in common: they run on a core  *)
(* that is not switching, touch neither the lock nor any register context,  *)
(* and leave the core masked exactly when they leave the task in a critical *)
(* section.                                                                 *)
LEMMA TaskStepFrame ==
  ASSUME TypeOK, NEW c \in Cores, NEW t \in Tasks, TaskStep(c, t),
         masked[c] <=> pc[t] \in Critical
  PROVE  TaskFrame(c, t)
<1> USE DEF TypeOK, TaskFrame, At, Goto, Return, Mask, Unmask, Halt, Critical,
            PCs, switch, regs
<1>1. ASSUME NEW x, NEW k, SuspendEnter(c, t, x, k) PROVE TaskFrame(c, t)
  BY <1>1 DEF SuspendEnter
<1>2. CASE SuspendReread(c, t)
  BY <1>2 DEF SuspendReread
<1>3. CASE SuspendRemove(c, t)
  BY <1>3 DEF SuspendRemove
<1>4. CASE SuspendInsert(c, t)
  BY <1>4 DEF SuspendInsert
<1>5. CASE SuspendYield(c, t)
  BY <1>5 DEF SuspendYield
<1>6. ASSUME NEW x, NEW k, ResumeCheck(c, t, x, k) PROVE TaskFrame(c, t)
  BY <1>6 DEF ResumeCheck
<1>7. CASE ResumeTest(c, t)
  BY <1>7 DEF ResumeTest
<1>8. CASE ResumeRemove(c, t)
  BY <1>8 DEF ResumeRemove
<1>9. CASE ResumeRaise(c, t) \/ ResumeStore(c, t)
  BY <1>9 DEF ResumeRaise, ResumeStore
<1>10. CASE ResumeInsert(c, t)
  BY <1>10 DEF ResumeInsert
<1>11. CASE ResumeYield(c, t)
  BY <1>11 DEF ResumeYield
<1>12. CASE Yield(c, t)
  BY <1>12 DEF Yield
<1>13. CASE SuspendAllLoad(c, t)
  BY <1>13 DEF SuspendAllLoad
<1>14. CASE SuspendAllStore(c, t)
  BY <1>14 DEF SuspendAllStore
<1>15. CASE ResumeAllLoad(c, t)
  BY <1>15 DEF ResumeAllLoad
<1>16. CASE ResumeAllStore(c, t)
  BY <1>16 DEF ResumeAllStore
<1>17. CASE ResumeAllYield(c, t)
  BY <1>17 DEF ResumeAllYield
<1> QED
  BY <1>1, <1>2, <1>3, <1>4, <1>5, <1>6, <1>7, <1>8, <1>9, <1>10, <1>11,
     <1>12, <1>13, <1>14, <1>15, <1>16, <1>17 DEF TaskStep

(* The locals of a call keep their type under each assignment a call makes. *)
LEMMA EnterType ==
  ASSUME loc \in [Tasks -> Locals], NEW t \in Tasks,
         NEW x \in Tasks \cup {NoTask}, NEW k \in Cores, NEW b \in BOOLEAN
  PROVE  [loc EXCEPT ![t].task = x, ![t].core = k, ![t].self = b]
           \in [Tasks -> Locals]
<1>1. [loc[t] EXCEPT !.task = x, !.core = k, !.self = b] \in Locals
  BY DEF Locals
<1> QED
  BY <1>1

LEMMA CheckType ==
  ASSUME loc \in [Tasks -> Locals], NEW t \in Tasks,
         NEW x \in Tasks \cup {NoTask}, NEW k \in Cores
  PROVE  [loc EXCEPT ![t].task = x, ![t].core = k] \in [Tasks -> Locals]
<1>1. [loc[t] EXCEPT !.task = x, !.core = k] \in Locals
  BY DEF Locals
<1> QED
  BY <1>1

LEMMA RereadType ==
  ASSUME loc \in [Tasks -> Locals], NEW t \in Tasks,
         NEW x \in Tasks \cup {NoTask}
  PROVE  [loc EXCEPT ![t].task = x] \in [Tasks -> Locals]
<1>1. [loc[t] EXCEPT !.task = x] \in Locals
  BY DEF Locals
<1> QED
  BY <1>1

LEMMA CountType ==
  ASSUME loc \in [Tasks -> Locals], NEW t \in Tasks, NEW n \in Int
  PROVE  [loc EXCEPT ![t].count = n] \in [Tasks -> Locals]
<1>1. [loc[t] EXCEPT !.count = n] \in Locals
  BY DEF Locals
<1> QED
  BY <1>1

LEMMA ReturnType ==
  ASSUME loc \in [Tasks -> Locals], NEW t \in Tasks
  PROVE  [loc EXCEPT ![t] = NoLocals] \in [Tasks -> Locals]
<1>1. NoLocals \in Locals
  BY DEF Locals, NoLocals, Cores
<1> QED
  BY <1>1

(* What a running call finds in them.                                       *)
LEMMA LocalsHave ==
  ASSUME loc \in [Tasks -> Locals], NEW t \in Tasks
  PROVE  /\ loc[t].task \in Tasks \cup {NoTask} /\ loc[t].core \in Cores
         /\ loc[t].self \in BOOLEAN /\ loc[t].count \in Int
<1>1. loc[t] \in Locals
  OBVIOUS
<1> QED
  BY <1>1 DEF Locals

(* An SGI has a source and a target core.                                   *)
LEMMA YieldType ==
  ASSUME pending \in [Cores -> SUBSET Cores], NEW c \in Cores, NEW k \in Cores,
         portYIELD_CORE(c, k)
  PROVE  pending' \in [Cores -> SUBSET Cores]
<1>1. pending[k] \cup {c} \in SUBSET Cores
  OBVIOUS
<1> QED
  BY <1>1 DEF portYIELD_CORE

(* Each call keeps every variable's type: the lists change only through     *)
(* vListRemove, Append and the suspended set.                               *)
LEMMA TaskStepType ==
  ASSUME TypeOK, Operand, NEW c \in Cores, NEW t \in Tasks, TaskStep(c, t)
  PROVE  TypeOK'
<1> USE CallsAssumption, LevelsAssumption
<1> USE DEF TypeOK, At, Return
<1>1. ASSUME NEW x \in Tasks \cup {NoTask}, NEW k \in Cores,
             SuspendEnter(c, t, x, k)
      PROVE  TypeOK'
  <2>1. loc' \in [Tasks -> Locals]
    <3>1. (x = NoTask \/ x = current[k]) \in BOOLEAN
      OBVIOUS
    <3>2. loc' = [loc EXCEPT ![t].task = x, ![t].core = k,
                             ![t].self = (x = NoTask \/ x = current[k])]
      BY <1>1 DEF SuspendEnter
    <3> QED
      BY <3>1, <3>2, EnterType, Zenon
  <2>2. pc' \in [Tasks -> PCs]
    BY <1>1 DEF SuspendEnter, Goto, PCs, Critical
  <2>3. masked' \in [Cores -> BOOLEAN]
    BY <1>1 DEF SuspendEnter, Mask, Unmask
  <2> QED
    BY <1>1, <2>1, <2>2, <2>3 DEF SuspendEnter, lists, switch, regs, all
<1>2. CASE SuspendReread(c, t)
  <2>1. loc' \in [Tasks -> Locals]
    BY <1>2, LocalsHave, RereadType DEF SuspendReread
  <2>2. pc' \in [Tasks -> PCs]
    BY <1>2 DEF SuspendReread, Goto, PCs, Critical
  <2> QED
    BY <1>2, <2>1, <2>2 DEF SuspendReread, lists, switch, regs, all
<1>3. CASE SuspendRemove(c, t)
  <2>1. ready' \in [Levels -> Seq(Tasks)] /\ suspended' \in SUBSET Tasks
    BY <1>3, ListRemoveType DEF SuspendRemove, lists
  <2>2. pc' \in [Tasks -> PCs]
    BY <1>3 DEF SuspendRemove, Goto, PCs, Critical
  <2>3. irq' \in [Cores -> Switching \cup {"none", "halt"}]
    BY <1>3 DEF SuspendRemove, Halt
  <2> QED
    BY <1>3, <2>1, <2>2, <2>3 DEF SuspendRemove, lists, switch, regs, all
<1>4. CASE SuspendInsert(c, t)
  <2>1. loc' \in [Tasks -> Locals]
    BY <1>4, ReturnType DEF SuspendInsert
  <2>2. suspended' \in SUBSET Tasks
    BY <1>4, LocalsHave DEF SuspendInsert, Operand
  <2>3. pc' \in [Tasks -> PCs]
    BY <1>4 DEF SuspendInsert, Goto, PCs, Critical
  <2>4. masked' \in [Cores -> BOOLEAN]
    BY <1>4 DEF SuspendInsert, Mask, Unmask
  <2> QED
    BY <1>4, <2>1, <2>2, <2>3, <2>4 DEF SuspendInsert, lists, switch, regs, all
<1>5. CASE SuspendYield(c, t)
  <2>1. loc' \in [Tasks -> Locals]
    BY <1>5, ReturnType DEF SuspendYield
  <2>2. pc' \in [Tasks -> PCs]
    BY <1>5 DEF SuspendYield, Goto, PCs, Critical
  <2>3. pending' \in [Cores -> SUBSET Cores]
    BY <1>5, LocalsHave, YieldType DEF SuspendYield
  <2> QED
    BY <1>5, <2>1, <2>2, <2>3 DEF SuspendYield, lists, switch, regs, all
<1>6. ASSUME NEW x \in Tasks, NEW k \in Cores, ResumeCheck(c, t, x, k)
      PROVE  TypeOK'
  <2>1. loc' \in [Tasks -> Locals]
    <3>1. \/ loc' = [loc EXCEPT ![t] = NoLocals]
          \/ loc' = [loc EXCEPT ![t].task = x, ![t].core = k]
      BY <1>6 DEF ResumeCheck
    <3>2. [loc EXCEPT ![t].task = x, ![t].core = k] \in [Tasks -> Locals]
      BY CheckType
    <3>3. [loc EXCEPT ![t] = NoLocals] \in [Tasks -> Locals]
      BY ReturnType
    <3> QED
      BY <3>1, <3>2, <3>3
  <2>2. pc' \in [Tasks -> PCs]
    BY <1>6 DEF ResumeCheck, Goto, PCs, Critical
  <2> QED
    BY <1>6, <2>1, <2>2 DEF ResumeCheck, lists, switch, regs, all
<1>7. CASE ResumeTest(c, t)
  <2>1. loc' \in [Tasks -> Locals]
    <3>1. loc' = loc \/ loc' = [loc EXCEPT ![t] = NoLocals]
      BY <1>7 DEF ResumeTest
    <3> QED
      BY <3>1, ReturnType
  <2>2. pc' \in [Tasks -> PCs]
    BY <1>7 DEF ResumeTest, Goto, PCs, Critical
  <2>3. masked' \in [Cores -> BOOLEAN]
    BY <1>7 DEF ResumeTest, Mask, Unmask
  <2> QED
    BY <1>7, <2>1, <2>2, <2>3 DEF ResumeTest, lists, switch, regs, all
<1>8. CASE ResumeRemove(c, t)
  <2>1. ready' \in [Levels -> Seq(Tasks)] /\ suspended' \in SUBSET Tasks
    BY <1>8, ListRemoveType DEF ResumeRemove, lists
  <2>2. pc' \in [Tasks -> PCs]
    BY <1>8 DEF ResumeRemove, Goto, PCs, Critical
  <2>3. irq' \in [Cores -> Switching \cup {"none", "halt"}]
    BY <1>8 DEF ResumeRemove, Halt
  <2> QED
    BY <1>8, <2>1, <2>2, <2>3 DEF ResumeRemove, lists, switch, regs, all
<1>9. CASE ResumeRaise(c, t)
  <2>1. pc' \in [Tasks -> PCs]
    BY <1>9 DEF ResumeRaise, Goto, PCs, Critical
  <2> QED
    BY <1>9, <2>1 DEF ResumeRaise, lists, switch, regs, all
<1>18. CASE ResumeStore(c, t)
  <2>1. top' \in [Cores -> Levels]
    <3>1. loc[t].task \in Tasks /\ loc[t].core \in Cores
      BY <1>18, LocalsHave DEF ResumeStore, Operand
    <3>2. Priority[loc[t].task] \in Levels
      BY <3>1, LevelsAssumption
    <3> QED
      BY <1>18, <3>1, <3>2 DEF ResumeStore
  <2>2. pc' \in [Tasks -> PCs]
    BY <1>18 DEF ResumeStore, Goto, PCs, Critical
  <2> QED
    BY <1>18, <2>1, <2>2 DEF ResumeStore, lists, switch, regs, all
<1>10. CASE ResumeInsert(c, t)
  <2>1. ready' \in [Levels -> Seq(Tasks)]
    <3>1. loc[t].task \in Tasks
      BY <1>10 DEF ResumeInsert, Operand
    <3>2. Append(ready[Priority[loc[t].task]], loc[t].task) \in Seq(Tasks)
      BY <3>1, AppendProperties
    <3> QED
      BY <1>10, <3>1, <3>2 DEF ResumeInsert, InsertReady
  <2>2. pc' \in [Tasks -> PCs]
    BY <1>10 DEF ResumeInsert, Goto, PCs, Critical
  <2> QED
    BY <1>10, <2>1, <2>2 DEF ResumeInsert, lists, switch, regs, all
<1>11. CASE ResumeYield(c, t)
  <2>1. loc' \in [Tasks -> Locals]
    <3>1. loc' = loc \/ loc' = [loc EXCEPT ![t] = NoLocals]
      BY <1>11 DEF ResumeYield
    <3> QED
      BY <3>1, ReturnType
  <2>2. pending' \in [Cores -> SUBSET Cores]
    BY <1>11, LocalsHave, YieldType DEF ResumeYield
  <2>3. pc' \in [Tasks -> PCs]
    BY <1>11 DEF ResumeYield, Goto, PCs, Critical
  <2>4. masked' \in [Cores -> BOOLEAN]
    BY <1>11 DEF ResumeYield, Mask, Unmask
  <2>5. irq' \in [Cores -> Switching \cup {"none", "halt"}]
    BY <1>11 DEF ResumeYield, Halt
  <2> QED
    BY <1>11, <2>1, <2>2, <2>3, <2>4, <2>5 DEF ResumeYield, lists, switch, regs, all
<1>12. CASE Yield(c, t)
  <2>1. pending' \in [Cores -> SUBSET Cores]
    BY <1>12, LocalsHave, YieldType DEF Yield
  <2> QED
    BY <1>12, <2>1 DEF Yield, lists, switch, regs, all
<1>13. CASE SuspendAllLoad(c, t)
  <2>1. loc' \in [Tasks -> Locals]
    <3>1. loc' = [loc EXCEPT ![t].count = suspendAll + 1]
      BY <1>13 DEF SuspendAllLoad
    <3>2. suspendAll + 1 \in Int
      OBVIOUS
    <3> QED
      BY <3>1, <3>2, CountType
  <2>2. pc' \in [Tasks -> PCs]
    BY <1>13 DEF SuspendAllLoad, Goto, PCs, Critical
  <2> QED
    BY <1>13, <2>1, <2>2 DEF SuspendAllLoad, lists, switch, regs, all
<1>14. CASE SuspendAllStore(c, t)
  <2>1. pc' \in [Tasks -> PCs]
    BY <1>14 DEF SuspendAllStore, Goto, PCs, Critical
  <2>2. suspendAll' \in Int
    BY <1>14, LocalsHave DEF SuspendAllStore
  <2> QED
    BY <1>14, <2>1, <2>2 DEF SuspendAllStore, lists, switch, regs, all
<1>15. CASE ResumeAllLoad(c, t)
  <2>1. loc' \in [Tasks -> Locals]
    <3>1. loc' = loc \/ loc' = [loc EXCEPT ![t].count = suspendAll - 1]
      BY <1>15 DEF ResumeAllLoad
    <3>2. suspendAll - 1 \in Int
      OBVIOUS
    <3>3. [loc EXCEPT ![t].count = suspendAll - 1] \in [Tasks -> Locals]
      BY <3>2, CountType
    <3> QED
      BY <3>1, <3>3
  <2>2. pc' \in [Tasks -> PCs]
    BY <1>15 DEF ResumeAllLoad, Goto, PCs, Critical
  <2>3. masked' \in [Cores -> BOOLEAN]
    BY <1>15 DEF ResumeAllLoad, Mask, Unmask
  <2>4. irq' \in [Cores -> Switching \cup {"none", "halt"}]
    BY <1>15 DEF ResumeAllLoad, Halt
  <2> QED
    BY <1>15, <2>1, <2>2, <2>3, <2>4 DEF ResumeAllLoad, lists, switch, regs, all
<1>16. CASE ResumeAllStore(c, t)
  <2>1. pc' \in [Tasks -> PCs]
    BY <1>16 DEF ResumeAllStore, Goto, PCs, Critical
  <2>2. suspendAll' \in Int
    BY <1>16, LocalsHave DEF ResumeAllStore
  <2> QED
    BY <1>16, <2>1, <2>2 DEF ResumeAllStore, lists, switch, regs, all
<1>17. CASE ResumeAllYield(c, t)
  <2>1. loc' \in [Tasks -> Locals]
    BY <1>17, ReturnType DEF ResumeAllYield
  <2>2. missedYield' \in BOOLEAN
    BY <1>17 DEF ResumeAllYield
  <2>3. pending' \in [Cores -> SUBSET Cores]
    BY <1>17, LocalsHave, YieldType DEF ResumeAllYield
  <2>4. pc' \in [Tasks -> PCs]
    BY <1>17 DEF ResumeAllYield, Goto, PCs, Critical
  <2>5. masked' \in [Cores -> BOOLEAN]
    BY <1>17 DEF ResumeAllYield, Mask, Unmask
  <2> QED
    BY <1>17, <2>1, <2>2, <2>3, <2>4, <2>5 DEF ResumeAllYield, lists, switch, regs, all
<1> QED
  BY <1>1, <1>2, <1>3, <1>4, <1>5, <1>6, <1>7, <1>8, <1>9, <1>10, <1>11,
     <1>12, <1>13, <1>14, <1>15, <1>16, <1>17, <1>18 DEF TaskStep

(* The call that moves a task got it from a list, or from pxCurrentTCB and  *)
(* found it on one.                                                         *)
LEMMA TaskStepOperand ==
  ASSUME TypeOK, Operand, NEW c \in Cores, NEW t \in Tasks, TaskStep(c, t)
  PROVE  Operand'
<1>1. \A u \in Tasks \ {t} : pc'[u] = pc[u] /\ loc'[u] = loc[u]
  BY DEF TypeOK, TaskStep, Goto, Return, SuspendEnter, SuspendReread,
         SuspendRemove, SuspendInsert, SuspendYield, ResumeCheck, ResumeTest,
         ResumeRemove, ResumeRaise, ResumeStore, ResumeInsert, ResumeYield, Yield,
         SuspendAllLoad, SuspendAllStore, ResumeAllLoad, ResumeAllStore,
         ResumeAllYield
<1>2. pc'[t] \in {"sInsert", "rRemove", "rRaise", "rStore", "rInsert", "rYield"} =>
        loc'[t].task \in Tasks
  <2> USE DEF TypeOK, Operand, Goto, Return, At
  <2>1. CASE SuspendRemove(c, t)
    BY <2>1, LocalsHave DEF SuspendRemove, OnList, IsReady, ToSet
  <2>2. CASE ResumeTest(c, t)
    BY <2>2, LocalsHave DEF ResumeTest
  <2>3. CASE \/ ResumeRemove(c, t) \/ ResumeRaise(c, t) \/ ResumeStore(c, t)
             \/ ResumeInsert(c, t) \/ ResumeYield(c, t)
    BY <2>3 DEF ResumeRemove, ResumeRaise, ResumeStore, ResumeInsert, ResumeYield
  <2>4. CASE SuspendReread(c, t) \/ SuspendInsert(c, t) \/ SuspendYield(c, t)
    BY <2>4 DEF SuspendReread, SuspendInsert, SuspendYield
  <2>5. CASE \/ Yield(c, t) \/ SuspendAllLoad(c, t) \/ SuspendAllStore(c, t)
             \/ ResumeAllLoad(c, t) \/ ResumeAllStore(c, t)
             \/ ResumeAllYield(c, t)
    BY <2>5 DEF Yield, SuspendAllLoad, SuspendAllStore, ResumeAllLoad,
                ResumeAllStore, ResumeAllYield
  <2>6. ASSUME NEW x, NEW k, SuspendEnter(c, t, x, k)
        PROVE  pc'[t] = "sReread" \/ pc'[t] = "sRemove"
    BY <2>6 DEF SuspendEnter
  <2>7. ASSUME NEW x, NEW k, ResumeCheck(c, t, x, k)
        PROVE  pc'[t] = "run" \/ pc'[t] = "rTest"
    BY <2>7 DEF ResumeCheck
  <2> QED
    BY <2>1, <2>2, <2>3, <2>4, <2>5, <2>6, <2>7 DEF TaskStep
<1> QED
  BY <1>1, <1>2 DEF Operand

(* Every step of a call keeps to the frame.                                 *)
LEMMA CallFrame ==
  ASSUME IInv, NEW c \in Cores, NEW t \in Tasks, TaskStep(c, t)
  PROVE  TaskFrame(c, t)
<1> USE DEF IInv
<1>1. irq[c] = "none" /\ live[c] = t
  BY DEF TaskStep, At, SuspendEnter, SuspendReread, SuspendRemove,
         SuspendInsert, SuspendYield, ResumeCheck, ResumeTest, ResumeRemove,
         ResumeRaise, ResumeStore, ResumeInsert, ResumeYield, Yield, SuspendAllLoad,
         SuspendAllStore, ResumeAllLoad, ResumeAllStore, ResumeAllYield
<1>2. \A k \in Cores \ {c} : live[k] # t
  BY <1>1, TasksAssumption DEF Residence, NoSharedTask, TypeOK, Cores
<1>3. masked[c] <=> pc[t] \in Critical
  BY <1>1, <1>2 DEF CriticalPinned
<1> QED
  BY <1>3, TaskStepFrame

(* A step of a call keeps the invariant: the frame leaves the other core,   *)
(* the lock and the contexts alone.                                         *)
LEMMA TaskStepInv ==
  ASSUME IInv, NEW c \in Cores, NEW t \in Tasks, TaskStep(c, t)
  PROVE  IInv'
<1> USE DEF IInv
<1>1. irq[c] = "none" /\ live[c] = t
  BY CallFrame DEF TaskFrame
<1>2. \A k \in Cores \ {c} : live[k] # t
  BY <1>1, TasksAssumption DEF Residence, NoSharedTask, TypeOK, Cores
<1>3. masked[c] <=> pc[t] \in Critical
  BY <1>1, <1>2 DEF CriticalPinned
<1>4. TaskFrame(c, t)
  BY CallFrame
<1>5. TypeOK' /\ Operand'
  BY TaskStepType, TaskStepOperand
<1>6. LockOwner'
  BY <1>1, <1>4 DEF TaskFrame, LockOwner, TypeOK, Holding
<1>7. CriticalPinned'
  <2>1. ASSUME NEW u \in Tasks, pc'[u] \in Critical
        PROVE  \E k \in Cores : live'[k] = u /\ masked'[k]
    <3>1. CASE u = t
      BY <3>1, <2>1, <1>4 DEF TaskFrame
    <3>2. CASE u # t
      BY <3>2, <2>1, <1>1, <1>4 DEF TaskFrame, CriticalPinned
    <3> QED
      BY <3>1, <3>2
  <2>2. ASSUME NEW k \in Cores, masked'[k]
        PROVE  live'[k] \in Tasks /\ pc'[live'[k]] \in Critical
    <3>1. CASE k = c
      BY <3>1, <2>2, <1>4 DEF TaskFrame
    <3>2. CASE k # c
      BY <3>2, <2>2, <1>2, <1>4 DEF TaskFrame, CriticalPinned
    <3> QED
      BY <3>1, <3>2
  <2> QED
    BY <2>1, <2>2 DEF CriticalPinned
<1>8. NoSharedTask' /\ ContextIntact'
  BY <1>1, <1>4 DEF TaskFrame, NoSharedTask, ContextIntact, TypeOK
<1>9. Residence'
  <2>1. ASSUME NEW k \in Cores, k # c
        PROVE  irq'[k] = irq[k] /\ masked'[k] = masked[k]
    BY <2>1, <1>4 DEF TaskFrame, TypeOK
  <2>2. irq'[c] = "none" \/ irq'[c] = "halt"
    BY <1>1, <1>4 DEF TaskFrame, TypeOK
  <2>3. UNCHANGED <<current, live, scan>>
    BY <1>4 DEF TaskFrame
  <2> QED
    BY <1>1, <2>1, <2>2, <2>3 DEF Residence, Switching
<1> QED
  BY <1>5, <1>6, <1>7, <1>8, <1>9

-----------------------------------------------------------------------------
(* A step of the yield interrupt.                                           *)

(* The locals of vTaskSwitchContext keep their type under each assignment.  *)
LEMMA ScanCountType ==
  ASSUME scan \in [Cores -> Scans], NEW c \in Cores, NEW p \in Levels,
         NEW n \in Nat
  PROVE  [scan EXCEPT ![c].level = p, ![c].n = n] \in [Cores -> Scans]
<1>1. [scan[c] EXCEPT !.level = p, !.n = n] \in Scans
  BY DEF Scans
<1> QED
  BY <1>1

LEMMA ScanPickType ==
  ASSUME scan \in [Cores -> Scans], NEW c \in Cores, NEW n \in Nat,
         NEW x \in Tasks \cup {NoTask}
  PROVE  [scan EXCEPT ![c].n = n, ![c].pick = x] \in [Cores -> Scans]
<1>1. [scan[c] EXCEPT !.n = n, !.pick = x] \in Scans
  BY DEF Scans
<1> QED
  BY <1>1

LEMMA ScanSkipType ==
  ASSUME scan \in [Cores -> Scans], NEW c \in Cores, NEW n \in Nat
  PROVE  [scan EXCEPT ![c].n = n] \in [Cores -> Scans]
<1>1. [scan[c] EXCEPT !.n = n] \in Scans
  BY DEF Scans
<1> QED
  BY <1>1

LEMMA ScanLevelType ==
  ASSUME scan \in [Cores -> Scans], NEW c \in Cores, NEW p \in Levels
  PROVE  [scan EXCEPT ![c].level = p] \in [Cores -> Scans]
<1>1. [scan[c] EXCEPT !.level = p] \in Scans
  BY DEF Scans
<1> QED
  BY <1>1

(* What a running scan finds in them.                                       *)
LEMMA ScanHas ==
  ASSUME scan \in [Cores -> Scans], NEW c \in Cores
  PROVE  /\ scan[c].level \in Levels /\ scan[c].n \in Nat
         /\ scan[c].pick \in Tasks \cup {NoTask}
<1>1. scan[c] \in Scans
  OBVIOUS
<1> QED
  BY <1>1 DEF Scans

(* The interrupt keeps every variable's type; the assertion before the      *)
(* decrement is what keeps uxTopReadyPriority a level.                      *)
LEMMA InterruptStepType ==
  ASSUME TypeOK, Residence, NEW c \in Cores, InterruptStep(c)
  PROVE  TypeOK'
<1> USE LevelsAssumption
<1> USE DEF TypeOK, Switching
<1>1. CASE InterruptEnter(c)
  <2>1. current[c] \in Tasks
    BY <1>1 DEF InterruptEnter, Residence
  <2>2. pending' \in [Cores -> SUBSET Cores]
    BY <1>1 DEF InterruptEnter
  <2> QED
    BY <1>1, <2>1, <2>2 DEF InterruptEnter, lists, all
<1>2. CASE SwitchLock(c)
  BY <1>2 DEF SwitchLock, lists, regs, all
<1>3. CASE SwitchMiss(c)
  BY <1>3 DEF SwitchMiss, lists, regs
<1>4. CASE ScanCount(c)
  <2>1. top[c] \in Levels /\ Len(ready[top[c]]) \in Nat
    BY LenProperties
  <2>2. scan' \in [Cores -> Scans]
    BY <1>4, <2>1, ScanCountType DEF ScanCount
  <2> QED
    BY <1>4, <2>2 DEF ScanCount, lists, regs, all
<1>5. CASE ScanNext(c)
  <2>1. scan[c].level \in Levels /\ scan[c].n - 1 \in Nat
    BY <1>5, ScanHas DEF ScanNext
  <2>2. ready' \in [Levels -> Seq(Tasks)] /\ Head(ready[scan[c].level]) \in Tasks
    BY <1>5, <2>1, RotateType DEF ScanNext
  <2>3. scan' \in [Cores -> Scans]
    <3> DEFINE x == Head(ready[scan[c].level])
    <3>1. \/ scan' = [scan EXCEPT ![c].n = scan[c].n - 1, ![c].pick = x]
          \/ scan' = [scan EXCEPT ![c].n = scan[c].n - 1]
      BY <1>5 DEF ScanNext
    <3>2. [scan EXCEPT ![c].n = scan[c].n - 1, ![c].pick = x]
            \in [Cores -> Scans]
      BY <2>1, <2>2, ScanPickType
    <3>3. [scan EXCEPT ![c].n = scan[c].n - 1] \in [Cores -> Scans]
      BY <2>1, ScanSkipType
    <3> QED
      BY <3>1, <3>2, <3>3
  <2> QED
    BY <1>5, <2>2, <2>3 DEF ScanNext, regs, all
<1>6. CASE ScanEmptied(c)
  <2>1. scan' \in [Cores -> Scans]
    BY <1>6, ScanPickType DEF ScanEmptied
  <2> QED
    BY <1>6, <2>1 DEF ScanEmptied, lists, regs, all
<1>7. CASE ScanExhausted(c)
  <2>1. scan' \in [Cores -> Scans]
    BY <1>7, ScanLevelType DEF ScanExhausted
  <2> QED
    BY <1>7, <2>1 DEF ScanExhausted, lists, regs, all
<1>8. CASE ScanLower(c)
  <2>1. scan[c].level - 1 \in Levels
    BY <1>8, ScanHas DEF ScanLower, Residence, Levels
  <2> QED
    BY <1>8, <2>1 DEF ScanLower, lists, regs, all
<1>9. CASE SwitchPick(c)
  BY <1>9, ScanHas DEF SwitchPick, lists, regs, all
<1>10. CASE InterruptExit(c)
  <2>1. [level |-> 0, n |-> 0, pick |-> NoTask] \in Scans
    BY DEF Scans, Levels
  <2>2. scan' \in [Cores -> Scans]
    BY <1>10, <2>1 DEF InterruptExit
  <2> QED
    BY <1>10, <2>2 DEF InterruptExit, Halt, lists, regs, all
<1> QED
  BY <1>1, <1>2, <1>3, <1>4, <1>5, <1>6, <1>7, <1>8, <1>9, <1>10
     DEF InterruptStep

(* What its actions have in common: a core that switches has saved its      *)
(* registers and is not masked; no call moves, nor the other core.          *)
LEMMA InterruptStepFrame ==
  ASSUME IInv, NEW c \in Cores, InterruptStep(c)
  PROVE  /\ UNCHANGED <<masked, pc, loc>>
         /\ ~masked[c]
         /\ \A k \in Cores \ {c} :
              /\ irq'[k] = irq[k] /\ live'[k] = live[k]
              /\ current'[k] = current[k] /\ scan'[k] = scan[k]
<1> USE DEF IInv, TypeOK, regs
<1>1. UNCHANGED <<masked, pc, loc>>
  BY DEF InterruptStep, InterruptEnter, SwitchLock, SwitchMiss, ScanCount,
         ScanNext, ScanEmptied, ScanExhausted, ScanLower, SwitchPick,
         InterruptExit
<1>2. ~masked[c]
  BY DEF InterruptStep, InterruptEnter, SwitchLock, SwitchMiss, ScanCount,
         ScanNext, ScanEmptied, ScanExhausted, ScanLower, SwitchPick,
         InterruptExit, Residence, Switching
<1>3. ASSUME NEW k \in Cores \ {c}
      PROVE  irq'[k] = irq[k] /\ live'[k] = live[k]
  BY DEF InterruptStep, InterruptEnter, SwitchLock, SwitchMiss, ScanCount,
         ScanNext, ScanEmptied, ScanExhausted, ScanLower, SwitchPick,
         InterruptExit, Halt
<1>4. ASSUME NEW k \in Cores \ {c}
      PROVE  current'[k] = current[k] /\ scan'[k] = scan[k]
  BY DEF InterruptStep, InterruptEnter, SwitchLock, SwitchMiss, ScanCount,
         ScanNext, ScanEmptied, ScanExhausted, ScanLower, SwitchPick,
         InterruptExit
<1> QED
  BY <1>1, <1>2, <1>3, <1>4

(* Inside the handler the lock belongs to the core from the return of       *)
(* __spin_lock to __spin_unlock, whichever way out is taken.                *)
LEMMA InterruptLock ==
  ASSUME IInv, NEW c \in Cores, InterruptStep(c)
  PROVE  LockOwner'
<1> USE DEF IInv, TypeOK, Holding
<1>1. \A k \in Cores \ {c} : irq'[k] = irq[k]
  BY InterruptStepFrame
<1>2. c # Free
  BY DEF Cores, Free
<1>3. CASE InterruptEnter(c)
  BY <1>1, <1>3 DEF InterruptEnter, LockOwner
<1>4. CASE SwitchLock(c)
  <2>1. lock = Free /\ lock' = c
    BY <1>4 DEF SwitchLock
  <2>2. irq'[c] \in Holding
    BY <1>4 DEF SwitchLock
  <2>3. \A k \in Cores : k # Free
    BY DEF Cores, Free
  <2> QED
    BY <1>1, <2>1, <2>2, <2>3 DEF LockOwner
<1>5. CASE SwitchMiss(c) \/ SwitchPick(c)
  <2>1. lock = c /\ lock' = Free /\ irq'[c] = "exit"
    BY <1>5 DEF SwitchMiss, SwitchPick, LockOwner
  <2>2. \A k \in Cores : k # Free
    BY DEF Cores, Free
  <2> QED
    BY <1>1, <2>1, <2>2 DEF LockOwner
<1>6. CASE ScanCount(c) \/ ScanNext(c) \/ ScanEmptied(c) \/ ScanExhausted(c)
           \/ ScanLower(c)
  <2>1. lock = c /\ lock' = lock
    BY <1>6 DEF ScanCount, ScanNext, ScanEmptied, ScanExhausted, ScanLower,
                LockOwner
  <2>2. irq'[c] \in Holding \cup {"halt"}
    BY <1>6 DEF ScanCount, ScanNext, ScanEmptied, ScanExhausted, ScanLower
  <2> QED
    BY <1>1, <2>1, <2>2 DEF LockOwner
<1>7. CASE InterruptExit(c)
  BY <1>1, <1>7 DEF InterruptExit, Halt, LockOwner
<1> QED
  BY <1>3, <1>4, <1>5, <1>6, <1>7 DEF InterruptStep

(* The choice of a task: the one the scan settled on is still not the other *)
(* core's when it is stored, because that core cannot pass the lock.        *)
LEMMA InterruptPick ==
  ASSUME IInv, NEW c \in Cores, InterruptStep(c)
  PROVE  /\ NoSharedTask'
         /\ irq'[c] = "pick" => \/ scan'[c].pick = NoTask
                                \/ scan'[c].pick # current'[Other(c)]
         /\ irq'[Other(c)] = "pick" =>
              current'[c] = current[c]
<1> USE DEF IInv, TypeOK
<1>1. Other(c) \in Cores \ {c}
  BY DEF Other, Cores
<1>2. irq'[Other(c)] = irq[Other(c)] /\ current'[Other(c)] = current[Other(c)]
  BY <1>1, InterruptStepFrame
<1>3. CASE SwitchPick(c)
  <2>1. current'[c] = scan[c].pick /\ irq'[c] = "exit"
    BY <1>3 DEF SwitchPick
  <2>2. scan[c].pick = NoTask \/ scan[c].pick # current[Other(c)]
    BY <1>3 DEF SwitchPick, Residence
  <2>3. irq[Other(c)] # "pick"
    BY <1>1, <1>3 DEF SwitchPick, LockOwner, Holding
  <2>4. NoSharedTask'
    BY <1>2, <2>1, <2>2 DEF NoSharedTask, Other, Cores
  <2> QED
    BY <1>2, <2>1, <2>3, <2>4
<1>4. CASE ~SwitchPick(c)
  <2>1. current' = current
    BY <1>4 DEF InterruptStep, InterruptEnter, SwitchLock, SwitchMiss,
                ScanCount, ScanNext, ScanEmptied, ScanExhausted, ScanLower,
                InterruptExit
  <2>2. ASSUME irq'[c] = "pick"
        PROVE  \/ scan'[c].pick = NoTask
               \/ scan'[c].pick # current[Other(c)]
    <3>1. scan[c] \in Scans
      OBVIOUS
    <3>2. CASE ScanNext(c)
      BY <2>2, <3>1, <3>2 DEF ScanNext, Scans
    <3>3. CASE ScanEmptied(c)
      BY <2>2, <3>1, <3>3 DEF ScanEmptied, Scans
    <3> QED
      BY <1>4, <2>2, <3>2, <3>3
         DEF InterruptStep, InterruptEnter, SwitchLock, SwitchMiss, ScanCount,
             ScanExhausted, ScanLower, InterruptExit, Halt
  <2> QED
    BY <2>1, <2>2 DEF NoSharedTask
<1> QED
  BY <1>3, <1>4

(* The save, the switch and the restore: registers are saved to the stack   *)
(* of the task they belong to, and found there by the core that takes it.   *)
LEMMA InterruptContext ==
  ASSUME IInv, NEW c \in Cores, InterruptStep(c)
  PROVE  /\ ContextIntact'
         /\ irq'[c] = "none" => live'[c] = current'[c] /\ current'[c] \in Tasks
         /\ irq'[c] \in Switching => live'[c] = NoTask
         /\ live'[c] \in {current'[c], NoTask}
<1> USE DEF IInv, TypeOK
<1> DEFINE d == Other(c)
<1>1. d \in Cores /\ d # c /\ Cores = {c, d}
  BY DEF Other, Cores
<1>2. irq'[d] = irq[d] /\ current'[d] = current[d] /\ live'[d] = live[d]
  BY <1>1, InterruptStepFrame
<1>3. live[d] \in {current[d], NoTask}
  BY <1>1 DEF Residence
<1>4. current[c] \in Tasks => current[d] # current[c]
  BY TasksAssumption DEF NoSharedTask, Other, Cores
<1> HIDE DEF d
<1>5. CASE InterruptEnter(c)
  <2>1. /\ live[c] = current[c] /\ current[c] \in Tasks
        /\ live' = [live EXCEPT ![c] = NoTask]
        /\ stack' = [stack EXCEPT ![current[c]] = current[c]]
        /\ current' = current /\ irq'[c] = "spin"
    BY <1>5 DEF InterruptEnter, Residence
  <2>2. live'[c] = NoTask /\ NoTask \notin Tasks
    BY <2>1, TasksAssumption
  <2>3. live[d] # current[c]
    BY <1>3, <1>4, <2>1, <2>2
  <2>4. ASSUME NEW t \in Tasks
        PROVE  /\ stack'[t] \in {t, NoTask}
               /\ stack'[t] = NoTask <=> \E k \in Cores : live'[k] = t
    <3>1. CASE t = current[c]
      BY <1>1, <1>2, <2>1, <2>2, <2>3, <3>1
    <3>2. CASE t # current[c]
      <4>1. stack'[t] = stack[t] /\ live[c] # t
        BY <2>1, <3>2
      <4>2. stack[t] \in {t, NoTask}
        BY DEF ContextIntact
      <4>3. stack[t] = NoTask <=> live[d] = t
        BY <1>1, <4>1 DEF ContextIntact
      <4> QED
        BY <1>1, <1>2, <2>2, <4>1, <4>2, <4>3
    <3> QED
      BY <3>1, <3>2
  <2>5. \A k \in Cores : irq'[k] = "none" => live'[k] = current'[k]
    BY <1>1, <1>2, <2>1 DEF ContextIntact
  <2> QED
    BY <2>1, <2>2, <2>4, <2>5 DEF ContextIntact
<1>6. CASE InterruptExit(c)
  <2>1. live[c] = NoTask /\ current' = current
    BY <1>6 DEF InterruptExit, Residence, Switching
  <2>2. CASE current[c] = NoTask
    <3>1. live' = live /\ stack' = stack /\ irq'[c] = "halt"
      BY <1>6, <2>2, TasksAssumption DEF InterruptExit, Halt, regs
    <3> QED
      BY <1>1, <1>2, <2>1, <3>1 DEF ContextIntact, Switching
  <2>3. CASE current[c] \in Tasks
    <3>1. /\ live' = [live EXCEPT ![c] = stack[current[c]]]
          /\ stack' = [stack EXCEPT ![current[c]] = NoTask]
          /\ irq'[c] = "none" /\ NoTask \notin Tasks
      BY <1>6, <2>3, TasksAssumption DEF InterruptExit
    <3>2. live[d] # current[c]
      BY <1>3, <1>4, <2>3, <3>1
    <3>3. stack[current[c]] = current[c]
      BY <1>1, <2>1, <2>3, <3>1, <3>2 DEF ContextIntact
    <3>4. live'[c] = current[c]
      BY <3>1, <3>3
    <3>5. ASSUME NEW t \in Tasks
          PROVE  /\ stack'[t] \in {t, NoTask}
                 /\ stack'[t] = NoTask <=> \E k \in Cores : live'[k] = t
      <4>1. CASE t = current[c]
        BY <3>1, <3>4, <4>1
      <4>2. CASE t # current[c]
        <5>1. stack'[t] = stack[t] /\ live[c] # t /\ live'[c] # t
          BY <2>1, <3>1, <3>4, <4>2
        <5>2. stack[t] \in {t, NoTask}
          BY DEF ContextIntact
        <5>3. stack[t] = NoTask <=> live[d] = t
          BY <1>1, <5>1 DEF ContextIntact
        <5> QED
          BY <1>1, <1>2, <5>1, <5>2, <5>3
      <4> QED
        BY <4>1, <4>2
    <3>6. \A k \in Cores : irq'[k] = "none" => live'[k] = current'[k]
      BY <1>1, <1>2, <2>1, <3>4 DEF ContextIntact
    <3> QED
      BY <2>1, <2>3, <3>1, <3>4, <3>5, <3>6 DEF ContextIntact, Switching
  <2> QED
    BY <2>2, <2>3
<1>7. CASE ~InterruptEnter(c) /\ ~InterruptExit(c)
  <2>1. /\ live' = live /\ stack' = stack
        /\ irq[c] \in Switching /\ irq'[c] # "none"
    BY <1>7 DEF InterruptStep, SwitchLock, SwitchMiss, ScanCount, ScanNext,
                ScanEmptied, ScanExhausted, ScanLower, SwitchPick, Switching,
                regs
  <2>2. live[c] = NoTask
    BY <2>1 DEF Residence
  <2>3. \A k \in Cores : irq'[k] = "none" => live'[k] = current'[k]
    BY <1>1, <1>2, <2>1 DEF ContextIntact
  <2> QED
    BY <2>1, <2>2, <2>3 DEF ContextIntact
<1> QED
  BY <1>5, <1>6, <1>7

(* The yield interrupt keeps the invariant.                                 *)
LEMMA InterruptStepInv ==
  ASSUME IInv, NEW c \in Cores, InterruptStep(c)
  PROVE  IInv'
<1> DEFINE d == Other(c)
<1>1. d \in Cores /\ d # c /\ Cores = {c, d} /\ Other(d) = c
  BY DEF Other, Cores
<1>2. /\ irq'[d] = irq[d] /\ live'[d] = live[d]
      /\ current'[d] = current[d] /\ scan'[d] = scan[d]
  BY <1>1, InterruptStepFrame
<1>3. UNCHANGED <<masked, pc, loc>> /\ ~masked[c]
  BY InterruptStepFrame
<1>4. TypeOK'
  BY InterruptStepType DEF IInv
<1>5. Operand'
  BY <1>3 DEF IInv, Operand
<1>6. LockOwner'
  BY InterruptLock
<1>7. CriticalPinned'
  <2>1. \A k \in Cores : masked[k] => live'[k] = live[k]
    BY <1>1, <1>2, <1>3
  <2> QED
    BY <1>3, <2>1 DEF IInv, CriticalPinned
<1>8. NoSharedTask' /\ ContextIntact'
  BY InterruptPick, InterruptContext
<1>9. Residence'
  <2>1. irq'[c] = "lower" => scan'[c].level > 0
    <3>1. CASE ScanExhausted(c)
      <4>1. scan'[c].level = top[c] /\ top[c] \in Levels
        BY <3>1 DEF ScanExhausted, IInv, TypeOK, Scans
      <4>2. irq'[c] = "lower" => top[c] # 0
        BY <3>1 DEF ScanExhausted, IInv, TypeOK
      <4> QED
        BY <4>1, <4>2, LevelsAssumption DEF Levels
    <3>2. CASE ~ScanExhausted(c)
      BY <3>2 DEF InterruptStep, InterruptEnter, SwitchLock, SwitchMiss,
                  ScanCount, ScanNext, ScanEmptied, ScanLower, SwitchPick,
                  InterruptExit, Halt, IInv, TypeOK
    <3> QED
      BY <3>1, <3>2
  <2>2. /\ irq'[c] = "none" => live'[c] = current'[c] /\ current'[c] \in Tasks
        /\ irq'[c] \in Switching => live'[c] = NoTask /\ ~masked'[c]
        /\ live'[c] \in {current'[c], NoTask}
    BY <1>3, InterruptContext
  <2>3. irq'[c] = "pick" => \/ scan'[c].pick = NoTask
                            \/ scan'[c].pick # current'[d]
    BY InterruptPick
  <2>4. irq'[d] = "pick" => current'[c] = current[c]
    BY InterruptPick
  <2> HIDE DEF d
  <2>5. /\ irq'[d] = "none" => live'[d] = current'[d] /\ current'[d] \in Tasks
        /\ irq'[d] \in Switching => live'[d] = NoTask /\ ~masked'[d]
        /\ live'[d] \in {current'[d], NoTask}
        /\ irq'[d] = "lower" => scan'[d].level > 0
    BY <1>1, <1>2, <1>3 DEF IInv, Residence
  <2>6. irq'[d] = "pick" => \/ scan'[d].pick = NoTask
                            \/ scan'[d].pick # current'[c]
    BY <1>1, <1>2, <2>4 DEF IInv, Residence
  <2>7. Other(c) = d
    BY DEF d
  <2> QED
    BY <1>1, <2>1, <2>2, <2>3, <2>5, <2>6, <2>7 DEF Residence
<1> QED
  BY <1>4, <1>5, <1>6, <1>7, <1>8, <1>9 DEF IInv

-----------------------------------------------------------------------------
(* The theorems.                                                            *)

(* Every step of the system keeps the invariant.                            *)
LEMMA NextInv == IInv /\ [Next]_vars => IInv'
<1> SUFFICES ASSUME IInv, [Next]_vars PROVE IInv'
  OBVIOUS
<1>1. CASE UNCHANGED vars
  BY <1>1 DEF vars, IInv, TypeOK, Operand, LockOwner, CriticalPinned,
              NoSharedTask, ContextIntact, Residence
<1>2. CASE Next
  BY <1>2, InterruptStepInv, TaskStepInv DEF Next
<1> QED
  BY <1>1, <1>2

(* The scheduler never leaves the invariant the boot established.           *)
THEOREM Invariance == Spec => []IInv
  BY InitInv, NextInv, PTL DEF Spec

(* Every variable keeps its type: uxTopReadyPriority and the level scanned  *)
(* stay inside pxReadyTasksLists.                                           *)
THEOREM TypeCorrect == Spec => []TypeOK
<1>1. IInv => TypeOK
  BY DEF IInv
<1> QED
  BY <1>1, Invariance, PTL

(* vTaskSwitchContext never gives the two cores the same task, whatever the *)
(* kernel calls of both do to the ready lists during the scan.              *)
THEOREM NeverShared == Spec => []NoSharedTask
<1>1. IInv => NoSharedTask
  BY DEF IInv
<1> QED
  BY <1>1, Invariance, PTL

(* The context save and restore of vPortInterruptContext loses, duplicates  *)
(* and crosses no register context.                                         *)
THEOREM ContextsKept == Spec => []ContextIntact
<1>1. IInv => ContextIntact
  BY DEF IInv
<1> QED
  BY <1>1, Invariance, PTL

(* schedulerLock is held exactly from __spin_lock to __spin_unlock, so two  *)
(* cores never scan or choose at once.                                      *)
THEOREM LockOwned == Spec => []LockOwner
<1>1. IInv => LockOwner
  BY DEF IInv
<1> QED
  BY <1>1, Invariance, PTL

(* A task leaves a critical section on the core it entered it on.           *)
THEOREM CriticalStays == Spec => []CriticalPinned
<1>1. IInv => CriticalPinned
  BY DEF IInv
<1> QED
  BY <1>1, Invariance, PTL
-----------------------------------------------------------------------------
(* No task is ever lost, doubled or left at the wrong priority.  A step     *)
(* does one of five things to the lists: nothing, take a task off into the  *)
(* hands of a call, put it into the suspended list or the ready list of its *)
(* priority out of those hands, or rotate a ready list.  The lemmas on the  *)
(* effects of steps say so once; the rest is about the five.                *)

(* OneHome part by part, with quantifiers in place of cardinality.          *)
Moving == {"sInsert", "rRaise", "rStore", "rInsert"}
Once == \A p \in Levels : /\ IsInjective(ready[p])
                          /\ \A t \in ToSet(ready[p]) : Priority[t] = p
Apart == \A t \in suspended : ~IsReady(t)
Away == \A u, t \in Tasks : Holds(u, t) => ~OnList(t)
Single == \A u, w, t \in Tasks : Holds(u, t) /\ Holds(w, t) => u = w
NotLost == \A t \in Tasks : ~OnList(t) => \E u \in Tasks : Holds(u, t)
Homes == Once /\ Apart /\ Away /\ Single /\ NotLost

(* The five things a step may do.                                           *)
Others(t) == \A u \in Tasks \ {t} : pc'[u] = pc[u] /\ loc'[u] = loc[u]
Stays(t) ==
  /\ UNCHANGED lists
  /\ pc'[t] \in Moving <=> pc[t] \in Moving
  /\ pc[t] \in Moving => loc'[t].task = loc[t].task
TakesOff(t) ==
  /\ pc[t] \notin Moving /\ pc'[t] \in Moving
  /\ loc'[t].task = loc[t].task
  /\ OnList(loc[t].task) /\ vListRemove(loc[t].task)
Suspends(t) ==
  /\ pc[t] \in Moving /\ pc'[t] \notin Moving
  /\ suspended' = suspended \cup {loc[t].task} /\ UNCHANGED ready
Readies(t) ==
  /\ pc[t] \in Moving /\ pc'[t] \notin Moving
  /\ InsertReady(loc[t].task) /\ UNCHANGED suspended
Rotates ==
  /\ UNCHANGED <<suspended, pc, loc>>
  /\ \/ UNCHANGED ready
     \/ \E p \in Levels : ready[p] # <<>> /\ Rotate(p)

(* A step of a call by task t.                                              *)
LEMMA CallEffects ==
  ASSUME TypeOK, NEW c \in Cores, NEW t \in Tasks, TaskStep(c, t)
  PROVE  /\ Others(t)
         /\ Stays(t) \/ TakesOff(t) \/ Suspends(t) \/ Readies(t)
<1>1. Others(t)
  BY DEF Others, TypeOK, TaskStep, Goto, Return, SuspendEnter, SuspendReread,
         SuspendRemove, SuspendInsert, SuspendYield, ResumeCheck, ResumeTest,
         ResumeRemove, ResumeRaise, ResumeStore, ResumeInsert, ResumeYield, Yield,
         SuspendAllLoad, SuspendAllStore, ResumeAllLoad, ResumeAllStore,
         ResumeAllYield
<1>2. Stays(t) \/ TakesOff(t) \/ Suspends(t) \/ Readies(t)
  <2> USE DEF TypeOK, Goto, Return, At, Moving, lists
  <2>1. CASE SuspendRemove(c, t) \/ ResumeRemove(c, t)
    BY <2>1 DEF SuspendRemove, ResumeRemove, TakesOff, Stays
  <2>2. CASE SuspendInsert(c, t)
    BY <2>2 DEF SuspendInsert, Suspends
  <2>3. CASE ResumeInsert(c, t)
    BY <2>3 DEF ResumeInsert, Readies
  <2>4. CASE SuspendReread(c, t) \/ SuspendYield(c, t) \/ Yield(c, t)
    BY <2>4 DEF SuspendReread, SuspendYield, Yield, Stays
  <2>5. CASE ResumeTest(c, t) \/ ResumeRaise(c, t) \/ ResumeStore(c, t) \/ ResumeYield(c, t)
    BY <2>5 DEF ResumeTest, ResumeRaise, ResumeStore, ResumeYield, Stays
  <2>6. CASE \/ SuspendAllLoad(c, t) \/ SuspendAllStore(c, t)
             \/ ResumeAllLoad(c, t) \/ ResumeAllStore(c, t)
             \/ ResumeAllYield(c, t)
    BY <2>6 DEF SuspendAllLoad, SuspendAllStore, ResumeAllLoad,
                ResumeAllStore, ResumeAllYield, Stays
  <2>7. ASSUME NEW x, NEW k, SuspendEnter(c, t, x, k) PROVE Stays(t)
    BY <2>7 DEF SuspendEnter, Stays
  <2>8. ASSUME NEW x, NEW k, ResumeCheck(c, t, x, k) PROVE Stays(t)
    BY <2>8 DEF ResumeCheck, Stays
  <2> QED
    BY <2>1, <2>2, <2>3, <2>4, <2>5, <2>6, <2>7, <2>8 DEF TaskStep
<1> QED
  BY <1>1, <1>2

(* A step of the yield interrupt.                                           *)
LEMMA SwitchEffects ==
  ASSUME TypeOK, NEW c \in Cores, InterruptStep(c)
  PROVE  Rotates
<1>1. scan[c].level \in Levels
  BY DEF TypeOK, Scans
<1> QED
  BY <1>1 DEF InterruptStep, InterruptEnter, SwitchLock, SwitchMiss, ScanCount,
              ScanNext, ScanEmptied, ScanExhausted, ScanLower, SwitchPick,
              InterruptExit, Rotates, lists

(* The hands that hold tasks, after a step of task t's call.                *)
LEMMA HandsStay ==
  ASSUME NEW t \in Tasks, Others(t), NEW u \in Tasks, NEW x, u # t
  PROVE  Holds(u, x)' <=> Holds(u, x)
BY DEF Others, Holds

-----------------------------------------------------------------------------
(* Nothing, and a rotation.                                                 *)

LEMMA StaysHome ==
  ASSUME Homes, NEW t \in Tasks, Others(t), Stays(t)
  PROVE  Homes'
<1>1. ASSUME NEW u \in Tasks, NEW x PROVE Holds(u, x)' <=> Holds(u, x)
  BY HandsStay DEF Stays, Holds, Moving
<1>2. \A x : OnList(x)' <=> OnList(x)
  BY DEF Stays, lists, OnList, IsReady
<1>3. Once' /\ Apart'
  BY DEF Stays, lists, Homes, Once, Apart, IsReady
<1> QED
  BY <1>1, <1>2, <1>3 DEF Homes, Away, Single, NotLost

LEMMA RotatesHome ==
  ASSUME TypeOK, Homes, Rotates
  PROVE  Homes'
<1>1. \A p \in Levels : /\ IsInjective(ready'[p])
                        /\ ToSet(ready'[p]) = ToSet(ready[p])
  <2>1. CASE UNCHANGED ready
    BY <2>1 DEF Homes, Once
  <2>2. ASSUME NEW p \in Levels, ready[p] # <<>>, Rotate(p)
        PROVE  \A q \in Levels : /\ IsInjective(ready'[q])
                                 /\ ToSet(ready'[q]) = ToSet(ready[q])
    <3>1. ready[p] \in Seq(Tasks) /\ IsInjective(ready[p])
      BY DEF TypeOK, Homes, Once
    <3>2. /\ IsInjective(Append(Tail(ready[p]), Head(ready[p])))
          /\ ToSet(Append(Tail(ready[p]), Head(ready[p]))) = ToSet(ready[p])
      BY <2>2, <3>1, RotateOnce
    <3>3. ready'[p] = Append(Tail(ready[p]), Head(ready[p]))
      BY <2>2 DEF Rotate, TypeOK
    <3>4. \A q \in Levels \ {p} : ready'[q] = ready[q]
      BY <2>2 DEF Rotate, TypeOK
    <3> QED
      BY <3>2, <3>3, <3>4 DEF Homes, Once
  <2> QED
    BY <2>1, <2>2 DEF Rotates
<1>2. \A x : IsReady(x)' <=> IsReady(x)
  BY <1>1 DEF IsReady
<1>3. \A x : OnList(x)' <=> OnList(x)
  BY <1>2 DEF OnList, Rotates
<1>4. \A u, x : Holds(u, x)' <=> Holds(u, x)
  BY DEF Holds, Rotates
<1>5. Once' /\ Apart'
  BY <1>1, <1>2 DEF Rotates, Homes, Once, Apart
<1> QED
  BY <1>3, <1>4, <1>5 DEF Homes, Away, Single, NotLost

-----------------------------------------------------------------------------
(* A task leaves its list, or enters one.                                   *)

(* What vListRemove takes away.                                             *)
LEMMA RemoveHome ==
  ASSUME TypeOK, Once, NEW x \in Tasks, vListRemove(x)
  PROVE  \A p \in Levels : /\ IsInjective(ready'[p])
                           /\ ToSet(ready'[p]) = ToSet(ready[p]) \ {x}
<1> SUFFICES ASSUME NEW p \in Levels
             PROVE  /\ IsInjective(ready'[p])
                    /\ ToSet(ready'[p]) = ToSet(ready[p]) \ {x}
  OBVIOUS
<1>1. ready[p] \in Seq(Tasks) /\ IsInjective(ready[p])
  BY DEF TypeOK, Once
<1>2. CASE x \in ToSet(ready[p])
  <2>1. /\ Position(ready[p], x) \in 1 .. Len(ready[p])
        /\ ready[p][Position(ready[p], x)] = x
    BY <1>1, <1>2, PlaceOf DEF Position
  <2>2. ready'[p] = RemoveAt(ready[p], Position(ready[p], x))
    BY <1>2 DEF vListRemove
  <2> QED
    BY <1>1, <2>1, <2>2, RemoveOnce
<1>3. CASE x \notin ToSet(ready[p])
  BY <1>1, <1>3 DEF vListRemove
<1> QED
  BY <1>2, <1>3

LEMMA TakesOffHome ==
  ASSUME TypeOK, Homes, NEW t \in Tasks, Others(t), TakesOff(t)
  PROVE  Homes'
<1> DEFINE x == loc[t].task
<1>1. x \in Tasks /\ OnList(x)
  <2>1. \A p \in Levels : ToSet(ready[p]) \subseteq Tasks
    BY EntriesOf DEF TypeOK
  <2> QED
    BY <2>1 DEF TakesOff, OnList, IsReady, TypeOK
<1>2. \A p \in Levels : /\ IsInjective(ready'[p])
                        /\ ToSet(ready'[p]) = ToSet(ready[p]) \ {x}
  BY <1>1, RemoveHome DEF Homes, TakesOff
<1>3. \A y : IsReady(y)' <=> IsReady(y) /\ y # x
  BY <1>2 DEF IsReady
<1>4. suspended' = suspended \ {x}
  BY DEF TakesOff, vListRemove
<1>5. \A y : OnList(y)' <=> OnList(y) /\ y # x
  BY <1>3, <1>4 DEF OnList
<1>6. \A u, y \in Tasks : Holds(u, y)' <=> Holds(u, y) \/ (u = t /\ y = x)
  BY HandsStay DEF TakesOff, Holds, Moving
<1>7. Once' /\ Apart'
  BY <1>2, <1>3, <1>4 DEF Homes, Once, Apart
<1>8. Away' /\ Single' /\ NotLost'
  BY <1>1, <1>5, <1>6 DEF Homes, Away, Single, NotLost
<1> QED
  BY <1>7, <1>8 DEF Homes

(* The hands of t held one task, and are empty now.                         *)
LEMMA GivesHome ==
  ASSUME TypeOK, Operand, Homes, NEW t \in Tasks, Others(t),
         pc[t] \in Moving, pc'[t] \notin Moving,
         \A y : OnList(y)' <=> OnList(y) \/ y = loc[t].task
  PROVE  Away' /\ Single' /\ NotLost'
<1>1. loc[t].task \in Tasks /\ Holds(t, loc[t].task)
  BY DEF Operand, Moving, Holds
<1>2. \A u, y \in Tasks : Holds(u, y)' <=> Holds(u, y) /\ u # t
  BY HandsStay DEF Holds, Moving
<1>3. \A y \in Tasks : Holds(t, y) => y = loc[t].task
  BY DEF Holds
<1> QED
  BY <1>1, <1>2, <1>3 DEF Homes, Away, Single, NotLost

LEMMA SuspendsHome ==
  ASSUME TypeOK, Operand, Homes, NEW t \in Tasks, Others(t), Suspends(t)
  PROVE  Homes'
<1>1. loc[t].task \in Tasks /\ Holds(t, loc[t].task)
  BY DEF Suspends, Operand, Moving, Holds
<1>2. ~OnList(loc[t].task)
  BY <1>1 DEF Homes, Away
<1>3. \A y : IsReady(y)' <=> IsReady(y)
  BY DEF Suspends, IsReady
<1>4. \A y : OnList(y)' <=> OnList(y) \/ y = loc[t].task
  BY <1>3 DEF Suspends, OnList
<1>5. Once' /\ Apart'
  BY <1>2, <1>3 DEF Suspends, Homes, Once, Apart, OnList
<1> QED
  BY <1>4, <1>5, GivesHome DEF Suspends, Homes

LEMMA ReadiesHome ==
  ASSUME TypeOK, Operand, Homes, NEW t \in Tasks, Others(t), Readies(t)
  PROVE  Homes'
<1> DEFINE x == loc[t].task
           q == Priority[x]
<1>1. x \in Tasks /\ Holds(t, x) /\ q \in Levels
  BY LevelsAssumption DEF Readies, Operand, Moving, Holds
<1>2. ~OnList(x)
  BY <1>1 DEF Homes, Away
<1>3. /\ ready'[q] = Append(ready[q], x)
      /\ \A p \in Levels \ {q} : ready'[p] = ready[p]
  BY <1>1 DEF Readies, InsertReady, TypeOK
<1>4. /\ IsInjective(ready'[q])
      /\ ToSet(ready'[q]) = ToSet(ready[q]) \cup {x}
  <2>1. ready[q] \in Seq(Tasks) /\ IsInjective(ready[q])
    BY <1>1 DEF TypeOK, Homes, Once
  <2>2. x \in Tasks \ ToSet(ready[q])
    BY <1>1, <1>2 DEF OnList, IsReady
  <2> QED
    BY <1>3, <2>1, <2>2, AppendNew
<1>5. \A y : IsReady(y)' <=> IsReady(y) \/ y = x
  BY <1>1, <1>3, <1>4 DEF IsReady
<1>6. \A y : OnList(y)' <=> OnList(y) \/ y = x
  BY <1>5 DEF Readies, OnList
<1>7. Once'
  BY <1>3, <1>4 DEF Homes, Once
<1>8. Apart'
  BY <1>2, <1>5 DEF Readies, Homes, Apart, OnList
<1> QED
  BY <1>6, <1>7, <1>8, GivesHome DEF Readies, Homes

-----------------------------------------------------------------------------
(* The invariant.                                                           *)

(* At the end of the boot every task is in the ready list of its priority.  *)
LEMMA InitHome == Init => Homes
<1> SUFFICES ASSUME Init PROVE Homes
  OBVIOUS
<1>1. ASSUME NEW p \in Levels
      PROVE  /\ IsInjective(ready[p])
             /\ ToSet(ready[p]) = {t \in Tasks : Priority[t] = p}
  <2> DEFINE S == {t \in Tasks : Priority[t] = p}
             n == Cardinality(S)
  <2>1. ready[p] \in [1 .. n -> S] /\ IsInjective(ready[p])
    BY DEF Init, Orders
  <2>2. IsFiniteSet(S) /\ n \in Nat
    BY FS_Subset, FS_CardinalityType, TasksAssumption
  <2>3. Cardinality(1 .. n) = n
    BY <2>2, FS_Interval
  <2>4. ready[p] \in Injection(1 .. n, S)
    BY <2>1 DEF Injection
  <2>5. ready[p] \in Surjection(1 .. n, S)
    BY <2>2, <2>3, <2>4, FS_Injection
  <2>6. DOMAIN ready[p] = 1 .. n /\ \A t \in S : \E i \in 1 .. n : ready[p][i] = t
    BY <2>1, <2>5 DEF Surjection
  <2> QED
    BY <2>1, <2>6 DEF ToSet
<1>2. ASSUME NEW t \in Tasks PROVE OnList(t)
  BY <1>1, LevelsAssumption DEF OnList, IsReady
<1>3. \A u, t : u \in Tasks => ~Holds(u, t)
  BY DEF Init, Holds
<1> QED
  BY <1>1, <1>2, <1>3 DEF Homes, Once, Apart, Away, Single, NotLost, Init

LEMMA NextHome == IInv /\ Homes /\ [Next]_vars => Homes'
<1> SUFFICES ASSUME IInv, Homes, [Next]_vars PROVE Homes'
  OBVIOUS
<1> USE DEF IInv
<1>1. CASE UNCHANGED vars
  BY <1>1, RotatesHome DEF vars, Rotates
<1>2. ASSUME NEW c \in Cores, InterruptStep(c) PROVE Homes'
  BY <1>2, SwitchEffects, RotatesHome
<1>3. ASSUME NEW c \in Cores, NEW t \in Tasks, TaskStep(c, t) PROVE Homes'
  BY <1>3, CallEffects, StaysHome, TakesOffHome, SuspendsHome, ReadiesHome
<1> QED
  BY <1>1, <1>2, <1>3 DEF Next

(* A task is counted once: its holders are none or a singleton.             *)
LEMMA HomesCount == Homes => OneHome
<1> SUFFICES ASSUME Homes PROVE OneHome
  OBVIOUS
<1>1. ASSUME NEW t \in Tasks, OnList(t)
      PROVE  /\ ~(IsReady(t) /\ t \in suspended)
             /\ {u \in Tasks : Holds(u, t)} = {}
  BY <1>1 DEF Homes, Apart, Away
<1>2. ASSUME NEW t \in Tasks, ~OnList(t)
      PROVE  Cardinality({u \in Tasks : Holds(u, t)}) = 1
  <2>1. PICK u \in Tasks : Holds(u, t)
    BY <1>2 DEF Homes, NotLost
  <2>2. {w \in Tasks : Holds(w, t)} = {u}
    BY <2>1 DEF Homes, Single
  <2> QED
    BY <2>2, FS_Singleton
<1> QED
  BY <1>1, <1>2 DEF Homes, Once, OneHome

(* However many tasks suspend and resume each other from both cores, a task *)
(* stays on exactly one list, once, at its own priority, or in the hands of *)
(* exactly one call of vTaskSuspend or vTaskResume.                         *)
THEOREM NeverLost == Spec => []OneHome
<1>1. Init => IInv /\ Homes
  BY InitInv, InitHome
<1>2. IInv /\ Homes /\ [Next]_vars => (IInv /\ Homes)'
  BY NextInv, NextHome
<1>3. IInv /\ Homes => OneHome
  BY HomesCount
<1> QED
  BY <1>1, <1>2, <1>3, PTL DEF Spec
-----------------------------------------------------------------------------
(* A task that holds the scheduler suspended keeps its core.                *)

(* A core on its way to a switch, past the look at uxSchedulerSuspended.    *)
Choosing == {"count", "next", "lower", "pick"}
OneLocker == \A t, u \in Lockers : t = u

(* uxSchedulerSuspended counts the one task that holds the scheduler: each  *)
(* load is still true when its store comes.                                 *)
Counting == {"aStore", "locked", "aDrop", "aTest"}
Counted ==
  /\ \A t \in Tasks : pc[t] \in Counting => t \in Lockers
  /\ \A t \in Lockers :
       /\ suspendAll = IF pc[t] \in {"locked", "aDrop"} THEN 1 ELSE 0
       /\ pc[t] = "aStore" => loc[t].count = 1
       /\ pc[t] = "aDrop" => loc[t].count = 0

(* Its core has finished the choice it made before, and starts none.        *)
LockKept ==
  \A t \in Tasks : pc[t] \in {"locked", "aDrop"} =>
    \E c \in Cores : current[c] = t /\ irq[c] \notin Choosing

Locked == OneLocker => Counted /\ LockKept

(* A step of another call leaves the count and the counting tasks alone.    *)
CountStays(t) ==
  /\ suspendAll' = suspendAll
  /\ pc[t] \notin Counting /\ pc'[t] \notin Counting

LEMMA OtherCalls ==
  ASSUME TypeOK, NEW c \in Cores, NEW t \in Tasks, TaskStep(c, t)
  PROVE  \/ CountStays(t)
         \/ SuspendAllLoad(c, t) \/ SuspendAllStore(c, t)
         \/ ResumeAllLoad(c, t) \/ ResumeAllStore(c, t) \/ ResumeAllYield(c, t)
<1> USE DEF TypeOK, Goto, Return, At, Counting, CountStays, all
<1>1. CASE SuspendRemove(c, t) \/ ResumeRemove(c, t)
  BY <1>1 DEF SuspendRemove, ResumeRemove
<1>2. CASE SuspendInsert(c, t) \/ ResumeInsert(c, t)
  BY <1>2 DEF SuspendInsert, ResumeInsert
<1>3. CASE SuspendReread(c, t) \/ SuspendYield(c, t) \/ Yield(c, t)
  BY <1>3 DEF SuspendReread, SuspendYield, Yield
<1>4. CASE ResumeTest(c, t) \/ ResumeRaise(c, t) \/ ResumeStore(c, t) \/ ResumeYield(c, t)
  BY <1>4 DEF ResumeTest, ResumeRaise, ResumeStore, ResumeYield
<1>5. ASSUME NEW x, NEW k, SuspendEnter(c, t, x, k) PROVE CountStays(t)
  BY <1>5 DEF SuspendEnter
<1>6. ASSUME NEW x, NEW k, ResumeCheck(c, t, x, k) PROVE CountStays(t)
  BY <1>6 DEF ResumeCheck
<1> QED
  BY <1>1, <1>2, <1>3, <1>4, <1>5, <1>6 DEF TaskStep

(* A call keeps the count right: nobody else counts.                        *)
LEMMA CallCounted ==
  ASSUME IInv, OneLocker, Counted, NEW c \in Cores, NEW t \in Tasks,
         TaskStep(c, t)
  PROVE  Counted'
<1>1. Others(t)
  BY CallEffects DEF IInv
<1>2. \A u \in Lockers : u \in Tasks
  BY CallsAssumption
<1>3. CASE CountStays(t)
  BY <1>1, <1>2, <1>3 DEF Others, Counted, CountStays, Counting
<1>4. CASE ~CountStays(t)
  <2> USE DEF At, Goto, Return, Counting, IInv, TypeOK, Locals, all
  <2>1. t \in Lockers /\ (\A u \in Lockers : u = t)
    <3>1. t \in Lockers
      BY <1>4, OtherCalls DEF SuspendAllLoad, SuspendAllStore, ResumeAllLoad,
         ResumeAllStore, ResumeAllYield, Counted
    <3> QED
      BY <3>1 DEF OneLocker
  <2>2. /\ suspendAll' = IF pc'[t] \in {"locked", "aDrop"} THEN 1 ELSE 0
        /\ pc'[t] = "aStore" => loc'[t].count = 1
        /\ pc'[t] = "aDrop" => loc'[t].count = 0
    <3>1. CASE SuspendAllLoad(c, t)
      <4>1. suspendAll = 0 /\ suspendAll' = 0 /\ t \in Tasks
        BY <2>1, <3>1 DEF SuspendAllLoad, Counted
      <4>2. pc'[t] = "aStore"
        BY <3>1 DEF SuspendAllLoad
      <4>3. loc'[t].count = suspendAll + 1
        BY <3>1 DEF SuspendAllLoad
      <4> QED
        BY <4>1, <4>2, <4>3
    <3>2. CASE SuspendAllStore(c, t)
      BY <2>1, <3>2 DEF SuspendAllStore, Counted
    <3>3. CASE ResumeAllLoad(c, t)
      BY <2>1, <3>3 DEF ResumeAllLoad, Counted
    <3>4. CASE ResumeAllStore(c, t)
      BY <2>1, <3>4 DEF ResumeAllStore, Counted
    <3>5. CASE ResumeAllYield(c, t)
      BY <2>1, <3>5 DEF ResumeAllYield, Counted
    <3> QED
      BY <1>4, <3>1, <3>2, <3>3, <3>4, <3>5, OtherCalls
  <2>3. \A u \in Tasks : pc'[u] \in Counting => u \in Lockers
    BY <1>1, <2>1 DEF Others, Counted
  <2> QED
    BY <2>1, <2>2, <2>3 DEF Counted
<1> QED
  BY <1>3, <1>4

(* The task that stores the count is running, and its core is no interrupt. *)
LEMMA CallKept ==
  ASSUME IInv, LockKept, NEW c \in Cores, NEW t \in Tasks, TaskStep(c, t)
  PROVE  LockKept'
<1>1. Others(t)
  BY CallEffects DEF IInv
<1>2. /\ irq[c] = "none" /\ current[c] = t /\ current' = current
      /\ \A k \in Cores : irq'[k] = irq[k] \/ irq'[k] = "halt"
  BY CallFrame DEF TaskFrame, IInv, ContextIntact, TypeOK
<1>3. ASSUME NEW u \in Tasks, pc'[u] \in {"locked", "aDrop"}
      PROVE  \E k \in Cores : current'[k] = u /\ irq'[k] \notin Choosing
  <2>1. CASE u = t
    BY <1>2, <2>1 DEF Choosing
  <2>2. CASE u # t
    BY <1>1, <1>2, <1>3, <2>2 DEF Others, LockKept, Choosing
  <2> QED
    BY <2>1, <2>2
<1> QED
  BY <1>3 DEF LockKept

(* With the scheduler suspended, a switch that begins ends without a        *)
(* choice; a core that chooses began before.                                *)
LEMMA SwitchKept ==
  ASSUME IInv, OneLocker, Counted, LockKept, NEW c \in Cores, InterruptStep(c)
  PROVE  Counted' /\ LockKept'
<1>1. UNCHANGED <<pc, loc, suspendAll>>
  BY DEF InterruptStep, InterruptEnter, SwitchLock, SwitchMiss, ScanCount,
         ScanNext, ScanEmptied, ScanExhausted, ScanLower, SwitchPick,
         InterruptExit, all
<1>2. Counted'
  BY <1>1 DEF Counted
<1>3. ASSUME NEW u \in Tasks, pc[u] \in {"locked", "aDrop"}
      PROVE  \E k \in Cores : current'[k] = u /\ irq'[k] \notin Choosing
  <2>1. PICK k \in Cores : current[k] = u /\ irq[k] \notin Choosing
    BY <1>3 DEF LockKept
  <2>2. suspendAll = 1
    BY <1>3 DEF Counted, Counting
  <2>3. irq' = [irq EXCEPT ![c] = irq'[c]] /\ irq \in [Cores -> Switching \cup {"none", "halt"}]
    BY DEF IInv, TypeOK, InterruptStep, InterruptEnter, SwitchLock, SwitchMiss,
           ScanCount, ScanNext, ScanEmptied, ScanExhausted, ScanLower,
           SwitchPick, InterruptExit, Halt
  <2>4. irq[c] \notin Choosing => UNCHANGED current /\ irq'[c] \notin Choosing
    BY <2>2, <2>3 DEF Choosing, InterruptStep, InterruptEnter, SwitchLock,
       SwitchMiss, ScanCount, ScanNext, ScanEmptied, ScanExhausted, ScanLower,
       SwitchPick, InterruptExit, Halt
  <2>5. k # c => current'[k] = current[k]
    BY DEF InterruptStep, InterruptEnter, SwitchLock, SwitchMiss, ScanCount,
           ScanNext, ScanEmptied, ScanExhausted, ScanLower, SwitchPick,
           InterruptExit, IInv, TypeOK
  <2> QED
    BY <2>1, <2>3, <2>4, <2>5
<1> QED
  BY <1>1, <1>2, <1>3 DEF LockKept

(* Between vTaskSuspendAll() and xTaskResumeAll() the caller is not swapped *)
(* out, wherever the other tasks yield, suspend and resume, as long as no   *)
(* other task suspends the scheduler: the count has no lock, and two that   *)
(* count at once lose it.                                                   *)
THEOREM LockedStays == Spec => [](OneLocker => LockedRuns)
<1>1. Init => IInv /\ Locked
  <2>1. Init => Counted /\ LockKept
    BY CallsAssumption DEF Init, Counted, LockKept, Counting
  <2> QED
    BY <2>1, InitInv DEF Locked
<1>2. IInv /\ Locked /\ [Next]_vars => (IInv /\ Locked)'
  <2> SUFFICES ASSUME IInv, Locked, [Next]_vars, OneLocker
               PROVE  Counted' /\ LockKept'
    BY NextInv DEF Locked, OneLocker
  <2>1. Counted /\ LockKept
    BY DEF Locked
  <2>2. CASE UNCHANGED vars
    BY <2>1, <2>2 DEF vars, Counted, LockKept
  <2>3. ASSUME NEW c \in Cores, InterruptStep(c) PROVE Counted' /\ LockKept'
    BY <2>1, <2>3, SwitchKept
  <2>4. ASSUME NEW c \in Cores, NEW t \in Tasks, TaskStep(c, t)
        PROVE  Counted' /\ LockKept'
    BY <2>1, <2>4, CallCounted, CallKept
  <2> QED
    BY <2>2, <2>3, <2>4 DEF Next
<1>3. IInv /\ Locked => (OneLocker => LockedRuns)
  BY DEF Locked, LockKept, LockedRuns
<1> QED
  BY <1>1, <1>2, <1>3, PTL DEF Spec

-----------------------------------------------------------------------------
(* One core makes all the calls.                                            *)

(* The tasks of the level that core 1 starts at.                            *)
Own ==
  {t \in Tasks : \E u \in CreatedOn(1) :
     Priority[t] = Priority[u] /\ \A v \in CreatedOn(1) : Priority[v] <= Priority[u]}

(* The task that a call of vTaskSuspend is about.                           *)
Target(call) == IF call[2] = NoTask THEN call[1] ELSE call[2]
Targets == {Target(call) : call \in SuspendCalls}

(* All calls are about core 0 and made by tasks that core 1 never runs; the *)
(* tasks of core 1 and one task of the lowest level, the idle task, are     *)
(* never suspended, and a task of core 0 is at least as important as any.   *)
OneCore ==
  /\ Lockers = {}
  /\ \A call \in SuspendCalls \cup ResumeCalls : call[1] \notin Own /\ call[3] = 0
  /\ Targets \cap Own = {}
  /\ \E t \in Tasks \ (Own \cup Targets) : Priority[t] = 0
  /\ \E t \in CreatedOn(0) : \A u \in Tasks : Priority[u] <= Priority[t]

(* Core 1 switches among its own tasks, which make no call; the rest is     *)
(* for core 0.                                                              *)
Calling == {"sReread", "sRemove", "sInsert", "sYield", "rTest", "rRemove", "rRaise",
            "rStore", "rInsert", "rYield"}
Divided ==
  /\ suspendAll = 0
  /\ irq[0] \notin {"halt", "miss"} /\ irq[1] \notin {"halt", "miss", "lower"}
  /\ current[0] \in Tasks /\ current[1] \in Own /\ top[1] = Priority[current[1]]
  /\ \A t \in Tasks : pc[t] # "run" => pc[t] \in Calling /\ t \notin Own /\ loc[t].core = 0

(* Who is suspended, or on the way, is named by a call; only the call that  *)
(* will yield suspends the task that runs.                                  *)
Named ==
  /\ suspended \subseteq Targets
  /\ \A t \in Tasks :
       /\ pc[t] = "sReread" => loc[t].self /\ current[0] \in Targets
       /\ pc[t] \in {"sRemove", "sInsert"} =>
            loc[t].task \in Targets /\ (loc[t].self \/ loc[t].task # current[0])
       /\ pc[t] = "rRemove" => loc[t].task \in suspended
       /\ pc[t] \in {"rRaise", "rStore", "rInsert", "rYield"} => loc[t].task \in Targets

(* Core 0 has yet to choose.                                                *)
Rescheduled == pending[0] # {} \/ irq[0] \in {"spin", "count", "next", "lower", "pick"}

(* A task that is suspended while it runs is about to be switched out.      *)
Stopping ==
  current[0] \in suspended => Rescheduled \/ \E t \in Tasks : pc[t] = "sYield"

(* A scan has passed nothing but what the other core runs.                  *)
PassedOver(c) ==
  /\ scan[c].level = top[c] /\ scan[c].n <= Len(ready[top[c]])
  /\ \A i \in scan[c].n + 1 .. Len(ready[top[c]]) : ready[top[c]][i] = current[Other(c)]
Scanning ==
  \A c \in Cores :
    /\ irq[c] \in {"next", "lower"} => PassedOver(c)
    /\ irq[c] = "lower" => scan[c].n = 0
    /\ irq[c] = "pick" => /\ scan[c].pick \in Tasks \ suspended
                          /\ Priority[scan[c].pick] = top[c]

(* What is ready and out of sight of core 0 runs on core 1.                 *)
InSight ==
  /\ \A t \in Tasks : IsReady(t) /\ Priority[t] > top[0] => t = current[1]
  /\ \A t \in Tasks : pc[t] = "rStore" => Priority[loc[t].task] > top[0]
  /\ \A t \in Tasks : pc[t] = "rInsert" => Priority[loc[t].task] <= top[0]

(* Core 0 runs a task of the level it sees, or is about to choose one.      *)
TopRuns ==
  \/ Priority[current[0]] = top[0] \/ Rescheduled
  \/ \E t \in Tasks : /\ pc[t] \in {"rInsert", "rYield"}
                      /\ Priority[loc[t].task] >= Priority[current[0]]

Alone == Divided /\ Named /\ Stopping /\ Scanning /\ InSight /\ TopRuns

-----------------------------------------------------------------------------
(* What follows from the parts.                                             *)

LEMMA OwnLevel ==
  /\ Own \subseteq Tasks /\ Targets \subseteq Tasks
  /\ \A t \in Tasks, u \in Own : t \in Own <=> Priority[t] = Priority[u]
  /\ \A t \in Tasks : Priority[t] \in Levels /\ Priority[t] \in Nat
<1>1. \A t \in Tasks : Priority[t] \in Levels /\ Priority[t] \in Nat
  BY LevelsAssumption DEF Levels
<1>2. \A u \in CreatedOn(1) : u \in Tasks
  BY DEF CreatedOn
<1>3. ASSUME NEW t \in Own, NEW u \in Own PROVE Priority[t] = Priority[u]
  BY <1>1, <1>2, <1>3 DEF Own
<1>4. ASSUME NEW t \in Tasks, NEW u \in Own, Priority[t] = Priority[u] PROVE t \in Own
  BY <1>4 DEF Own
<1>5. Targets \subseteq Tasks
  BY CallsAssumption DEF Targets, Target
<1> QED
  BY <1>1, <1>3, <1>4, <1>5 DEF Own

(* What no call names is ready for ever.                                    *)
LEMMA NeverNamed ==
  ASSUME IInv, Homes, Named, NEW t \in Tasks \ Targets
  PROVE  t \in ToSet(ready[Priority[t]]) /\ t \notin suspended
<1>1. t \notin suspended
  BY DEF Named
<1>2. \A u \in Tasks : ~Holds(u, t)
  BY DEF Named, Holds
<1>3. IsReady(t)
  BY <1>1, <1>2 DEF Homes, NotLost, OnList
<1>4. PICK p \in Levels : t \in ToSet(ready[p])
  BY <1>3 DEF IsReady
<1>5. Priority[t] = p
  BY <1>4 DEF Homes, Once
<1> QED
  BY <1>1, <1>4, <1>5

(* Only the task that runs on core 0 is in a critical section.              *)
LEMMA CriticalOnZero ==
  ASSUME IInv, Divided, NEW t \in Tasks, pc[t] \in Critical
  PROVE  irq[0] = "none" /\ current[0] = t
<1>1. PICK c \in Cores : live[c] = t
  BY DEF IInv, CriticalPinned
<1>2. pc[t] # "run"
  BY DEF Critical
<1>3. t # NoTask
  BY TasksAssumption
<1>4. current[c] = t
  BY <1>1, <1>3 DEF IInv, Residence
<1>5. c = 0
  BY <1>2, <1>4 DEF Divided, Cores
<1>6. irq[0] \notin Switching
  BY <1>1, <1>3, <1>5 DEF IInv, Residence
<1>7. irq[0] \in Switching \cup {"none", "halt"}
  BY <1>1, <1>5 DEF IInv, TypeOK
<1> QED
  BY <1>4, <1>5, <1>6, <1>7 DEF Divided

(* The steps of the calls that core 0 makes.                                *)
ZeroStep(t) ==
  \/ \E x \in Tasks \cup {NoTask} : <<t, x, 0>> \in SuspendCalls /\ SuspendEnter(0, t, x, 0)
  \/ SuspendReread(0, t) \/ SuspendRemove(0, t)
  \/ SuspendInsert(0, t) \/ SuspendYield(0, t)
  \/ \E x \in Tasks : <<t, x, 0>> \in ResumeCalls /\ ResumeCheck(0, t, x, 0)
  \/ ResumeTest(0, t) \/ ResumeRemove(0, t)
  \/ ResumeRaise(0, t) \/ ResumeStore(0, t)
  \/ ResumeInsert(0, t) \/ ResumeYield(0, t)

(* Where a call stands that takes a step.                                   *)
LEMMA StepsAt ==
  ASSUME NEW c \in Cores, NEW t \in Tasks, TaskStep(c, t)
  PROVE  /\ irq[c] = "none" /\ live[c] = t
         /\ \/ Yield(c, t)
            \/ \E x \in Tasks \cup {NoTask}, k \in Cores :
                 <<t, x, k>> \in SuspendCalls /\ SuspendEnter(c, t, x, k)
            \/ \E x \in Tasks, k \in Cores :
                 <<t, x, k>> \in ResumeCalls /\ ResumeCheck(c, t, x, k)
            \/ t \in Lockers
            \/ pc[t] \in {"aStore", "locked", "aDrop", "aTest"}
            \/ /\ pc[t] \in Calling
               /\ \/ SuspendReread(c, t) \/ SuspendRemove(c, t)
                  \/ SuspendInsert(c, t) \/ SuspendYield(c, t)
                  \/ ResumeTest(c, t) \/ ResumeRemove(c, t)
                  \/ ResumeRaise(c, t) \/ ResumeStore(c, t)
                  \/ ResumeInsert(c, t) \/ ResumeYield(c, t)
<1> USE DEF At, Calling
<1>1. CASE \E x \in Tasks \cup {NoTask}, k \in Cores :
             <<t, x, k>> \in SuspendCalls /\ SuspendEnter(c, t, x, k)
  <2>1. PICK x \in Tasks \cup {NoTask}, k \in Cores : SuspendEnter(c, t, x, k)
    BY <1>1
  <2>2. irq[c] = "none" /\ live[c] = t
    BY <2>1 DEF SuspendEnter
  <2> QED
    BY <1>1, <2>2
<1>2. CASE \E x \in Tasks, k \in Cores :
             <<t, x, k>> \in ResumeCalls /\ ResumeCheck(c, t, x, k)
  BY <1>2 DEF ResumeCheck
<1>3. CASE SuspendReread(c, t) \/ SuspendRemove(c, t) \/ SuspendInsert(c, t) \/ SuspendYield(c, t)
  BY <1>3 DEF SuspendReread, SuspendRemove, SuspendInsert, SuspendYield
<1>4. CASE \/ ResumeTest(c, t) \/ ResumeRemove(c, t) \/ ResumeRaise(c, t)
           \/ ResumeStore(c, t) \/ ResumeInsert(c, t) \/ ResumeYield(c, t)
  BY <1>4 DEF ResumeTest, ResumeRemove, ResumeRaise, ResumeStore, ResumeInsert, ResumeYield
<1>5. CASE Yield(c, t)
  BY <1>5 DEF Yield
<1>6. CASE \/ SuspendAllLoad(c, t) \/ SuspendAllStore(c, t) \/ ResumeAllLoad(c, t)
           \/ ResumeAllStore(c, t) \/ ResumeAllYield(c, t)
  BY <1>6 DEF SuspendAllLoad, SuspendAllStore, ResumeAllLoad, ResumeAllStore, ResumeAllYield
<1> QED
  BY <1>1, <1>2, <1>3, <1>4, <1>5, <1>6 DEF TaskStep

LEMMA CallsOnZero ==
  ASSUME IInv, OneCore, Divided, NEW c \in Cores, NEW t \in Tasks, TaskStep(c, t)
  PROVE  /\ irq[c] = "none" /\ current[c] = t
         /\ Yield(c, t) \/ (c = 0 /\ t \notin Own /\ ZeroStep(t))
<1>1. irq[c] = "none" /\ live[c] = t
  BY StepsAt
<1>2. current[c] = t
  BY <1>1 DEF IInv, Residence
<1>3. t \notin Own => c = 0
  BY <1>2 DEF Divided, Cores
<1>4. t \notin Lockers /\ pc[t] \notin {"aStore", "locked", "aDrop", "aTest"}
  BY DEF OneCore, Divided, Calling
<1>5. ASSUME NEW x, NEW k, <<t, x, k>> \in SuspendCalls \cup ResumeCalls
      PROVE  t \notin Own /\ k = 0
  <2>1. <<t, x, k>>[1] \notin Own /\ <<t, x, k>>[3] = 0
    BY <1>5 DEF OneCore
  <2> QED
    BY <2>1
<1>6. pc[t] \in Calling => t \notin Own
  BY DEF Divided, Calling
<1>7. CASE \E x \in Tasks \cup {NoTask}, k \in Cores :
             <<t, x, k>> \in SuspendCalls /\ SuspendEnter(c, t, x, k)
  BY <1>1, <1>2, <1>3, <1>5, <1>7 DEF ZeroStep
<1>8. CASE \E x \in Tasks, k \in Cores :
             <<t, x, k>> \in ResumeCalls /\ ResumeCheck(c, t, x, k)
  BY <1>1, <1>2, <1>3, <1>5, <1>8 DEF ZeroStep
<1>9. CASE /\ pc[t] \in Calling
           /\ \/ SuspendReread(c, t) \/ SuspendRemove(c, t)
              \/ SuspendInsert(c, t) \/ SuspendYield(c, t)
              \/ ResumeTest(c, t) \/ ResumeRemove(c, t)
              \/ ResumeRaise(c, t) \/ ResumeStore(c, t)
              \/ ResumeInsert(c, t) \/ ResumeYield(c, t)
  BY <1>1, <1>2, <1>3, <1>6, <1>9 DEF ZeroStep
<1> QED
  BY <1>1, <1>2, <1>4, <1>7, <1>8, <1>9, StepsAt

-----------------------------------------------------------------------------
(* The calls of core 0.                                                     *)

(* No call finds the task it moves off all lists.                           *)
LEMMA OnListAtZero ==
  ASSUME IInv, Homes, Divided, Named, NEW t \in Tasks, pc[t] \in {"sRemove", "rRemove"}
  PROVE  loc[t].task \in Targets /\ OnList(loc[t].task)
<1>1. irq[0] = "none" /\ current[0] = t
  BY CriticalOnZero DEF Critical
<1>2. loc[t].task \in Targets
  BY DEF Named
<1>3. ASSUME NEW u \in Tasks, Holds(u, loc[t].task) PROVE FALSE
  <2>1. pc[u] \in {"sInsert", "rRaise", "rStore", "rInsert"}
    BY <1>3 DEF Holds
  <2>2. u = t
    BY <1>1, <2>1, CriticalOnZero DEF Critical
  <2> QED
    BY <2>1, <2>2
<1> QED
  BY <1>2, <1>3, OwnLevel DEF Homes, NotLost

(* What the calls leave alone: everything of core 1, and the ready list of  *)
(* its tasks.                                                               *)
ZeroFrame(t) ==
  /\ UNCHANGED <<current, lock, scan, irq, suspendAll>>
  /\ top'[1] = top[1] /\ pending[0] \subseteq pending'[0]
  /\ \A p \in Levels : (\A u \in Targets : Priority[u] # p) => ready'[p] = ready[p]
  /\ pc'[t] # "run" => pc'[t] \in Calling /\ loc'[t].core = 0

LEMMA TakenElsewhere ==
  ASSUME TypeOK, Once, NEW x \in Targets, vListRemove(x)
  PROVE  \A p \in Levels : (\A u \in Targets : Priority[u] # p) => ready'[p] = ready[p]
<1> SUFFICES ASSUME NEW p \in Levels, \A u \in Targets : Priority[u] # p
             PROVE  ready'[p] = ready[p]
  OBVIOUS
<1>1. x \notin ToSet(ready[p])
  BY DEF Once
<1> QED
  BY <1>1 DEF vListRemove

LEMMA ZeroFramed ==
  ASSUME IInv, Homes, Divided, Named, NEW t \in Tasks, current[0] = t, ZeroStep(t)
  PROVE  ZeroFrame(t)
<1> USE DEF ZeroFrame, Goto, Return, At, Calling, switch, regs, all, lists, IInv, TypeOK
<1>1. CASE \E x \in Tasks \cup {NoTask} : SuspendEnter(0, t, x, 0)
  <2>1. PICK x \in Tasks \cup {NoTask} : SuspendEnter(0, t, x, 0)
    BY <1>1
  <2>2. loc'[t].core = 0 /\ pc'[t] \in Calling
    BY <2>1 DEF SuspendEnter, Locals
  <2>3. UNCHANGED <<lists, switch, all, pending>>
    BY <2>1 DEF SuspendEnter
  <2> QED
    BY <2>2, <2>3
<1>2. CASE SuspendReread(0, t)
  BY <1>2 DEF SuspendReread, Divided, Locals
<1>3. CASE SuspendRemove(0, t)
  <2>1. pc[t] = "sRemove" /\ loc[t].task \in Targets /\ OnList(loc[t].task)
    BY <1>3, OnListAtZero DEF SuspendRemove
  <2>2. vListRemove(loc[t].task) /\ UNCHANGED <<current, top, lock, scan, irq, all, pending, loc>>
    BY <1>3, <2>1 DEF SuspendRemove
  <2>3. pc'[t] = "sInsert"
    BY <1>3, <2>1 DEF SuspendRemove
  <2> QED
    BY <2>1, <2>2, <2>3, TakenElsewhere DEF Homes, Divided
<1>4. CASE SuspendInsert(0, t)
  BY <1>4 DEF SuspendInsert, Divided
<1>5. CASE SuspendYield(0, t)
  BY <1>5 DEF SuspendYield, portYIELD_CORE
<1>6. CASE \E x \in Tasks : ResumeCheck(0, t, x, 0)
  BY <1>6 DEF ResumeCheck, Locals
<1>7. CASE ResumeTest(0, t)
  BY <1>7 DEF ResumeTest, Divided
<1>8. CASE ResumeRemove(0, t)
  <2>1. pc[t] = "rRemove" /\ loc[t].task \in Targets /\ OnList(loc[t].task)
    BY <1>8, OnListAtZero DEF ResumeRemove
  <2>2. vListRemove(loc[t].task) /\ UNCHANGED <<current, top, lock, scan, irq, all, pending, loc>>
    BY <1>8, <2>1 DEF ResumeRemove
  <2>3. pc'[t] = "rRaise"
    BY <1>8, <2>1 DEF ResumeRemove
  <2> QED
    BY <2>1, <2>2, <2>3, TakenElsewhere DEF Homes, Divided
<1>9. CASE ResumeRaise(0, t) \/ ResumeStore(0, t)
  <2>1. pc[t] \in {"rRaise", "rStore"} /\ loc[t].core = 0
    BY <1>9 DEF ResumeRaise, ResumeStore, Divided
  <2>2. UNCHANGED <<lists, current, lock, irq, scan, all, pending, loc>>
    BY <1>9 DEF ResumeRaise, ResumeStore
  <2>3. pc'[t] \in {"rStore", "rInsert"}
    BY <1>9, <2>1 DEF ResumeRaise, ResumeStore
  <2>4. top'[1] = top[1]
    BY <1>9, <2>1 DEF ResumeRaise, ResumeStore, Cores
  <2> QED
    BY <2>1, <2>2, <2>3, <2>4
<1>10. CASE ResumeInsert(0, t)
  <2>1. pc[t] = "rInsert" /\ loc[t].task \in Targets /\ loc[t].core = 0
    BY <1>10 DEF ResumeInsert, Named, Divided
  <2>2. \A p \in Levels : p # Priority[loc[t].task] => ready'[p] = ready[p]
    BY <1>10 DEF ResumeInsert, InsertReady
  <2> QED
    BY <1>10, <2>1, <2>2 DEF ResumeInsert
<1>11. CASE ResumeYield(0, t)
  <2>1. pc[t] = "rYield" /\ loc[t].core = 0
    BY <1>11 DEF ResumeYield, Divided
  <2>2. current[0] # NoTask
    BY TasksAssumption
  <2>3. UNCHANGED <<lists, current, top, lock, scan, all, irq>> /\ pc'[t] = "run"
    BY <1>11, <2>1, <2>2 DEF ResumeYield
  <2>4. pending[0] \subseteq pending'[0]
    BY <1>11, <2>1 DEF ResumeYield, portYIELD_CORE
  <2> QED
    BY <2>3, <2>4
<1> QED
  BY <1>1, <1>2, <1>3, <1>4, <1>5, <1>6, <1>7, <1>8, <1>9, <1>10, <1>11 DEF ZeroStep

(* Core 1 sees nothing of a call.                                           *)
LEMMA ZeroDivided ==
  ASSUME IInv, OneCore, Divided, NEW t \in Tasks \ Own, Others(t), ZeroFrame(t)
  PROVE  Divided'
BY DEF Divided, ZeroFrame, Others

LEMMA ZeroScanning ==
  ASSUME IInv, OneCore, Divided, Scanning, NEW t \in Tasks, ZeroFrame(t), irq[0] = "none",
         suspended' \subseteq Targets
  PROVE  Scanning'
<1>1. irq'[0] = "none" /\ irq'[1] = irq[1]
  BY DEF ZeroFrame
<1>2. \A u \in Targets : Priority[u] # top[1]
  BY OwnLevel DEF Divided, OneCore
<1>3. ready'[top[1]] = ready[top[1]]
  BY <1>2, OwnLevel DEF ZeroFrame, IInv, TypeOK, Cores
<1>4. irq[1] = "next" => PassedOver(1)'
  BY <1>3 DEF ZeroFrame, Scanning, PassedOver, Cores
<1>5. irq[1] = "pick" => /\ scan'[1].pick \in Tasks \ suspended'
                         /\ Priority[scan'[1].pick] = top'[1]
  <2> SUFFICES ASSUME irq[1] = "pick"
               PROVE  /\ scan'[1].pick \in Tasks \ suspended'
                      /\ Priority[scan'[1].pick] = top'[1]
    OBVIOUS
  <2>1. scan[1].pick \in Tasks /\ Priority[scan[1].pick] = top[1]
    BY DEF Scanning, Cores
  <2> QED
    BY <1>2, <2>1 DEF ZeroFrame
<1> QED
  BY <1>1, <1>4, <1>5 DEF Scanning, Cores, Divided

LEMMA ZeroNamed ==
  ASSUME IInv, Homes, OneCore, Divided, Named, NEW t \in Tasks, Others(t),
         current[0] = t, irq[0] = "none", ZeroStep(t), ZeroFrame(t)
  PROVE  Named'
<1> DEFINE ForT ==
      /\ pc'[t] = "sReread" => loc'[t].self /\ current[0] \in Targets
      /\ pc'[t] \in {"sRemove", "sInsert"} =>
           loc'[t].task \in Targets /\ (loc'[t].self \/ loc'[t].task # current[0])
      /\ pc'[t] = "rRemove" => loc'[t].task \in suspended'
      /\ pc'[t] \in {"rRaise", "rStore", "rInsert", "rYield"} => loc'[t].task \in Targets
<1>1. \A u \in Tasks \ {t} : pc'[u] = pc[u] /\ pc[u] \notin Critical
  BY CriticalOnZero DEF Others
<1>2. suspended' \subseteq Targets /\ ForT
  <2> USE DEF Goto, Return, At, Named, IInv, TypeOK, switch, regs, all, lists
  <2>1. ASSUME NEW x \in Tasks \cup {NoTask}, <<t, x, 0>> \in SuspendCalls,
               SuspendEnter(0, t, x, 0)
        PROVE  suspended' \subseteq Targets /\ ForT
    <3>1. /\ loc'[t].task = x /\ loc'[t].self = (x = NoTask \/ x = current[0])
          /\ pc'[t] = IF x = NoTask \/ x = current[0] THEN "sReread" ELSE "sRemove"
          /\ suspended' = suspended
      BY <2>1 DEF SuspendEnter, Locals
    <3>2. (IF x = NoTask THEN t ELSE x) \in Targets
      <4>1. Target(<<t, x, 0>>) \in Targets
        BY <2>1 DEF Targets
      <4> QED
        BY <4>1 DEF Target
    <3> QED
      BY <3>1, <3>2
  <2>2. CASE SuspendReread(0, t)
    <3>1. pc[t] = "sReread" /\ loc[t].core = 0
      BY <2>2 DEF SuspendReread, Divided
    <3>2. /\ loc'[t].task = current[0] /\ loc'[t].self = loc[t].self /\ pc'[t] = "sRemove"
          /\ suspended' = suspended
      BY <2>2, <3>1 DEF SuspendReread, Locals
    <3> QED
      BY <3>1, <3>2
  <2>3. CASE SuspendRemove(0, t)
    <3>1. pc[t] = "sRemove" /\ OnList(loc[t].task)
      BY <2>3, OnListAtZero DEF SuspendRemove
    <3>2. pc'[t] = "sInsert" /\ loc' = loc /\ suspended' \subseteq suspended
      BY <2>3, <3>1 DEF SuspendRemove, vListRemove
    <3> QED
      BY <3>1, <3>2
  <2>4. CASE SuspendInsert(0, t)
    <3>1. pc[t] = "sInsert" /\ suspended' = suspended \cup {loc[t].task}
      BY <2>4 DEF SuspendInsert
    <3>2. pc'[t] \in {"sYield", "run"}
      BY <2>4 DEF SuspendInsert
    <3> QED
      BY <3>1, <3>2
  <2>5. CASE SuspendYield(0, t)
    BY <2>5 DEF SuspendYield
  <2>6. CASE \E x \in Tasks : ResumeCheck(0, t, x, 0)
    BY <2>6 DEF ResumeCheck
  <2>7. CASE ResumeTest(0, t)
    BY <2>7 DEF ResumeTest
  <2>8. CASE ResumeRemove(0, t)
    <3>1. pc[t] = "rRemove" /\ OnList(loc[t].task) /\ loc[t].task \in Targets
      BY <2>8, OnListAtZero DEF ResumeRemove
    <3>2. pc'[t] = "rRaise" /\ loc' = loc /\ suspended' \subseteq suspended
      BY <2>8, <3>1 DEF ResumeRemove, vListRemove
    <3> QED
      BY <3>1, <3>2
  <2>9. CASE ResumeRaise(0, t) \/ ResumeStore(0, t)
    BY <2>9 DEF ResumeRaise, ResumeStore
  <2>10. CASE ResumeInsert(0, t)
    BY <2>10 DEF ResumeInsert
  <2>11. CASE ResumeYield(0, t)
    <3>1. current[0] # NoTask /\ loc[t].core = 0
      BY <2>11, TasksAssumption DEF ResumeYield, Divided
    <3>2. pc'[t] = "run" /\ suspended' = suspended
      BY <2>11, <3>1 DEF ResumeYield
    <3> QED
      BY <3>2
  <2> QED
    BY <2>1, <2>2, <2>3, <2>4, <2>5, <2>6, <2>7, <2>8, <2>9, <2>10, <2>11 DEF ZeroStep
<1>3. current' = current
  BY DEF ZeroFrame
<1> QED
  BY <1>1, <1>2, <1>3 DEF Named, Critical

(* What a call does to those that are suspended or ready.                   *)
LEMMA ZeroLists ==
  ASSUME IInv, Homes, OneCore, Divided, Named, NEW t \in Tasks, Others(t),
         current[0] = t, irq[0] = "none", ZeroStep(t), ZeroFrame(t)
  PROVE  /\ \/ suspended' \subseteq suspended
            \/ pc'[t] = "sYield"
            \/ suspended' \subseteq suspended \cup {loc[t].task} /\ loc[t].task # t
         /\ \/ \A y \in Tasks : IsReady(y)' => IsReady(y)
            \/ /\ pc[t] = "rInsert"
               /\ \A y \in Tasks : IsReady(y)' => IsReady(y) \/ y = loc[t].task
<1> USE DEF Goto, Return, At, IInv, TypeOK, switch, regs, all, lists
<1>0. lists' = lists => \A y \in Tasks : IsReady(y)' => IsReady(y)
  BY DEF IsReady
<1>1. CASE \E x \in Tasks \cup {NoTask} : SuspendEnter(0, t, x, 0)
  BY <1>0, <1>1 DEF SuspendEnter
<1>2. CASE SuspendReread(0, t) \/ SuspendYield(0, t)
  BY <1>0, <1>2 DEF SuspendReread, SuspendYield
<1>3. ASSUME vListRemove(loc[t].task), loc[t].task \in Targets
      PROVE  suspended' \subseteq suspended /\ \A y \in Tasks : IsReady(y)' => IsReady(y)
  <2>1. \A p \in Levels : ToSet(ready'[p]) = ToSet(ready[p]) \ {loc[t].task}
    BY <1>3, RemoveHome, OwnLevel DEF Homes
  <2> QED
    BY <1>3, <2>1 DEF vListRemove, IsReady
<1>4. CASE SuspendRemove(0, t) \/ ResumeRemove(0, t)
  <2>1. loc[t].task \in Targets /\ OnList(loc[t].task)
    BY <1>4, OnListAtZero DEF SuspendRemove, ResumeRemove
  <2>2. vListRemove(loc[t].task)
    BY <1>4, <2>1 DEF SuspendRemove, ResumeRemove
  <2> QED
    BY <1>3, <2>1, <2>2
<1>5. CASE SuspendInsert(0, t)
  <2>1. /\ pc[t] = "sInsert" /\ suspended' = suspended \cup {loc[t].task}
        /\ ready' = ready /\ (loc[t].self => pc'[t] = "sYield")
    BY <1>5 DEF SuspendInsert
  <2>2. loc[t].self \/ loc[t].task # t
    BY <2>1 DEF Named
  <2> QED
    BY <2>1, <2>2 DEF IsReady
<1>6. CASE \E x \in Tasks : ResumeCheck(0, t, x, 0)
  BY <1>0, <1>6 DEF ResumeCheck
<1>7. CASE \/ ResumeTest(0, t) \/ ResumeRaise(0, t) \/ ResumeStore(0, t)
           \/ ResumeYield(0, t)
  BY <1>0, <1>7 DEF ResumeTest, ResumeRaise, ResumeStore, ResumeYield
<1>8. CASE ResumeInsert(0, t)
  <2>1. pc[t] = "rInsert" /\ suspended' = suspended /\ InsertReady(loc[t].task)
    BY <1>8 DEF ResumeInsert
  <2>2. loc[t].task \in Tasks /\ Priority[loc[t].task] \in Levels
    BY <2>1, OwnLevel DEF Named
  <2>3. ASSUME NEW p \in Levels, NEW y \in ToSet(ready'[p])
        PROVE  y \in ToSet(ready[p]) \/ y = loc[t].task
    <3>1. CASE p = Priority[loc[t].task]
      <4>1. ready'[p] = Append(ready[p], loc[t].task) /\ ready[p] \in Seq(Tasks)
        BY <2>1, <2>2, <3>1 DEF InsertReady
      <4>2. IsInjective(ready[p]) /\ loc[t].task \notin ToSet(ready[p])
        <5>1. Holds(t, loc[t].task)
          BY <2>1 DEF Holds
        <5> QED
          BY <2>2, <5>1 DEF Homes, Once, Away, OnList, IsReady
      <4> QED
        BY <2>2, <2>3, <4>1, <4>2, AppendNew
    <3>2. CASE p # Priority[loc[t].task]
      BY <2>1, <2>3, <3>2 DEF InsertReady
    <3> QED
      BY <3>1, <3>2
  <2> QED
    BY <2>1, <2>3 DEF IsReady
<1> QED
  BY <1>1, <1>2, <1>4, <1>5, <1>6, <1>7, <1>8 DEF ZeroStep

LEMMA ZeroStopping ==
  ASSUME IInv, Homes, OneCore, Divided, Named, Stopping, NEW t \in Tasks, Others(t),
         current[0] = t, irq[0] = "none", ZeroStep(t), ZeroFrame(t)
  PROVE  Stopping'
<1>1. current'[0] = t /\ irq'[0] = "none" /\ pending[0] \subseteq pending'[0]
  BY DEF ZeroFrame
<1>2. pc[t] = "sYield" => pc'[t] = "sYield" \/ pending'[0] # {}
  <2> SUFFICES ASSUME pc[t] = "sYield" PROVE pending'[0] # {}
    OBVIOUS
  <2>1. SuspendYield(0, t) /\ loc[t].core = 0
    BY DEF ZeroStep, At, SuspendEnter, SuspendReread, SuspendRemove, SuspendInsert,
           ResumeCheck, ResumeTest, ResumeRemove, ResumeRaise, ResumeStore,
           ResumeInsert, ResumeYield, Divided
  <2> QED
    BY <2>1 DEF SuspendYield, portYIELD_CORE, IInv, TypeOK, Cores
<1>3. Rescheduled => Rescheduled'
  BY <1>1 DEF Rescheduled
<1>4. t \in suspended => Stopping'
  <2> SUFFICES ASSUME t \in suspended PROVE Stopping'
    OBVIOUS
  <2>1. CASE Rescheduled
    BY <1>3, <2>1 DEF Stopping
  <2>2. ASSUME NEW u \in Tasks, pc[u] = "sYield" PROVE Stopping'
    BY <1>2, <2>2 DEF Stopping, Others, Rescheduled
  <2> QED
    BY <2>1, <2>2 DEF Stopping
<1>5. CASE t \notin suspended
  BY <1>1, <1>5, ZeroLists DEF Stopping
<1> QED
  BY <1>4, <1>5

LEMMA ZeroInSight ==
  ASSUME IInv, Homes, OneCore, Divided, Named, InSight, NEW t \in Tasks, Others(t),
         current[0] = t, irq[0] = "none", ZeroStep(t), ZeroFrame(t), top'[0] \in Levels
  PROVE  InSight'
<1> USE DEF Goto, Return, At, IInv, TypeOK, switch, regs, all, lists
<1>1. \A u \in Tasks \ {t} : pc'[u] = pc[u] /\ pc[u] \notin Critical
  BY CriticalOnZero DEF Others
<1>2. current'[1] = current[1] /\ top[0] \in Levels /\ top'[0] \in Levels
  BY DEF ZeroFrame, Cores
<1>3. /\ top[0] <= top'[0]
      /\ pc'[t] = "rStore" => Priority[loc'[t].task] > top'[0]
      /\ pc'[t] = "rInsert" => Priority[loc'[t].task] <= top'[0]
  <2> DEFINE Same == top' = top /\ pc'[t] \notin {"rStore", "rInsert"}
  <2>1. ASSUME NEW x, SuspendEnter(0, t, x, 0) PROVE Same
    BY <2>1 DEF SuspendEnter
  <2>2. CASE SuspendReread(0, t) \/ SuspendYield(0, t) \/ SuspendInsert(0, t)
    <3>1. Same
      BY <2>2 DEF SuspendReread, SuspendYield, SuspendInsert
    <3> QED
      BY <1>2, <3>1 DEF Levels
  <2>3. CASE SuspendRemove(0, t) \/ ResumeRemove(0, t)
    <3>1. top' = top
      BY <2>3 DEF SuspendRemove, ResumeRemove
    <3>2. pc'[t] \notin {"rStore", "rInsert"}
      BY <2>3 DEF SuspendRemove, ResumeRemove
    <3> QED
      BY <1>2, <3>1, <3>2 DEF Levels
  <2>4. ASSUME NEW x, ResumeCheck(0, t, x, 0) PROVE Same
    BY <2>4 DEF ResumeCheck
  <2>5. CASE ResumeTest(0, t) \/ ResumeYield(0, t) \/ ResumeInsert(0, t)
    <3>1. top' = top
      BY <2>5 DEF ResumeTest, ResumeYield, ResumeInsert
    <3>2. pc'[t] \notin {"rStore", "rInsert"}
      BY <2>5 DEF ResumeTest, ResumeYield, ResumeInsert
    <3> QED
      BY <1>2, <3>1, <3>2 DEF Levels
  <2>6. CASE ResumeRaise(0, t)
    <3>1. pc[t] = "rRaise" /\ loc[t].core = 0 /\ loc' = loc /\ top' = top
      BY <2>6 DEF ResumeRaise, Divided
    <3>2. Priority[loc[t].task] \in Nat
      BY <3>1, OwnLevel DEF Named
    <3>3. pc'[t] = IF Priority[loc[t].task] > top[0] THEN "rStore" ELSE "rInsert"
      BY <2>6, <3>1 DEF ResumeRaise
    <3> QED
      BY <1>2, <3>1, <3>2, <3>3 DEF Levels
  <2>8. CASE ResumeStore(0, t)
    <3>1. /\ pc[t] = "rStore" /\ loc[t].core = 0 /\ loc' = loc
          /\ pc'[t] = "rInsert"
      BY <2>8 DEF ResumeStore, Divided
    <3>2. Priority[loc[t].task] \in Nat /\ Priority[loc[t].task] > top[0]
      BY <3>1, OwnLevel DEF Named, InSight
    <3>3. top'[0] = Priority[loc[t].task]
      BY <2>8, <3>1 DEF ResumeStore, Cores
    <3> QED
      BY <1>2, <3>1, <3>2, <3>3 DEF Levels
  <2>7. Same => /\ top[0] <= top'[0]
                /\ pc'[t] = "rStore" => Priority[loc'[t].task] > top'[0]
                /\ pc'[t] = "rInsert" => Priority[loc'[t].task] <= top'[0]
    BY <1>2 DEF Levels
  <2> HIDE DEF Same
  <2> QED
    BY <2>1, <2>2, <2>3, <2>4, <2>5, <2>6, <2>7, <2>8 DEF ZeroStep
<1>4. ASSUME NEW y \in Tasks, IsReady(y)', Priority[y] > top'[0] PROVE y = current[1]
  <2>1. Priority[y] > top[0]
    BY <1>2, <1>3, <1>4, OwnLevel DEF Levels
  <2>2. pc[t] = "rInsert" => Priority[loc[t].task] <= top[0]
    BY DEF InSight
  <2>3. IsReady(y)
    <3>1. pc[t] = "rInsert" => y # loc[t].task
      BY <1>2, <2>1, <2>2, OwnLevel DEF Levels
    <3> QED
      BY <1>4, <3>1, ZeroLists
  <2> QED
    BY <2>1, <2>3 DEF InSight
<1>5. \A u \in Tasks : /\ pc'[u] = "rStore" => Priority[loc'[u].task] > top'[0]
                       /\ pc'[u] = "rInsert" => Priority[loc'[u].task] <= top'[0]
  BY <1>1, <1>3 DEF Critical
<1> QED
  BY <1>2, <1>4, <1>5 DEF InSight

LEMMA ZeroTopRuns ==
  ASSUME IInv, Homes, OneCore, Divided, Named, InSight, TopRuns, NEW t \in Tasks, Others(t),
         current[0] = t, irq[0] = "none", ZeroStep(t), ZeroFrame(t)
  PROVE  TopRuns'
<1> USE DEF Goto, Return, At, IInv, TypeOK, switch, regs, all, lists
<1>1. \A u \in Tasks \ {t} : pc'[u] = pc[u] /\ pc[u] \notin Critical
  BY CriticalOnZero DEF Others
<1>2. current'[0] = t /\ irq'[0] = "none" /\ pending[0] \subseteq pending'[0]
  BY DEF ZeroFrame
<1>3. Rescheduled => TopRuns'
  BY <1>2 DEF Rescheduled, TopRuns
<1>4. Priority[t] \in Nat /\ top[0] \in Nat
  BY OwnLevel DEF Levels, Cores
<1>5. ASSUME NEW x, SuspendEnter(0, t, x, 0) PROVE top' = top /\ pc[t] = "run"
  BY <1>5 DEF SuspendEnter
<1>6. ASSUME NEW x, ResumeCheck(0, t, x, 0) PROVE top' = top /\ pc[t] = "run"
  BY <1>6 DEF ResumeCheck
<1>7. CASE top' = top /\ pc[t] \notin {"rInsert", "rYield"}
  BY <1>1, <1>2, <1>3, <1>7 DEF TopRuns, Critical
<1>8. CASE SuspendReread(0, t) \/ SuspendYield(0, t) \/ SuspendInsert(0, t)
  BY <1>7, <1>8 DEF SuspendReread, SuspendYield, SuspendInsert
<1>9. CASE SuspendRemove(0, t) \/ ResumeRemove(0, t) \/ ResumeTest(0, t)
  BY <1>7, <1>9 DEF SuspendRemove, ResumeRemove, ResumeTest
<1>10. CASE ResumeRaise(0, t)
  <2>1. top' = top /\ pc[t] = "rRaise"
    BY <1>10 DEF ResumeRaise
  <2> QED
    BY <1>7, <2>1
<1>13. CASE ResumeStore(0, t)
  <2>1. pc[t] = "rStore" /\ loc[t].core = 0 /\ loc' = loc /\ pc'[t] = "rInsert"
    BY <1>13 DEF ResumeStore, Divided
  <2>2. Priority[loc[t].task] \in Nat /\ Priority[loc[t].task] > top[0]
    BY <2>1, OwnLevel DEF Named, InSight
  <2>3. Rescheduled \/ Priority[t] = top[0]
    BY <1>1, <2>1 DEF TopRuns, Critical
  <2> QED
    BY <1>2, <1>3, <1>4, <2>1, <2>2, <2>3 DEF TopRuns
<1>11. CASE ResumeInsert(0, t)
  <2>1. pc[t] = "rInsert" /\ pc'[t] = "rYield" /\ top' = top /\ loc' = loc
    BY <1>11 DEF ResumeInsert
  <2> QED
    BY <1>1, <1>2, <1>3, <2>1 DEF TopRuns, Critical
<1>12. CASE ResumeYield(0, t)
  <2>1. pc[t] = "rYield" /\ loc[t].core = 0 /\ top' = top
    BY <1>12 DEF ResumeYield, Divided
  <2>2. Priority[loc[t].task] >= Priority[t] => pending'[0] # {}
    <3> SUFFICES ASSUME Priority[loc[t].task] >= Priority[t] PROVE pending'[0] # {}
      OBVIOUS
    <3>1. t # NoTask
      BY TasksAssumption
    <3>2. portYIELD_CORE(0, 0)
      BY <1>12, <2>1, <3>1 DEF ResumeYield
    <3>3. pending'[0] = pending[0] \cup {0}
      BY <3>2 DEF portYIELD_CORE, Cores
    <3> QED
      BY <3>3
  <2>3. \/ Rescheduled \/ Priority[t] = top[0]
        \/ Priority[loc[t].task] >= Priority[t]
    BY <1>1, <2>1 DEF TopRuns, Critical
  <2>4. pending'[0] # {} => TopRuns'
    BY DEF TopRuns, Rescheduled
  <2> QED
    BY <1>2, <1>3, <2>1, <2>2, <2>3, <2>4 DEF TopRuns
<1> QED
  BY <1>5, <1>6, <1>7, <1>8, <1>9, <1>10, <1>11, <1>12, <1>13 DEF ZeroStep

(* taskYIELD, on either core.                                               *)
LEMMA YieldAlone ==
  ASSUME IInv, Alone, NEW c \in Cores, NEW t \in Tasks, Yield(c, t)
  PROVE  Alone'
<1>1. UNCHANGED <<lists, switch, regs, all, masked, pc, loc>>
  BY DEF Yield
<1>2. pending[0] \subseteq pending'[0]
  BY DEF Yield, portYIELD_CORE, IInv, TypeOK, Cores
<1> USE DEF lists, switch, regs, all
<1>3. Divided' /\ Named' /\ InSight'
  BY <1>1 DEF Alone, Divided, Named, InSight, IsReady
<1>4. Scanning'
  BY <1>1 DEF Alone, Scanning, PassedOver
<1>5. Stopping' /\ TopRuns'
  BY <1>1, <1>2 DEF Alone, Stopping, TopRuns, Rescheduled
<1> QED
  BY <1>3, <1>4, <1>5 DEF Alone

LEMMA CallAlone ==
  ASSUME IInv, Homes, OneCore, Alone, NEW c \in Cores, NEW t \in Tasks, TaskStep(c, t)
  PROVE  Alone'
<1>1. irq[c] = "none" /\ current[c] = t
  BY CallsOnZero DEF Alone
<1>2. CASE Yield(c, t)
  BY <1>2, YieldAlone
<1>3. CASE c = 0 /\ t \notin Own /\ ZeroStep(t)
  <2>1. Others(t) /\ ZeroFrame(t)
    BY <1>1, <1>3, ZeroFramed, CallEffects DEF Alone, IInv
  <2>2. Divided' /\ Named'
    BY <1>1, <1>3, <2>1, ZeroDivided, ZeroNamed DEF Alone
  <2>3. Scanning'
    BY <1>1, <1>3, <2>1, <2>2, ZeroScanning DEF Alone, Named
  <2>4. top'[0] \in Levels
    BY TaskStepInv DEF IInv, TypeOK, Cores
  <2>5. Stopping' /\ InSight' /\ TopRuns'
    BY <1>1, <1>3, <2>1, <2>4, ZeroStopping, ZeroInSight, ZeroTopRuns DEF Alone
  <2> QED
    BY <2>2, <2>3, <2>5 DEF Alone
<1> QED
  BY <1>2, <1>3, CallsOnZero DEF Alone

-----------------------------------------------------------------------------
(* The switches of both cores.                                              *)

LEMMA TurnedEntries ==
  ASSUME NEW S, NEW s \in Seq(S), s # <<>>
  PROVE  LET r == Append(Tail(s), Head(s)) IN
         /\ r \in Seq(S) /\ Len(r) = Len(s) /\ Len(s) \in Nat \ {0}
         /\ \A i \in 1 .. Len(s) : r[i] = IF i < Len(s) THEN s[i + 1] ELSE Head(s)
<1>1. /\ Tail(s) \in Seq(S) /\ Len(Tail(s)) = Len(s) - 1 /\ Head(s) \in S
      /\ \A i \in 1 .. Len(s) - 1 : Tail(s)[i] = s[i + 1]
  BY HeadTailProperties
<1>2. Len(s) \in Nat \ {0}
  BY EmptySeq
<1> DEFINE q == Tail(s)
           h == Head(s)
           r == Append(q, h)
<1>3. /\ r \in Seq(S) /\ Len(r) = Len(q) + 1 /\ r[Len(q) + 1] = h
      /\ \A i \in 1 .. Len(q) : r[i] = q[i]
  <2> HIDE DEF q, h
  <2>1. q \in Seq(S) /\ h \in S
    BY <1>1 DEF q, h
  <2> QED
    BY <2>1, AppendProperties
<1>4. Len(q) = Len(s) - 1 /\ \A i \in 1 .. Len(s) - 1 : q[i] = s[i + 1]
  BY <1>1
<1> HIDE DEF r, q, h
<1>5. Len(r) = Len(s)
  BY <1>2, <1>3, <1>4
<1>6. ASSUME NEW i \in 1 .. Len(s)
      PROVE  r[i] = IF i < Len(s) THEN s[i + 1] ELSE h
  <2>1. CASE i < Len(s)
    BY <1>2, <1>3, <1>4, <2>1
  <2>2. CASE i = Len(s)
    BY <1>2, <1>3, <1>4, <2>2
  <2> QED
    BY <1>2, <2>1, <2>2
<1> QED
  BY <1>2, <1>3, <1>5, <1>6 DEF r, q, h

(* The other core does not choose at the same time.                         *)
LEMMA OneChooses ==
  ASSUME IInv, NEW c \in Cores, irq[c] \in Choosing, NEW d \in Cores \ {c}
  PROVE  irq[d] \notin Choosing
BY DEF IInv, LockOwner, Holding, Choosing

(* Something is found for core 1 at its level, and for core 0 at the last.  *)
LEMMA ScanFinds ==
  ASSUME IInv, Homes, OneCore, Alone, NEW c \in Cores, irq[c] = "next", scan[c].n = 0
  PROVE  c = 0 /\ top[0] > 0
<1> DEFINE s == ready[top[c]]
<1>1. s \in Seq(Tasks) /\ top[c] \in Levels
  BY DEF IInv, TypeOK
<1>2. \A x \in ToSet(s) : x = current[Other(c)]
  <2>1. \A i \in 1 .. Len(s) : s[i] = current[Other(c)]
    BY DEF Alone, Scanning, PassedOver
  <2> QED
    BY <1>1, <2>1, EntriesOf
<1>3. c # 1
  <2> SUFFICES ASSUME c = 1 PROVE FALSE
    OBVIOUS
  <2>1. current[1] \in Tasks \ Targets /\ top[1] = Priority[current[1]]
    BY OwnLevel DEF Alone, Divided, OneCore
  <2>2. current[1] \in ToSet(s)
    BY <2>1, NeverNamed DEF Alone
  <2> QED
    BY <1>2, <2>1, <2>2, TasksAssumption DEF IInv, NoSharedTask, Other
<1>4. c = 0
  BY <1>3 DEF Cores
<1>5. top[0] # 0
  <2> SUFFICES ASSUME top[0] = 0 PROVE FALSE
    OBVIOUS
  <2>1. PICK x \in Tasks \ (Own \cup Targets) : Priority[x] = 0
    BY DEF OneCore
  <2>2. x \in ToSet(s)
    BY <1>4, <2>1, NeverNamed DEF Alone
  <2>3. x = current[1]
    BY <1>2, <1>4, <2>2 DEF Other
  <2> QED
    BY <2>1, <2>3 DEF Alone, Divided
<1> QED
  BY <1>1, <1>4, <1>5 DEF Levels

(* What a step of the interrupt leaves alone.                               *)
SwitchFrame(c) ==
  /\ UNCHANGED <<suspended, suspendAll, pc, loc>>
  /\ \A k \in Cores \ {c} :
       /\ irq'[k] = irq[k] /\ pending'[k] = pending[k] /\ current'[k] = current[k]
       /\ top'[k] = top[k] /\ scan'[k] = scan[k]
  /\ irq[c] # "none" => pending'[c] = pending[c]
  /\ irq[c] # "next" => ready' = ready
  /\ \A y : IsReady(y)' <=> IsReady(y)

(* The places of the interrupt that a core comes through.                   *)
Through ==
  {<<"none", "spin">>, <<"spin", "count">>, <<"count", "next">>, <<"next", "next">>,
   <<"next", "pick">>, <<"exit", "none">>}
SwitchMoves(c) ==
  \/ <<irq[c], irq'[c]>> \in Through /\ UNCHANGED <<current, top>>
  \/ c = 0 /\ irq[0] = "next" /\ irq'[0] = "lower" /\ UNCHANGED <<current, top>>
  \/ /\ c = 0 /\ irq[0] = "lower" /\ irq'[0] = "count"
     /\ UNCHANGED current /\ top'[0] = top[0] - 1
  \/ /\ irq[c] = "pick" /\ irq'[c] = "exit"
     /\ UNCHANGED top /\ current'[c] = scan[c].pick

LEMMA SwitchFramed ==
  ASSUME IInv, Homes, Alone, NEW c \in Cores, InterruptStep(c)
  PROVE  SwitchFrame(c)
<1>1. Rotates
  BY SwitchEffects DEF IInv
<1>2. UNCHANGED <<suspended, pc, loc>>
  BY <1>1 DEF Rotates
<1>3. \A y : IsReady(y)' <=> IsReady(y)
  <2>1. CASE UNCHANGED ready
    BY <2>1 DEF IsReady
  <2>2. ASSUME NEW p \in Levels, ready[p] # <<>>, Rotate(p)
        PROVE  \A q \in Levels : ToSet(ready'[q]) = ToSet(ready[q])
    <3>1. ready[p] \in Seq(Tasks) /\ IsInjective(ready[p])
      BY DEF IInv, TypeOK, Homes, Once
    <3>2. ToSet(Append(Tail(ready[p]), Head(ready[p]))) = ToSet(ready[p])
      BY <2>2, <3>1, RotateOnce
    <3>3. /\ ready'[p] = Append(Tail(ready[p]), Head(ready[p]))
          /\ \A q \in Levels \ {p} : ready'[q] = ready[q]
      BY <2>2 DEF Rotate, IInv, TypeOK
    <3> QED
      BY <3>2, <3>3
  <2> QED
    BY <1>1, <2>1, <2>2 DEF Rotates, IsReady
<1>4. irq[c] # "next" => ready' = ready
  BY DEF InterruptStep, InterruptEnter, SwitchLock, SwitchMiss, ScanCount, ScanNext,
         ScanEmptied, ScanExhausted, ScanLower, SwitchPick, InterruptExit, lists
<1>5. suspendAll' = suspendAll
  BY DEF InterruptStep, InterruptEnter, SwitchLock, SwitchMiss, ScanCount, ScanNext,
         ScanEmptied, ScanExhausted, ScanLower, SwitchPick, InterruptExit, all
<1>6. irq[c] # "none" => pending' = pending
  BY DEF InterruptStep, InterruptEnter, SwitchLock, SwitchMiss, ScanCount, ScanNext,
         ScanEmptied, ScanExhausted, ScanLower, SwitchPick, InterruptExit
<1>7. \A k \in Cores \ {c} : pending'[k] = pending[k]
  BY DEF InterruptStep, InterruptEnter, SwitchLock, SwitchMiss, ScanCount, ScanNext,
         ScanEmptied, ScanExhausted, ScanLower, SwitchPick, InterruptExit, IInv, TypeOK
<1>8. \A k \in Cores \ {c} : top'[k] = top[k]
  BY DEF InterruptStep, InterruptEnter, SwitchLock, SwitchMiss, ScanCount, ScanNext,
         ScanEmptied, ScanExhausted, ScanLower, SwitchPick, InterruptExit, IInv, TypeOK
<1> QED
  BY <1>2, <1>3, <1>4, <1>5, <1>6, <1>7, <1>8, InterruptStepFrame DEF SwitchFrame

LEMMA SwitchMoved ==
  ASSUME IInv, Homes, OneCore, Alone, NEW c \in Cores, InterruptStep(c)
  PROVE  SwitchMoves(c)
<1> USE DEF SwitchMoves, Through
<1>0. irq \in [Cores -> Switching \cup {"none", "halt"}] /\ current \in [Cores -> Tasks \cup {NoTask}]
      /\ top \in [Cores -> Levels]
  BY DEF IInv, TypeOK
<1>1. CASE InterruptEnter(c)
  BY <1>0, <1>1 DEF InterruptEnter
<1>2. CASE SwitchLock(c)
  BY <1>0, <1>2 DEF SwitchLock, Alone, Divided
<1>3. CASE SwitchMiss(c)
  BY <1>3 DEF SwitchMiss, Alone, Divided, Cores
<1>4. CASE ScanCount(c)
  BY <1>0, <1>4 DEF ScanCount
<1>5. CASE ScanNext(c)
  BY <1>0, <1>5 DEF ScanNext
<1>6. CASE ScanEmptied(c)
  <2>1. irq[c] = "next" /\ scan[c].n > 0 /\ ready[scan[c].level] = <<>>
    BY <1>6 DEF ScanEmptied
  <2>2. scan[c].n <= Len(<<>>)
    BY <2>1 DEF Alone, Scanning, PassedOver
  <2>3. scan[c].n \in Nat
    BY ScanHas DEF IInv, TypeOK
  <2> QED
    BY <2>1, <2>2, <2>3
<1>7. CASE ScanExhausted(c)
  <2>1. c = 0 /\ top[0] > 0 /\ irq[0] = "next"
    BY <1>7, ScanFinds DEF ScanExhausted
  <2> QED
    BY <1>0, <1>7, <2>1 DEF ScanExhausted, Cores
<1>8. CASE ScanLower(c)
  <2>1. c = 0 /\ irq[0] = "lower"
    BY <1>8 DEF ScanLower, Alone, Divided, Cores
  <2>2. scan[0].level = top[0]
    BY <2>1 DEF Alone, Scanning, PassedOver, Cores
  <2> QED
    BY <1>0, <1>8, <2>1, <2>2 DEF ScanLower, Cores
<1>9. CASE SwitchPick(c)
  BY <1>0, <1>9 DEF SwitchPick
<1>10. CASE InterruptExit(c)
  <2>1. current[c] \in Tasks
    BY OwnLevel DEF Alone, Divided, Cores
  <2>2. current[c] # NoTask
    BY <2>1, TasksAssumption
  <2> QED
    BY <1>0, <1>10, <2>2 DEF InterruptExit
<1> QED
  BY <1>1, <1>2, <1>3, <1>4, <1>5, <1>6, <1>7, <1>8, <1>9, <1>10 DEF InterruptStep


(* A scan that goes on has passed only what the other core runs, and takes  *)
(* a task of its level that is not suspended.                               *)
LEMMA ScanNextPasses ==
  ASSUME IInv, Homes, Alone, NEW c \in Cores, ScanNext(c)
  PROVE  /\ irq'[c] = "next" => PassedOver(c)'
         /\ irq'[c] \in {"next", "pick"}
         /\ irq'[c] = "pick" => /\ scan'[c].pick \in Tasks \ suspended'
                                /\ Priority[scan'[c].pick] = top'[c]
<1> DEFINE s == ready[top[c]]
           r == Append(Tail(s), Head(s))
           n == scan[c].n
<1>1. /\ irq[c] = "next" /\ n \in Nat \ {0} /\ scan[c].level = top[c] /\ top[c] \in Levels
      /\ s # <<>> /\ s \in Seq(Tasks)
  <2>1. irq[c] = "next" /\ scan[c].n > 0 /\ ready[scan[c].level] # <<>>
    BY DEF ScanNext
  <2>2. scan[c].n \in Nat
    BY ScanHas DEF IInv, TypeOK
  <2>3. scan[c].level = top[c]
    BY <2>1 DEF Alone, Scanning, PassedOver
  <2> QED
    BY <2>1, <2>2, <2>3 DEF IInv, TypeOK
<1>2. n <= Len(s) /\ \A i \in n + 1 .. Len(s) : s[i] = current[Other(c)]
  BY <1>1 DEF Alone, Scanning, PassedOver
<1>3. /\ ready' = [ready EXCEPT ![top[c]] = r] /\ UNCHANGED <<top, current, suspended>>
      /\ \/ /\ Head(s) # current[Other(c)]
            /\ scan' = [scan EXCEPT ![c].n = @ - 1, ![c].pick = Head(s)]
            /\ irq' = [irq EXCEPT ![c] = "pick"]
         \/ /\ Head(s) = current[Other(c)]
            /\ scan' = [scan EXCEPT ![c].n = @ - 1] /\ UNCHANGED irq
  BY <1>1 DEF ScanNext, Rotate
<1>4. CASE Head(s) # current[Other(c)]
  <2>1. irq'[c] = "pick" /\ scan'[c].pick = Head(s)
    BY <1>3, <1>4 DEF IInv, TypeOK, Scans
  <2>2. Head(s) \in ToSet(s) /\ Head(s) \in Tasks
    <3>1. Head(s) = s[1] /\ Len(s) \in Nat \ {0}
      BY <1>1, EmptySeq
    <3> HIDE DEF s
    <3> QED
      BY <1>1, <3>1, EntriesOf
  <2>3. Priority[Head(s)] = top[c]
    BY <1>1, <2>2 DEF Homes, Once
  <2>4. Head(s) \notin suspended
    BY <1>1, <2>2 DEF Homes, Apart, IsReady
  <2> QED
    BY <1>3, <2>1, <2>2, <2>3, <2>4
<1>5. CASE Head(s) = current[Other(c)]
  <2>1. irq'[c] = "next" /\ scan'[c].n = n - 1 /\ scan'[c].level = scan[c].level
    BY <1>1, <1>3, <1>5 DEF IInv, TypeOK, Scans
  <2>2. ready'[top[c]] = r
    BY <1>1, <1>3 DEF IInv, TypeOK
  <2>3. /\ Len(r) = Len(s) /\ Len(s) \in Nat \ {0}
        /\ \A i \in 1 .. Len(s) : r[i] = IF i < Len(s) THEN s[i + 1] ELSE Head(s)
    <3> HIDE DEF s
    <3> QED
      BY <1>1, TurnedEntries
  <2> HIDE DEF s, r, n
  <2>4. n - 1 <= Len(r) /\ \A i \in (n - 1) + 1 .. Len(r) : r[i] = current[Other(c)]
    <3>1. ASSUME NEW i \in (n - 1) + 1 .. Len(r) PROVE r[i] = current[Other(c)]
      <4>1. CASE i < Len(s)
        <5>1. i \in 1 .. Len(s) /\ i + 1 \in n + 1 .. Len(s)
          BY <1>1, <2>3, <4>1
        <5>2. s[i + 1] = current[Other(c)]
          BY <1>2, <5>1
        <5> QED
          BY <2>3, <4>1, <5>1, <5>2
      <4>2. CASE i = Len(s)
        BY <1>5, <2>3, <4>2
      <4> QED
        BY <1>1, <2>3, <4>1, <4>2
    <3> QED
      BY <1>1, <1>2, <2>3, <3>1
  <2>5. top'[c] = top[c] /\ current'[Other(c)] = current[Other(c)]
    BY <1>3
  <2>6. PassedOver(c)'
    BY <1>1, <2>1, <2>2, <2>4, <2>5 DEF PassedOver
  <2> QED
    BY <2>1, <2>6
<1> QED
  BY <1>4, <1>5


LEMMA OwnScan ==
  ASSUME IInv, Homes, OneCore, Alone, NEW c \in Cores, InterruptStep(c)
  PROVE  /\ irq'[c] \in {"next", "lower"} => PassedOver(c)'
         /\ irq'[c] = "lower" => scan'[c].n = 0
         /\ irq'[c] = "pick" => /\ scan'[c].pick \in Tasks \ suspended'
                                /\ Priority[scan'[c].pick] = top'[c]
<1>0. /\ irq \in [Cores -> Switching \cup {"none", "halt"}] /\ scan \in [Cores -> Scans]
      /\ ready \in [Levels -> Seq(Tasks)] /\ top \in [Cores -> Levels]
  BY DEF IInv, TypeOK
<1>1. CASE ScanCount(c)
  <2>1. irq'[c] = "next" /\ UNCHANGED <<ready, top, current>>
    BY <1>0, <1>1 DEF ScanCount, lists
  <2>2. scan'[c].level = top[c] /\ scan'[c].n = Len(ready[top[c]])
    BY <1>0, <1>1 DEF ScanCount, Scans
  <2>3. Len(ready[top[c]]) \in Nat
    BY <1>0
  <2>4. PassedOver(c)'
    BY <2>1, <2>2, <2>3 DEF PassedOver
  <2> QED
    BY <2>1, <2>4
<1>2. CASE ScanNext(c)
  BY <1>2, ScanNextPasses
<1>3. CASE ScanEmptied(c)
  <2>1. irq[c] = "next" /\ scan[c].n > 0 /\ ready[scan[c].level] = <<>>
    BY <1>3 DEF ScanEmptied
  <2>2. scan[c].n <= Len(<<>>) /\ scan[c].n \in Nat
    BY <2>1, ScanHas DEF Alone, Scanning, PassedOver, IInv, TypeOK
  <2> QED
    BY <2>1, <2>2
<1>4. CASE ScanExhausted(c)
  <2>1. irq[c] = "next" /\ scan[c].n = 0 /\ c = 0 /\ top[0] > 0
    BY <1>4, ScanFinds DEF ScanExhausted
  <2>2. irq'[c] = "lower" /\ UNCHANGED <<ready, top, current>>
    BY <1>0, <1>4, <2>1 DEF ScanExhausted, lists, Cores
  <2>3. scan'[c].level = top[c] /\ scan'[c].n = scan[c].n
    BY <1>0, <1>4 DEF ScanExhausted, Scans
  <2>4. PassedOver(c)'
    BY <2>1, <2>2, <2>3 DEF Alone, Scanning, PassedOver
  <2> QED
    BY <2>1, <2>2, <2>3, <2>4
<1>5. CASE \/ InterruptEnter(c) \/ SwitchLock(c) \/ SwitchMiss(c) \/ ScanLower(c)
           \/ SwitchPick(c) \/ InterruptExit(c)
  <2>1. irq'[c] \notin {"next", "lower", "pick"}
    BY <1>0, <1>5 DEF InterruptEnter, SwitchLock, SwitchMiss, ScanLower, SwitchPick,
                      InterruptExit, Halt
  <2> QED
    BY <2>1
<1> QED
  BY <1>1, <1>2, <1>3, <1>4, <1>5 DEF InterruptStep

LEMMA SwitchScanning ==
  ASSUME IInv, Homes, OneCore, Alone, NEW c \in Cores, InterruptStep(c),
         SwitchFrame(c), SwitchMoves(c)
  PROVE  Scanning'
<1> SUFFICES ASSUME NEW d \in Cores \ {c}
             PROVE  /\ irq'[d] \in {"next", "lower"} => PassedOver(d)'
                    /\ irq'[d] = "lower" => scan'[d].n = 0
                    /\ irq'[d] = "pick" => /\ scan'[d].pick \in Tasks \ suspended'
                                           /\ Priority[scan'[d].pick] = top'[d]
  BY OwnScan DEF Scanning
<1>1. irq'[d] = irq[d] /\ scan'[d] = scan[d] /\ top'[d] = top[d] /\ suspended' = suspended
  BY DEF SwitchFrame
<1>2. ASSUME irq[d] \in {"next", "lower"} PROVE PassedOver(d)'
  <2>1. irq[c] \notin Choosing
    BY <1>2, OneChooses DEF Choosing
  <2>2. ready' = ready /\ current' = current
    BY <2>1 DEF SwitchFrame, SwitchMoves, Choosing
  <2>3. PassedOver(d)
    BY <1>2 DEF Alone, Scanning
  <2> QED
    BY <1>1, <2>2, <2>3 DEF PassedOver
<1> QED
  BY <1>1, <1>2 DEF Alone, Scanning

LEMMA SwitchDivided ==
  ASSUME IInv, OneCore, Alone, NEW c \in Cores, SwitchFrame(c), SwitchMoves(c),
         current' \in [Cores -> Tasks \cup {NoTask}], irq' \in [Cores -> Switching \cup {"none", "halt"}]
  PROVE  Divided' /\ current'[0] \in Tasks
<1> USE DEF Alone, Divided, SwitchFrame, SwitchMoves, Through
<1>1. suspendAll' = 0 /\ \A t \in Tasks : pc'[t] # "run" =>
                            pc'[t] \in Calling /\ t \notin Own /\ loc'[t].core = 0
  OBVIOUS
<1>2. irq'[0] \notin {"halt", "miss"} /\ irq'[1] \notin {"halt", "miss", "lower"}
  BY DEF Cores
<1>3. current'[0] \in Tasks
  <2>1. CASE c = 0 /\ irq[0] = "pick" /\ current'[0] = scan[0].pick
    BY <2>1 DEF Scanning, Cores
  <2> QED
    BY <2>1 DEF Cores
<1>4. current'[1] \in Own /\ top'[1] = Priority[current'[1]]
  <2>1. CASE c = 1 /\ irq[1] = "pick" /\ current'[1] = scan[1].pick /\ UNCHANGED top
    <3>1. scan[1].pick \in Tasks /\ Priority[scan[1].pick] = Priority[current[1]]
      BY <2>1 DEF Scanning, Cores
    <3> QED
      BY <2>1, <3>1, OwnLevel
  <2> QED
    BY <2>1 DEF Cores
<1> QED
  BY <1>1, <1>2, <1>3, <1>4

(* A switch of core 0 finds no call in a critical section.                  *)
LEMMA SwitchNamed ==
  ASSUME IInv, Homes, OneCore, Alone, NEW c \in Cores, SwitchFrame(c), SwitchMoves(c)
  PROVE  Named'
<1>1. UNCHANGED <<suspended, pc, loc>>
  BY DEF SwitchFrame
<1>2. CASE current'[0] = current[0]
  BY <1>1, <1>2 DEF Alone, Named
<1>3. CASE irq[0] = "pick"
  <2>1. \A t \in Tasks : pc[t] \notin Critical
    BY <1>3, CriticalOnZero DEF Alone
  <2> QED
    BY <1>1, <2>1 DEF Alone, Named, Critical
<1>4. current'[0] = current[0] \/ irq[0] = "pick"
  BY DEF SwitchFrame, SwitchMoves, Cores
<1> QED
  BY <1>2, <1>3, <1>4

LEMMA SwitchStopping ==
  ASSUME IInv, Alone, NEW c \in Cores, SwitchFrame(c), SwitchMoves(c)
  PROVE  Stopping'
<1> SUFFICES ASSUME current'[0] \in suspended'
             PROVE  Rescheduled' \/ \E t \in Tasks : pc'[t] = "sYield"
  BY DEF Stopping
<1>1. UNCHANGED <<suspended, pc>>
  BY DEF SwitchFrame
<1>2. CASE c = 1
  <2>1. irq'[0] = irq[0] /\ pending'[0] = pending[0] /\ current'[0] = current[0]
    BY <1>2 DEF SwitchFrame, Cores
  <2> QED
    BY <1>1, <2>1 DEF Alone, Stopping, Rescheduled
<1>3. CASE c = 0
  <2>1. irq[0] # "pick"
    <3>1. irq[0] = "pick" => current'[0] = scan[0].pick /\ scan[0].pick \notin suspended
      BY <1>3 DEF SwitchMoves, Through, Alone, Scanning, Cores
    <3> QED
      BY <1>1, <3>1
  <2>2. current'[0] = current[0]
    BY <1>3, <2>1 DEF SwitchMoves, Through
  <2>3. irq'[0] \in {"spin", "count", "next", "lower", "pick"} \/ (irq[0] = "exit" /\ irq'[0] = "none")
    BY <1>3, <2>1 DEF SwitchMoves, Through
  <2>4. irq[0] = "exit" => pending'[0] = pending[0]
    BY <1>3 DEF SwitchFrame
  <2> QED
    BY <1>1, <2>2, <2>3, <2>4 DEF Alone, Stopping, Rescheduled
<1> QED
  BY <1>2, <1>3 DEF Cores


(* Lowering the level loses sight only of what runs on core 1, and core 1   *)
(* changes its task only where core 0 sees them all.                        *)
LEMMA SwitchInSight ==
  ASSUME IInv, Homes, OneCore, Alone, NEW c \in Cores, SwitchFrame(c), SwitchMoves(c)
  PROVE  InSight'
<1>0. /\ UNCHANGED <<pc, loc>> /\ \A t \in Tasks : IsReady(t)' <=> IsReady(t)
      /\ top[0] \in Levels
  BY DEF SwitchFrame, IInv, TypeOK, Cores
<1>1. CASE top'[0] = top[0] /\ current'[1] = current[1]
  BY <1>0, <1>1 DEF Alone, InSight
<1>2. CASE irq[0] = "lower" /\ top'[0] = top[0] - 1 /\ current'[1] = current[1]
  <2>1. \A t \in Tasks : pc[t] \notin {"rStore", "rInsert"}
    BY <1>2, CriticalOnZero DEF Alone, Critical
  <2>2. /\ scan[0].n = 0 /\ scan[0].n <= Len(ready[top[0]])
        /\ \A i \in scan[0].n + 1 .. Len(ready[top[0]]) : ready[top[0]][i] = current[Other(0)]
    BY <1>2 DEF Alone, Scanning, PassedOver, Cores
  <2>3. ASSUME NEW t \in Tasks, IsReady(t), Priority[t] = top[0] PROVE t = current[1]
    <3> DEFINE s == ready[top[0]]
    <3>1. s \in Seq(Tasks) /\ t \in ToSet(s)
      BY <1>0, <2>3 DEF IsReady, Homes, Once, IInv, TypeOK
    <3>2. \A i \in 1 .. Len(s) : s[i] = current[1]
      BY <2>2 DEF Other
    <3> HIDE DEF s
    <3> QED
      BY <3>1, <3>2, EntriesOf
  <2>4. ASSUME NEW t \in Tasks, IsReady(t), Priority[t] > top[0] - 1 PROVE t = current[1]
    <3>1. Priority[t] \in Nat /\ top[0] \in Nat
      BY <1>0, OwnLevel DEF Levels
    <3>2. CASE Priority[t] = top[0]
      BY <2>3, <2>4, <3>2
    <3>3. CASE Priority[t] > top[0]
      BY <2>4, <3>3 DEF Alone, InSight
    <3> QED
      BY <2>4, <3>1, <3>2, <3>3
  <2> QED
    BY <1>0, <1>2, <2>1, <2>4 DEF InSight
<1>3. CASE irq[1] = "pick" /\ current'[1] = scan[1].pick /\ top'[0] = top[0]
  <2> DEFINE x == scan[1].pick
  <2>1. x \in Tasks /\ Priority[x] = Priority[current[1]] /\ current[1] \in Own
    BY <1>3 DEF Alone, Divided, Scanning, Cores
  <2>2. x \in Own
    BY <2>1, OwnLevel
  <2>3. x \in ToSet(ready[Priority[x]])
    <3>1. x \in Tasks \ Targets
      BY <2>1, <2>2 DEF OneCore
    <3> HIDE DEF x
    <3> QED
      BY <3>1, NeverNamed DEF Alone
  <2>4. IsReady(x)
    BY <2>1, <2>3, OwnLevel DEF IsReady
  <2>5. ASSUME NEW t \in Tasks, IsReady(t), Priority[t] > top[0] PROVE t = x
    <3>1. t = current[1]
      BY <2>5 DEF Alone, InSight
    <3>2. Priority[x] > top[0]
      BY <2>1, <2>5, <3>1
    <3>3. x = current[1]
      BY <2>1, <2>4, <3>2 DEF Alone, InSight
    <3> QED
      BY <3>1, <3>3
  <2> QED
    BY <1>0, <1>3, <2>5 DEF InSight, Alone
<1> QED
  BY <1>1, <1>2, <1>3 DEF SwitchFrame, SwitchMoves, Cores

LEMMA SwitchTopRuns ==
  ASSUME IInv, Alone, NEW c \in Cores, SwitchFrame(c), SwitchMoves(c)
  PROVE  TopRuns'
<1>0. UNCHANGED <<pc, loc>>
  BY DEF SwitchFrame
<1>1. CASE c = 1
  <2>1. irq'[0] = irq[0] /\ pending'[0] = pending[0] /\ current'[0] = current[0] /\ top'[0] = top[0]
    BY <1>1 DEF SwitchFrame, Cores
  <2> QED
    BY <1>0, <2>1 DEF Alone, TopRuns, Rescheduled
<1>2. CASE c = 0
  <2>1. CASE irq'[0] \in {"spin", "count", "next", "lower", "pick"}
    BY <2>1 DEF TopRuns, Rescheduled
  <2>2. CASE irq[0] = "pick" /\ current'[0] = scan[0].pick /\ top' = top
    BY <2>2 DEF Alone, Scanning, TopRuns, Cores
  <2>3. CASE irq[0] = "exit" /\ irq'[0] = "none" /\ UNCHANGED <<current, top>>
    <3>1. pending'[0] = pending[0]
      BY <1>2, <2>3 DEF SwitchFrame
    <3> QED
      BY <1>0, <2>3, <3>1 DEF Alone, TopRuns, Rescheduled
  <2> QED
    BY <1>2, <2>1, <2>2, <2>3 DEF SwitchMoves, Through
<1> QED
  BY <1>1, <1>2 DEF Cores

LEMMA SwitchAlone ==
  ASSUME IInv, Homes, OneCore, Alone, NEW c \in Cores, InterruptStep(c)
  PROVE  Alone'
<1>1. SwitchFrame(c) /\ SwitchMoves(c)
  BY SwitchFramed, SwitchMoved
<1>2. IInv'
  BY NextInv DEF Next
<1>3. Divided'
  BY <1>1, <1>2, SwitchDivided DEF IInv, TypeOK
<1>4. Named' /\ Scanning' /\ Stopping'
  BY <1>1, SwitchNamed, SwitchScanning, SwitchStopping
<1>5. InSight' /\ TopRuns'
  BY <1>1, SwitchInSight, SwitchTopRuns
<1> QED
  BY <1>3, <1>4, <1>5 DEF Alone

-----------------------------------------------------------------------------
(* The invariant of the divided system.                                     *)

LEMMA InitAlone == ASSUME Init, OneCore PROVE Alone
<1> USE DEF Init
<1>1. /\ current[0] \in Tasks /\ current[1] \in CreatedOn(1) /\ current[1] \in Tasks
      /\ \A k \in Cores : top[k] = Priority[current[k]]
      /\ \A k \in Cores : irq[k] = "none"
      /\ \A t \in Tasks : pc[t] = "run"
  BY DEF Cores
<1>2. current[1] \in Own
  BY <1>1 DEF Own, Cores
<1>3. Divided
  BY <1>1, <1>2 DEF Divided, Cores
<1>4. Named /\ Stopping /\ Scanning
  BY <1>1 DEF Named, Stopping, Scanning
<1>5. InSight
  <2>1. PICK t \in CreatedOn(0) : \A u \in Tasks : Priority[u] <= Priority[t]
    BY DEF OneCore
  <2>2. Priority[t] <= top[0] /\ t \in Tasks
    BY <1>1, <2>1 DEF Cores, CreatedOn
  <2>3. top[0] \in Nat
    BY <1>1, OwnLevel DEF Cores
  <2>4. \A u \in Tasks : ~(Priority[u] > top[0])
    BY <2>1, <2>2, <2>3, OwnLevel
  <2> QED
    BY <1>1, <2>4 DEF InSight
<1>6. TopRuns
  BY <1>1 DEF TopRuns, Cores
<1> QED
  BY <1>3, <1>4, <1>5, <1>6 DEF Alone

LEMMA NextAlone == IInv /\ Homes /\ OneCore /\ Alone /\ [Next]_vars => Alone'
<1> SUFFICES ASSUME IInv, Homes, OneCore, Alone, [Next]_vars PROVE Alone'
  OBVIOUS
<1>1. CASE Next
  BY <1>1, SwitchAlone, CallAlone DEF Next
<1>2. CASE UNCHANGED vars
  BY <1>2 DEF vars, Alone, Divided, Named, Stopping, Rescheduled, Scanning, PassedOver,
              InSight, IsReady, TopRuns
<1> QED
  BY <1>1, <1>2

LEMMA AloneAlways == Spec => [](OneCore => IInv /\ Homes /\ Alone)
<1>1. Init => IInv /\ Homes /\ (OneCore => Alone)
  BY InitInv, InitHome, InitAlone
<1>2. /\ IInv /\ Homes /\ (OneCore => Alone) /\ [Next]_vars
      => IInv' /\ Homes' /\ (OneCore => Alone)'
  BY NextInv, NextHome, NextAlone DEF OneCore, Own, Targets, Target, CreatedOn
<1> QED
  BY <1>1, <1>2, PTL DEF Spec


(* If all calls are about core 0 and the tasks of core 1 are left alone,    *)
(* neither core ends in an assertion or an abort: vListRemove always finds  *)
(* the task on a list, and vTaskSwitchContext a task before its level is    *)
(* zero.                                                                    *)
THEOREM NeverHalts == Spec => [](OneCore => NoHalt)
<1>1. Alone => NoHalt
  BY DEF Alone, Divided, NoHalt, Cores
<1> QED
  BY <1>1, AloneAlways, PTL

(* If all calls are about core 0 and the tasks of core 1 are left alone, a  *)
(* task that vTaskSuspend took off its core is switched out: the yield of   *)
(* core 0 is pending, under way or about to be requested.                   *)
THEOREM SuspendedLeaves == Spec => [](OneCore => SuspendedStops)
<1>1. OneCore /\ Alone => SuspendedStops
  <2> SUFFICES ASSUME OneCore, Alone, NEW c \in Cores, current[c] \in suspended
               PROVE  YieldComing(c)
    BY DEF SuspendedStops
  <2>1. CASE c = 0
    BY <2>1 DEF Alone, Stopping, Rescheduled, YieldComing, Divided
  <2>2. c # 1
    BY DEF Alone, Divided, Named, OneCore
  <2> QED
    BY <2>1, <2>2 DEF Cores
<1> QED
  BY <1>1, AloneAlways, PTL

(* When all is quiet, core 0 runs at the level it sees, and sees what waits.*)
LEMMA QuietTop ==
  ASSUME Alone, Quiet, NEW t \in Tasks, IsReady(t), t \notin {current[0], current[1]}
  PROVE  Priority[current[0]] = top[0] /\ top[0] >= Priority[t]
<1>1. Priority[current[0]] = top[0]
  BY DEF Alone, TopRuns, Rescheduled, Quiet, Cores
<1>2. ~(Priority[t] > top[0])
  BY DEF Alone, InSight
<1>3. Priority[t] \in Nat /\ Priority[current[0]] \in Nat
  BY OwnLevel DEF Alone, Divided
<1> QED
  BY <1>1, <1>2, <1>3

(* If all calls are about core 0 and the tasks of core 1 are left alone,    *)
(* then once every call and switch is over, no ready task that waits is     *)
(* more important than what both cores run.                                 *)
THEOREM HighestOnOneCore == Spec => [](OneCore => HighestRuns)
<1>1. Alone => HighestRuns
  BY QuietTop DEF HighestRuns, Cores
<1> QED
  BY <1>1, AloneAlways, PTL

(* And none is out of sight of uxTopReadyPriority: vTaskResume raises the   *)
(* level of core 0 before the next yield looks.                             *)
THEOREM NeverForgotten == Spec => [](OneCore => NoForgotten)
<1>1. Alone => NoForgotten
  BY QuietTop DEF NoForgotten, Cores
<1> QED
  BY <1>1, AloneAlways, PTL
=============================================================================

--------------------------- MODULE FromaQueueProofs ---------------------------
(***************************************************************************)
(* Queues, semaphores and mutexes: proofs about FromaQueue, for every      *)
(* number of tasks, queues, priorities and messages, and every set of      *)
(* calls and interrupts.                                                   *)
(***************************************************************************)
EXTENDS FromaQueue, FromaSequences

Sides == {"send", "receive"}
Waiting == {Delayed, Suspended}

-----------------------------------------------------------------------------
(* The inductive invariant, in six parts.                                  *)

(* What TypeOK leaves out.                                                  *)
Stores == UNION {[0 .. Capacity[q] - 1 -> Items] : q \in Queues}
QueueRecords ==
  [count : Int, store : Stores, writeTo : Int, readFrom : Int, rxLock : Int,
   txLock : Int, holder : Tasks \cup {NoTask}, calls : Int]
Locals ==
  [op : Operations \cup {"none"}, queue : Queues, item : Items, wait : Waits,
   timed : BOOLEAN, late : BOOLEAN, then : {"none", "fail", "retry", "block"}]
RecordOK(q, r) ==
  /\ r \in QueueRecords
  /\ r.store \in [0 .. Capacity[q] - 1 -> Items]
  /\ r.count \in 0 .. Capacity[q]
  /\ r.writeTo \in 0 .. Capacity[q] - 1 /\ r.readFrom \in 0 .. Capacity[q] - 1
  /\ r.rxLock \in Unlocked .. MaxLock /\ r.txLock \in Unlocked .. MaxLock
  /\ r.calls \in 0 .. MaxNesting
QueuesTyped ==
  queue \in [Queues -> QueueRecords] /\ \A q \in Queues : RecordOK(q, queue[q])

Places == Levels \cup {Delayed, Suspended, Terminated, Freed}
Labels == Sections \cup {"run", "try", "suspend", "wait", "count"}
ListsTyped ==
  /\ blocked \in [Queues -> [Sides -> Seq(Tasks)]]
  /\ pendingReady \in Seq(Tasks)
PriosTyped ==
  /\ priority \in [Tasks -> Levels] /\ base \in [Tasks -> Levels]
  /\ value \in [Tasks -> Int]
CallsTyped == pc \in [Tasks -> Labels] /\ loc \in [Tasks -> Locals] /\ got \in Items
CoreTyped ==
  /\ suspendAll \in 0 .. 1 /\ missedYield \in BOOLEAN /\ yield \in BOOLEAN
  /\ running \in Tasks \cup {NoTask} /\ idle \in {"check", "resume", "free"}
Typed ==
  /\ QueuesTyped /\ ListsTyped /\ home \in [Tasks -> Places]
  /\ PriosTyped /\ CallsTyped /\ CoreTyped

(* A call is one of Calls, and only one that may wait gets as far as to     *)
(* wait.                                                                    *)
CalledAt(t) ==
  /\ pc[t] # "run" => /\ \E w \in Waits : <<t, loc[t].op, loc[t].queue, w>> \in Calls
                      /\ loc[t].op = "give" => loc[t].wait = "none"
  /\ pc[t] \notin {"run", "try", "count"} => loc[t].wait # "none" /\ loc[t].timed
  /\ pc[t] = "inherit" => WaitsForMutex(t)
  /\ pc[t] = "count" => loc[t].op = "take"
Called == \A t \in Tasks : CalledAt(t)

(* Who has suspended the scheduler, and locked a queue.                     *)
Locking ==
  /\ suspendAll = 0 => idle # "resume" /\ \A t \in Tasks : pc[t] \notin Sections
  /\ suspendAll = 1 =>
       /\ running = NoTask <=> idle = "resume"
       /\ running # NoTask => pc[running] \in Sections
       /\ \A t \in Tasks : pc[t] \in Sections => t = running
  /\ \A q \in Queues :
       /\ queue[q].rxLock # Unlocked =>
            /\ running # NoTask /\ loc[running].queue = q
            /\ pc[running] \in Sections \ {"lock", "resume"}
       /\ queue[q].txLock # Unlocked =>
            /\ running # NoTask /\ loc[running].queue = q
            /\ pc[running] \in Sections \ {"lock", "unlockRx", "resume"}

(* A task that has placed itself on an event list, and has yet to yield.    *)
Blocking(t) ==
  pc[t] \in {"unlockTx", "unlockRx", "resume"} /\ loc[t].then = "block"

(* Where tasks are.                                                         *)
Entered(t, q, s) ==
  /\ loc[t].timed /\ loc[t].queue = q /\ Side(loc[t].op) = s
  /\ pc[t] = "try" \/ Blocking(t)
OnAList(t) == \E q \in Queues, s \in Sides : t \in ToSet(blocked[q][s])
Placing ==
  /\ \A q \in Queues, s \in Sides :
       /\ IsInjective(blocked[q][s])
       /\ \A t \in ToSet(blocked[q][s]) :
            /\ Entered(t, q, s)
            /\ home[t] \in Waiting /\ t \notin ToSet(pendingReady)
  /\ IsInjective(pendingReady)
  /\ \A t \in ToSet(pendingReady) : home[t] \in Waiting
  /\ suspendAll = 0 => pendingReady = <<>>
  /\ \A t \in Tasks : home[t] \in Waiting =>
       \/ OnAList(t) \/ t \in ToSet(pendingReady)
       \/ home[t] = Suspended /\ \E c \in Suspends : c[2] = t
  /\ running # NoTask /\ (suspendAll = 0 => ~yield) /\ ~Blocking(running) =>
       home[running] >= 0

(* Who holds a mutex, and how often.                                        *)
Nests(t, q) == \E c \in Calls : Recursive(c) /\ c[1] = t /\ c[3] = q
Outermost(t, q) ==
  /\ loc[t].queue = q
  /\ \/ pc[t] = "count"
     \/ pc[t] # "run" /\ loc[t].op = "give"
Holding ==
  /\ \A q \in Queues \ Mutexes : queue[q].holder = NoTask /\ queue[q].calls = 0
  /\ \A q \in Mutexes :
       /\ queue[q].holder = NoTask <=> queue[q].count = 1
       /\ queue[q].holder = NoTask => queue[q].calls = 0
       /\ \A t \in Tasks : queue[q].holder = t =>
            (queue[q].calls > 0 <=> Nests(t, q) /\ ~Outermost(t, q))
  /\ \A t \in Tasks :
       (\/ pc[t] = "count"
        \/ pc[t] # "run" /\ Sends(loc[t].op) /\ loc[t].queue \in Mutexes) =>
       queue[loc[t].queue].holder = t

IInv == Typed /\ Called /\ Locking /\ Placing /\ Holding /\ Restored

(* With no mutex about: nobody outranks the task that runs, unless a yield  *)
(* is on its way, or it is about to block.                                  *)
Foremost ==
  (suspendAll = 0 => ~yield) =>
    IF running = NoTask THEN \A x \in Tasks : home[x] < 0
    ELSE Blocking(running) \/ \A x \in Tasks : home[x] <= home[running]

-----------------------------------------------------------------------------
(* What the steps do to the record of a queue.                              *)

LEMMA ConstantsTyped ==
  /\ NoTask \notin Tasks /\ MaxPriorities \in Nat \ {0} /\ MaxLock \in Nat
  /\ MaxNesting \in Nat
  /\ \A q \in Queues : /\ Capacity[q] \in Nat \ {0}
                       /\ Kind[q] \in {"queue", "semaphore", "mutex"}
                       /\ q \in Mutexes <=> Kind[q] = "mutex"
                       /\ q \in Mutexes => Capacity[q] = 1
  /\ NoLocals.queue \in Queues /\ NoLocals.item \in Items /\ NoLocals \in Locals
BY QueueAssumption DEF Mutexes, NoLocals, Locals, Waits

(* Places in the ring of n entries.                                         *)
LEMMA RingPlaces ==
  ASSUME NEW n \in Nat \ {0}, NEW i \in 0 .. n - 1
  PROVE  /\ (i + 1) % n \in 0 .. n - 1 /\ (i + n - 1) % n \in 0 .. n - 1
         /\ (i + 1) % n = IF i = n - 1 THEN 0 ELSE i + 1
         /\ (i + n - 1) % n = IF i = 0 THEN n - 1 ELSE i - 1
OBVIOUS

LEMMA CopiedFields ==
  ASSUME NEW q \in Queues, NEW r, RecordOK(q, r), r.count < Capacity[q],
         NEW x \in Items, NEW op
  PROVE  LET c == CopiedIn(r, q, x, op)
         IN  /\ RecordOK(q, c)
             /\ c.count = r.count + 1 /\ c.holder = NoTask /\ c.calls = r.calls
             /\ c.rxLock = r.rxLock /\ c.txLock = r.txLock
<1> DEFINE n == Capacity[q]
           store == IF Kind[q] # "queue" THEN r.store
                    ELSE IF op = "front" THEN [r.store EXCEPT ![r.readFrom] = x]
                    ELSE [r.store EXCEPT ![r.writeTo] = x]
           readFrom == IF Kind[q] = "queue" /\ op = "front"
                       THEN (r.readFrom + n - 1) % n ELSE r.readFrom
           writeTo == IF Kind[q] = "queue" /\ op # "front"
                      THEN (r.writeTo + 1) % n ELSE r.writeTo
           c == [r EXCEPT !.count = @ + 1, !.holder = NoTask, !.store = store,
                          !.readFrom = readFrom, !.writeTo = writeTo]
<1>1. n \in Nat \ {0} /\ r.readFrom \in 0 .. n - 1 /\ r.writeTo \in 0 .. n - 1
  BY ConstantsTyped DEF RecordOK
<1>2. readFrom \in 0 .. n - 1 /\ writeTo \in 0 .. n - 1
  BY <1>1, RingPlaces
<1>3. store \in [0 .. n - 1 -> Items] /\ store \in Stores
  BY <1>1 DEF RecordOK, Stores
<1>4. CopiedIn(r, q, x, op) = c
  BY DEF CopiedIn
<1> HIDE DEF n, store, readFrom, writeTo
<1>5. /\ c \in QueueRecords /\ c.count = r.count + 1 /\ c.holder = NoTask
      /\ c.calls = r.calls /\ c.rxLock = r.rxLock /\ c.txLock = r.txLock
      /\ c.store = store /\ c.readFrom = readFrom /\ c.writeTo = writeTo
  <2>1. r \in QueueRecords /\ r.count + 1 \in Int
    BY DEF RecordOK
  <2>2. readFrom \in Int /\ writeTo \in Int /\ store \in Stores
    BY <1>1, <1>2, <1>3
  <2> QED
    BY <2>1, <2>2 DEF QueueRecords
<1> HIDE DEF c
<1>6. RecordOK(q, c)
  BY <1>1, <1>2, <1>3, <1>5 DEF RecordOK, n
<1> QED
  BY <1>4, <1>5, <1>6

LEMMA RemovedFields ==
  ASSUME QueuesTyped, NEW q \in Queues, queue[q].count > 0
  PROVE  LET r == Removed(queue[q], q)
         IN  /\ RecordOK(q, r)
             /\ r.count = queue[q].count - 1 /\ r.holder = queue[q].holder
             /\ r.calls = queue[q].calls
             /\ r.rxLock = queue[q].rxLock /\ r.txLock = queue[q].txLock
<1> DEFINE readFrom == IF Kind[q] = "queue" THEN NextOut(q) ELSE queue[q].readFrom
           r == [queue[q] EXCEPT !.count = @ - 1, !.readFrom = readFrom]
<1>1. RecordOK(q, queue[q])
  BY DEF QueuesTyped
<1>2. readFrom \in 0 .. Capacity[q] - 1
  BY <1>1, ConstantsTyped, RingPlaces DEF NextOut, RecordOK
<1>3. Removed(queue[q], q) = r
  BY DEF Removed
<1> HIDE DEF readFrom
<1>4. /\ r \in QueueRecords /\ r.count = queue[q].count - 1
      /\ r.holder = queue[q].holder /\ r.calls = queue[q].calls
      /\ r.rxLock = queue[q].rxLock /\ r.txLock = queue[q].txLock
      /\ r.store = queue[q].store /\ r.readFrom = readFrom
      /\ r.writeTo = queue[q].writeTo
  <2>1. queue[q] \in QueueRecords /\ queue[q].count - 1 \in Int
    BY <1>1 DEF RecordOK
  <2>2. readFrom \in Int
    BY <1>2, ConstantsTyped
  <2> QED
    BY <2>1, <2>2 DEF QueueRecords
<1> HIDE DEF r
<1>5. RecordOK(q, r)
  BY <1>1, <1>2, <1>4, ConstantsTyped DEF RecordOK
<1> QED
  BY <1>3, <1>4, <1>5

-----------------------------------------------------------------------------
(* What the steps do to the event lists: the tasks in off leave them, are   *)
(* readied, or held pending while the scheduler is suspended.               *)
LeftLists(off) ==
  /\ blocked' \in [Queues -> [Sides -> Seq(Tasks)]]
  /\ \A q \in Queues, s \in Sides :
       /\ IsInjective(blocked'[q][s])
       /\ ToSet(blocked'[q][s]) = ToSet(blocked[q][s]) \ off
Woken(off, hm, pr) ==
  /\ LeftLists(off)
  /\ pendingReady' \in Seq(Tasks) /\ IsInjective(pendingReady')
  /\ \/ /\ suspendAll = 0 /\ pendingReady' = pendingReady
        /\ home' = [x \in Tasks |-> IF x \in off THEN pr[x] ELSE hm[x]]
     \/ /\ suspendAll # 0 /\ home' = hm
        /\ ToSet(pendingReady') = ToSet(pendingReady) \cup off

(* A task is on one event list at most.                                     *)
LEMMA OneList ==
  ASSUME Placing, NEW p \in Queues, NEW q \in Queues, NEW r \in Sides,
         NEW s \in Sides, NEW x, x \in ToSet(blocked[p][r]),
         x \in ToSet(blocked[q][s])
  PROVE  p = q /\ r = s
<1>1. Entered(x, p, r) /\ Entered(x, q, s)
  BY DEF Placing
<1> QED
  BY <1>1 DEF Entered

(* The tasks of one list leave it.                                          *)
LEMMA LeaveOneList ==
  ASSUME Typed, Placing, NEW q \in Queues, NEW s \in Sides, NEW r \in Seq(Tasks),
         IsInjective(r), NEW off, off \subseteq ToSet(blocked[q][s]),
         ToSet(r) = ToSet(blocked[q][s]) \ off,
         blocked' = [blocked EXCEPT ![q][s] = r]
  PROVE  LeftLists(off)
<1>1. blocked \in [Queues -> [Sides -> Seq(Tasks)]]
  BY DEF Typed, ListsTyped
<1>2. blocked' \in [Queues -> [Sides -> Seq(Tasks)]]
  BY <1>1
<1>3. ASSUME NEW p \in Queues, NEW e \in Sides
      PROVE  /\ IsInjective(blocked'[p][e])
             /\ ToSet(blocked'[p][e]) = ToSet(blocked[p][e]) \ off
  <2>1. CASE p = q /\ e = s
    <3>1. blocked'[p][e] = r
      BY <1>1, <2>1
    <3> QED
      BY <2>1, <3>1
  <2>2. CASE p # q \/ e # s
    <3>1. blocked'[p][e] = blocked[p][e]
      BY <1>1, <2>2
    <3>2. ToSet(blocked[p][e]) \cap off = {}
      BY <2>2, OneList
    <3>3. IsInjective(blocked[p][e])
      BY DEF Placing
    <3> QED
      BY <3>1, <3>2, <3>3
  <2> QED
    BY <2>1, <2>2
<1> QED
  BY <1>2, <1>3 DEF LeftLists

LEMMA NobodyLeaves ==
  ASSUME Typed, Placing, UNCHANGED blocked
  PROVE  LeftLists({})
BY DEF Typed, ListsTyped, Placing, LeftLists

(* Held pending as well.                                                    *)
LEMMA HoldOne ==
  ASSUME Typed, Placing, NEW x \in Tasks, x \notin ToSet(pendingReady)
  PROVE  /\ Append(pendingReady, x) \in Seq(Tasks)
         /\ IsInjective(Append(pendingReady, x))
         /\ ToSet(Append(pendingReady, x)) = ToSet(pendingReady) \cup {x}
BY AppendNew DEF Typed, ListsTyped, Placing

LEMMA WakeEffect ==
  ASSUME Typed, Placing, NEW q \in Queues, NEW s \in Sides,
         NEW hm \in [Tasks -> Places], NEW pr \in [Tasks -> Levels],
         WakeFirst(q, s, hm, pr)
  PROVE  \E off \in SUBSET Tasks :
           /\ off \subseteq ToSet(blocked[q][s]) /\ Woken(off, hm, pr)
           /\ \/ blocked[q][s] = <<>> /\ off = {} /\ UNCHANGED blocked
              \/ blocked[q][s] # <<>> /\ off = {Head(blocked[q][s])}
<1>1. blocked[q][s] \in Seq(Tasks) /\ IsInjective(blocked[q][s])
  BY DEF Typed, ListsTyped, Placing
<1>2. suspendAll \in 0 .. 1 /\ pendingReady \in Seq(Tasks) /\ IsInjective(pendingReady)
  BY DEF Typed, ListsTyped, CoreTyped, Placing
<1>3. CASE blocked[q][s] = <<>>
  <2>1. home' = hm /\ UNCHANGED <<blocked, pendingReady>>
    BY <1>3 DEF WakeFirst
  <2>2. LeftLists({})
    BY <2>1, NobodyLeaves
  <2>3. home' = [x \in Tasks |-> IF x \in {} THEN pr[x] ELSE hm[x]]
    BY <2>1
  <2>4. Woken({}, hm, pr)
    BY <1>2, <2>1, <2>2, <2>3 DEF Woken
  <2> QED
    BY <1>3, <2>1, <2>4
<1>4. CASE blocked[q][s] # <<>>
  <2> DEFINE x == Head(blocked[q][s])
             r == Tail(blocked[q][s])
  <2>1. /\ x \in ToSet(blocked[q][s]) /\ x \in Tasks
        /\ r \in Seq(Tasks) /\ IsInjective(r)
        /\ ToSet(r) = ToSet(blocked[q][s]) \ {x}
    BY <1>1, <1>4, TailOnce, EntriesOf
  <2>2. blocked' = [blocked EXCEPT ![q][s] = r]
    BY <1>4 DEF WakeFirst
  <2>3. x \notin ToSet(pendingReady)
    BY <2>1 DEF Placing
  <2> HIDE DEF r
  <2>4. LeftLists({x})
    BY <2>1, <2>2, LeaveOneList
  <2>5. CASE suspendAll = 0
    <3>1. home' = [hm EXCEPT ![x] = pr[x]] /\ UNCHANGED pendingReady
      BY <1>4, <2>5 DEF WakeFirst
    <3>2. home' = [y \in Tasks |-> IF y \in {x} THEN pr[y] ELSE hm[y]]
      BY <2>1, <3>1
    <3> QED
      BY <1>2, <1>4, <2>1, <2>4, <2>5, <3>1, <3>2 DEF Woken
  <2>6. CASE suspendAll # 0
    <3>1. home' = hm /\ pendingReady' = Append(pendingReady, x)
      BY <1>4, <2>6 DEF WakeFirst
    <3>2. /\ pendingReady' \in Seq(Tasks) /\ IsInjective(pendingReady')
          /\ ToSet(pendingReady') = ToSet(pendingReady) \cup {x}
      BY <2>1, <2>3, <3>1, HoldOne
    <3> QED
      BY <1>4, <2>1, <2>4, <2>6, <3>1, <3>2 DEF Woken
  <2> QED
    BY <2>5, <2>6
<1> QED
  BY <1>3, <1>4

(* The first count tasks of a list, held pending by prvUnlockQueue.         *)
LEMMA ReplayEffect ==
  ASSUME Typed, Placing, NEW t \in Tasks, suspendAll # 0, NEW count \in Int,
         NEW s \in Sides, Replay(t, count, s)
  PROVE  \E off \in SUBSET Tasks :
           /\ off \subseteq ToSet(blocked[loc[t].queue][s])
           /\ Woken(off, home, priority)
           /\ IsFiniteSet(off)
           /\ blocked'[loc[t].queue][s] # <<>> =>
                Cardinality(off) = IF count < 0 THEN 0 ELSE count
           /\ \A p \in Queues, e \in Sides : p # loc[t].queue \/ e # s =>
                blocked'[p][e] = blocked[p][e]
<1> DEFINE q == loc[t].queue
           l == blocked[q][s]
           n == IF count < 0 THEN 0 ELSE IF count < Len(l) THEN count ELSE Len(l)
           a == SubSeq(l, 1, n)
           b == SubSeq(l, n + 1, Len(l))
<1>1. q \in Queues /\ loc[t] \in Locals
  BY DEF Typed, CallsTyped, Locals
<1>2. l \in Seq(Tasks) /\ IsInjective(l) /\ Len(l) \in Nat
  BY <1>1 DEF Typed, ListsTyped, Placing
<1>3. n \in 0 .. Len(l)
  BY <1>2
<1>4. /\ a \in Seq(Tasks) /\ IsInjective(a) /\ b \in Seq(Tasks) /\ IsInjective(b)
      /\ ToSet(a) \cap ToSet(b) = {} /\ ToSet(a) \cup ToSet(b) = ToSet(l)
      /\ IsFiniteSet(ToSet(a)) /\ Cardinality(ToSet(a)) = n
      /\ b # <<>> => n < Len(l)
  <2> HIDE DEF n, l
  <2> QED
    BY <1>2, <1>3, SplitOnce
<1>5. /\ blocked' = [blocked EXCEPT ![q][s] = b]
      /\ pendingReady' = pendingReady \o a /\ home' = home
  BY DEF Replay
<1> HIDE DEF a, b, n
<1>6. /\ ToSet(a) \subseteq ToSet(l) /\ ToSet(b) = ToSet(l) \ ToSet(a)
      /\ ToSet(a) \in SUBSET Tasks
  BY <1>4, EntriesOf
<1>7. LeftLists(ToSet(a))
  BY <1>1, <1>4, <1>5, <1>6, LeaveOneList
<1>8. /\ pendingReady' \in Seq(Tasks) /\ IsInjective(pendingReady')
      /\ ToSet(pendingReady') = ToSet(pendingReady) \cup ToSet(a)
  <2>1. pendingReady \in Seq(Tasks) /\ IsInjective(pendingReady)
    BY DEF Typed, ListsTyped, Placing
  <2>2. ToSet(pendingReady) \cap ToSet(a) = {}
    BY <1>1, <1>6 DEF Placing
  <2> QED
    BY <1>4, <1>5, <2>1, <2>2, ConcatOnce
<1>9. Woken(ToSet(a), home, priority)
  BY <1>5, <1>7, <1>8 DEF Woken
<1>10. blocked'[q][s] = b
  BY <1>1, <1>5 DEF Typed, ListsTyped
<1>11. b # <<>> => Cardinality(ToSet(a)) = IF count < 0 THEN 0 ELSE count
  BY <1>2, <1>4 DEF n
<1>12. \A p \in Queues, e \in Sides : p # q \/ e # s => blocked'[p][e] = blocked[p][e]
  BY <1>1, <1>5 DEF Typed, ListsTyped
<1> QED
  BY <1>4, <1>6, <1>9, <1>10, <1>11, <1>12

LEMMA ReleaseEffect ==
  ASSUME Typed, Placing, NEW late, blocked' = Released(late)
  PROVE  LeftLists(late)
<1>1. ASSUME NEW q \in Queues, NEW s \in Sides
      PROVE  blocked[q][s] \in Seq(Tasks) /\ IsInjective(blocked[q][s])
  BY DEF Typed, ListsTyped, Placing
<1>2. ASSUME NEW q \in Queues, NEW s \in Sides
      PROVE  /\ Without(blocked[q][s], late) \in Seq(Tasks)
             /\ IsInjective(Without(blocked[q][s], late))
             /\ ToSet(Without(blocked[q][s], late)) = ToSet(blocked[q][s]) \ late
  BY <1>1, WithoutOnce
<1>3. blocked' = [q \in Queues |-> [s \in Sides |-> Without(blocked[q][s], late)]]
  BY DEF Released, Sides
<1>4. blocked' \in [Queues -> [Sides -> Seq(Tasks)]]
  BY <1>2, <1>3
<1>5. ASSUME NEW q \in Queues, NEW s \in Sides
      PROVE  /\ IsInjective(blocked'[q][s])
             /\ ToSet(blocked'[q][s]) = ToSet(blocked[q][s]) \ late
  <2>1. blocked'[q][s] = Without(blocked[q][s], late)
    BY <1>3
  <2> QED
    BY <1>2, <2>1
<1> QED
  BY <1>4, <1>5 DEF LeftLists

(* vListInsert finds a place.                                               *)
LEMMA InsertPlaceFound ==
  ASSUME Typed, NEW s \in Seq(Tasks), NEW v \in Int
  PROVE  InsertPlace(s, v) \in 0 .. Len(s)
<1> DEFINE f == [m \in 1 .. Len(s) |-> value[s[m]]]
<1>1. Len(s) \in Nat /\ \A m \in 1 .. Len(s) : f[m] \in Int
  BY DEF Typed, PriosTyped
<1> HIDE DEF f
<1>2. PICK n \in 0 .. Len(s) : /\ \A m \in 1 .. n : f[m] <= v
                               /\ n < Len(s) => f[n + 1] > v
  BY <1>1, SortedPlace
<1>3. n \in 0 .. Len(s) /\ \A m \in 1 .. n : f[m] <= v
  BY <1>2
<1>4. \A m \in 1 .. Len(s) : f[m] = value[s[m]]
  BY DEF f
<1>5. ASSUME NEW m \in 1 .. n PROVE value[s[m]] <= v
  <2>1. m \in 1 .. Len(s) /\ f[m] <= v
    BY <1>1, <1>3
  <2> QED
    BY <1>4, <2>1
<1>6. ASSUME n < Len(s) PROVE value[s[n + 1]] > v
  <2>1. n + 1 \in 1 .. Len(s) /\ f[n + 1] > v
    BY <1>1, <1>2, <1>6
  <2> QED
    BY <1>4, <2>1
<1> DEFINE Fits(k) == /\ \A m \in 1 .. k : value[s[m]] <= v
                      /\ k < Len(s) => value[s[k + 1]] > v
<1>7. \E k \in 0 .. Len(s) : Fits(k)
  BY <1>5, <1>6
<1>8. InsertPlace(s, v) = CHOOSE k \in 0 .. Len(s) : Fits(k)
  BY DEF InsertPlace
<1> HIDE DEF Fits
<1> QED
  BY <1>7, <1>8

LEMMA PlaceEffect ==
  ASSUME Typed, Placing, NEW t \in Tasks, Placed(t), ~OnAList(t)
  PROVE  LET q == loc[t].queue
             s == Side(loc[t].op)
         IN  /\ q \in Queues /\ s \in Sides
             /\ blocked' \in [Queues -> [Sides -> Seq(Tasks)]]
             /\ \A p \in Queues, e \in Sides :
                  /\ IsInjective(blocked'[p][e])
                  /\ p = q /\ e = s => ToSet(blocked'[p][e]) = ToSet(blocked[p][e]) \cup {t}
                  /\ p # q \/ e # s => blocked'[p][e] = blocked[p][e]
<1> DEFINE q == loc[t].queue
           s == Side(loc[t].op)
           l == blocked[q][s]
           n == InsertPlace(l, value[t])
           r == InsertAt(l, n + 1, t)
<1>1. q \in Queues /\ s \in Sides
  BY DEF Typed, CallsTyped, Locals, Side, Sides
<1>2. l \in Seq(Tasks) /\ IsInjective(l) /\ t \in Tasks \ ToSet(l)
  BY <1>1 DEF Typed, ListsTyped, Placing, OnAList
<1>3. value[t] \in Int
  BY DEF Typed, PriosTyped
<1>4. n \in 0 .. Len(l)
  BY <1>2, <1>3, InsertPlaceFound
<1>5. blocked' = [blocked EXCEPT ![q][s] = r]
  BY DEF Placed
<1> HIDE DEF n, l
<1>6. r \in Seq(Tasks) /\ IsInjective(r) /\ ToSet(r) = ToSet(l) \cup {t}
  <2>1. r \in Seq(Tasks)
    BY <1>2, <1>4, InsertEntries
  <2>2. IsInjective(r) /\ ToSet(r) = ToSet(l) \cup {t}
    BY <1>2, <1>4, InsertNew
  <2> QED
    BY <2>1, <2>2
<1> HIDE DEF r
<1> USE DEF l
<1>7. blocked \in [Queues -> [Sides -> Seq(Tasks)]]
  BY DEF Typed, ListsTyped
<1> HIDE DEF q, s
<1>8. blocked' \in [Queues -> [Sides -> Seq(Tasks)]]
  BY <1>1, <1>5, <1>6, <1>7
<1>9. ASSUME NEW p \in Queues, NEW e \in Sides
      PROVE  /\ IsInjective(blocked'[p][e])
             /\ p = q /\ e = s => ToSet(blocked'[p][e]) = ToSet(blocked[p][e]) \cup {t}
             /\ p # q \/ e # s => blocked'[p][e] = blocked[p][e]
  <2>1. IsInjective(blocked[p][e])
    BY DEF Placing
  <2>2. CASE p = q /\ e = s
    <3>1. blocked'[p][e] = r
      BY <1>5, <1>7, <2>2
    <3> QED
      BY <1>6, <2>2, <3>1
  <2>3. CASE p # q \/ e # s
    <3>1. blocked'[p][e] = blocked[p][e]
      BY <1>5, <1>7, <2>3
    <3> QED
      BY <2>1, <2>3, <3>1
  <2> QED
    BY <2>2, <2>3
<1> QED
  BY <1>1, <1>8, <1>9 DEF q, s

-----------------------------------------------------------------------------
(* Placing is kept by a step that wakes some tasks, and otherwise moves     *)
(* ready tasks among the ready lists only.                                  *)
LEMMA PlacingMoves ==
  ASSUME Typed, Placing, NEW off \in SUBSET Tasks, \A x \in off : OnAList(x),
         NEW hm \in [Tasks -> Places], NEW pr \in [Tasks -> Levels],
         Woken(off, hm, pr),
         \A x \in Tasks : /\ home[x] \in Waiting \/ hm[x] \in Waiting => hm[x] = home[x]
                          /\ home[x] >= 0 => hm[x] >= 0,
         suspendAll' = 0 => suspendAll = 0,
         \A q \in Queues, s \in Sides : \A x \in ToSet(blocked[q][s]) \ off :
            Entered(x, q, s)',
         running' # NoTask /\ (suspendAll' = 0 => ~yield') /\ ~Blocking(running)' =>
            running' \in Tasks /\ home[running'] >= 0
  PROVE  Placing'
<1>1. /\ \A p \in Levels : p >= 0 /\ p \notin Waiting
      /\ \A p \in Waiting : ~(p >= 0)
  BY ConstantsTyped DEF Levels, Waiting, Delayed, Suspended
<1>2. home \in [Tasks -> Places]
  BY DEF Typed
<1>3. LeftLists(off) /\ pendingReady' \in Seq(Tasks) /\ IsInjective(pendingReady')
  BY DEF Woken
<1>4. \A x \in Tasks : IF suspendAll = 0 /\ x \in off THEN home'[x] = pr[x]
                                                     ELSE home'[x] = hm[x]
  BY DEF Woken
<1>5. ToSet(pendingReady') = IF suspendAll = 0 THEN {} ELSE ToSet(pendingReady) \cup off
  <2>1. CASE suspendAll = 0
    <3>1. pendingReady' = <<>> /\ ToSet(<<>>) = {}
      BY <2>1 DEF Woken, Placing, ToSet
    <3> QED
      BY <2>1, <3>1
  <2>2. CASE suspendAll # 0
    BY <2>2 DEF Woken
  <2> QED
    BY <2>1, <2>2
<1>6. ASSUME NEW q \in Queues, NEW s \in Sides
      PROVE  /\ IsInjective(blocked'[q][s])
             /\ ToSet(blocked'[q][s]) = ToSet(blocked[q][s]) \ off
             /\ ToSet(blocked[q][s]) \subseteq Tasks
             /\ \A x \in ToSet(blocked[q][s]) :
                  home[x] \in Waiting /\ x \notin ToSet(pendingReady)
  <2>1. blocked[q][s] \in Seq(Tasks)
    BY DEF Typed, ListsTyped
  <2>2. ToSet(blocked[q][s]) \subseteq Tasks
    BY <2>1, EntriesOf
  <2> QED
    BY <1>3, <2>2 DEF LeftLists, Placing
<1>7. ASSUME NEW q \in Queues, NEW s \in Sides, NEW x \in ToSet(blocked'[q][s])
      PROVE  Entered(x, q, s)' /\ home'[x] \in Waiting /\ x \notin ToSet(pendingReady')
  BY <1>4, <1>5, <1>6, <1>7
<1>8. ToSet(pendingReady) \subseteq Tasks
  BY EntriesOf DEF Typed, ListsTyped
<1>9. ASSUME NEW x \in ToSet(pendingReady') PROVE home'[x] \in Waiting
  <2>1. suspendAll # 0 /\ x \in Tasks /\ home[x] \in Waiting
    BY <1>5, <1>6, <1>8, <1>9 DEF Placing, OnAList
  <2> QED
    BY <1>4, <2>1
<1>10. suspendAll' = 0 => pendingReady' = <<>>
  BY DEF Woken, Placing
<1>11. ASSUME NEW x \in Tasks, home'[x] \in Waiting
       PROVE  \/ OnAList(x)' \/ x \in ToSet(pendingReady')
              \/ home'[x] = Suspended /\ \E c \in Suspends : c[2] = x
  <2>1. CASE x \in off
    BY <1>1, <1>4, <1>5, <1>11, <2>1
  <2>2. CASE x \notin off
    <3>1. home[x] \in Waiting /\ home'[x] = home[x]
      BY <1>4, <1>11, <2>2
    <3>2. OnAList(x) => OnAList(x)'
      BY <1>6, <2>2 DEF OnAList
    <3>3. ToSet(<<>>) = {}
      BY DEF ToSet
    <3>4. x \in ToSet(pendingReady) => x \in ToSet(pendingReady')
      BY <1>5, <3>3 DEF Placing
    <3> QED
      BY <3>1, <3>2, <3>4 DEF Placing
  <2> QED
    BY <2>1, <2>2
<1>12. running' # NoTask /\ (suspendAll' = 0 => ~yield') /\ ~Blocking(running)' =>
         home'[running'] >= 0
  BY <1>1, <1>4
<1> QED
  BY <1>3, <1>6, <1>7, <1>9, <1>10, <1>11, <1>12 DEF Placing

-----------------------------------------------------------------------------
(* What each step that changes a queue makes of its fields.                 *)

LEMMA FieldUpdates ==
  ASSUME NEW q \in Queues, NEW r, RecordOK(q, r)
  PROVE  /\ \A h \in Tasks \cup {NoTask} :
              LET u == [r EXCEPT !.holder = h]
              IN  /\ RecordOK(q, u) /\ u.holder = h /\ u.count = r.count
                  /\ u.calls = r.calls /\ u.rxLock = r.rxLock /\ u.txLock = r.txLock
         /\ \A n \in 0 .. MaxNesting :
              LET u == [r EXCEPT !.calls = n]
              IN  /\ RecordOK(q, u) /\ u.holder = r.holder /\ u.count = r.count
                  /\ u.calls = n /\ u.rxLock = r.rxLock /\ u.txLock = r.txLock
         /\ \A k \in Unlocked .. MaxLock :
              LET u == [r EXCEPT !.rxLock = k]
              IN  /\ RecordOK(q, u) /\ u.holder = r.holder /\ u.count = r.count
                  /\ u.calls = r.calls /\ u.rxLock = k /\ u.txLock = r.txLock
         /\ \A k \in Unlocked .. MaxLock :
              LET u == [r EXCEPT !.txLock = k]
              IN  /\ RecordOK(q, u) /\ u.holder = r.holder /\ u.count = r.count
                  /\ u.calls = r.calls /\ u.rxLock = r.rxLock /\ u.txLock = k
<1>1. r \in QueueRecords
  BY DEF RecordOK
<1>2. \A n \in 0 .. MaxNesting : n \in Int
  OBVIOUS
<1>3. \A k \in Unlocked .. MaxLock : k \in Int
  OBVIOUS
<1>4. ASSUME NEW h \in Tasks \cup {NoTask}
      PROVE  LET u == [r EXCEPT !.holder = h]
             IN  /\ RecordOK(q, u) /\ u.holder = h /\ u.count = r.count
                 /\ u.calls = r.calls /\ u.rxLock = r.rxLock /\ u.txLock = r.txLock
  <2> DEFINE u == [r EXCEPT !.holder = h]
  <2>1. /\ u \in QueueRecords /\ u.holder = h /\ u.count = r.count
        /\ u.calls = r.calls /\ u.rxLock = r.rxLock /\ u.txLock = r.txLock
        /\ u.store = r.store /\ u.readFrom = r.readFrom /\ u.writeTo = r.writeTo
    BY <1>1 DEF QueueRecords
  <2> HIDE DEF u
  <2>2. RecordOK(q, u)
    BY <2>1, Zenon DEF RecordOK
  <2> QED
    BY <2>1, <2>2 DEF u
<1>5. ASSUME NEW n \in 0 .. MaxNesting
      PROVE  LET u == [r EXCEPT !.calls = n]
             IN  /\ RecordOK(q, u) /\ u.holder = r.holder /\ u.count = r.count
                 /\ u.calls = n /\ u.rxLock = r.rxLock /\ u.txLock = r.txLock
  <2> DEFINE u == [r EXCEPT !.calls = n]
  <2>1. /\ u \in QueueRecords /\ u.holder = r.holder /\ u.count = r.count
        /\ u.calls = n /\ u.rxLock = r.rxLock /\ u.txLock = r.txLock
        /\ u.store = r.store /\ u.readFrom = r.readFrom /\ u.writeTo = r.writeTo
    BY <1>1, <1>2 DEF QueueRecords
  <2> HIDE DEF u
  <2>2. RecordOK(q, u)
    BY <2>1, Zenon DEF RecordOK
  <2> QED
    BY <2>1, <2>2 DEF u
<1>6. ASSUME NEW k \in Unlocked .. MaxLock
      PROVE  LET u == [r EXCEPT !.rxLock = k]
             IN  /\ RecordOK(q, u) /\ u.holder = r.holder /\ u.count = r.count
                 /\ u.calls = r.calls /\ u.rxLock = k /\ u.txLock = r.txLock
  <2> DEFINE u == [r EXCEPT !.rxLock = k]
  <2>1. /\ u \in QueueRecords /\ u.holder = r.holder /\ u.count = r.count
        /\ u.calls = r.calls /\ u.rxLock = k /\ u.txLock = r.txLock
        /\ u.store = r.store /\ u.readFrom = r.readFrom /\ u.writeTo = r.writeTo
    BY <1>1, <1>3 DEF QueueRecords
  <2> HIDE DEF u
  <2>2. RecordOK(q, u)
    BY <2>1, Zenon DEF RecordOK
  <2> QED
    BY <2>1, <2>2 DEF u
<1>7. ASSUME NEW k \in Unlocked .. MaxLock
      PROVE  LET u == [r EXCEPT !.txLock = k]
             IN  /\ RecordOK(q, u) /\ u.holder = r.holder /\ u.count = r.count
                 /\ u.calls = r.calls /\ u.rxLock = r.rxLock /\ u.txLock = k
  <2> DEFINE u == [r EXCEPT !.txLock = k]
  <2>1. /\ u \in QueueRecords /\ u.holder = r.holder /\ u.count = r.count
        /\ u.calls = r.calls /\ u.rxLock = r.rxLock /\ u.txLock = k
        /\ u.store = r.store /\ u.readFrom = r.readFrom /\ u.writeTo = r.writeTo
    BY <1>1, <1>3 DEF QueueRecords
  <2> HIDE DEF u
  <2>2. RecordOK(q, u)
    BY <2>1, Zenon DEF RecordOK
  <2> QED
    BY <2>1, <2>2 DEF u
<1> QED
  BY <1>4, <1>5, <1>6, <1>7

(* The new fields of queue q; the other queues stay as they are.            *)
Becomes(q, count, holder, calls, rxLock, txLock) ==
  /\ QueuesTyped'
  /\ \A p \in Queues \ {q} : queue'[p] = queue[p]
  /\ queue'[q].count = count /\ queue'[q].holder = holder
  /\ queue'[q].calls = calls
  /\ queue'[q].rxLock = rxLock /\ queue'[q].txLock = txLock

LEMMA UpdateQueue ==
  ASSUME QueuesTyped, NEW q \in Queues, NEW r, RecordOK(q, r),
         queue' = [queue EXCEPT ![q] = r]
  PROVE  Becomes(q, r.count, r.holder, r.calls, r.rxLock, r.txLock)
<1>1. r \in QueueRecords /\ queue \in [Queues -> QueueRecords]
  BY DEF RecordOK, QueuesTyped
<1>2. /\ queue' \in [Queues -> QueueRecords] /\ queue'[q] = r
      /\ \A p \in Queues \ {q} : queue'[p] = queue[p]
  BY <1>1
<1>3. \A p \in Queues : RecordOK(p, queue'[p])
  BY <1>2 DEF QueuesTyped
<1>4. QueuesTyped'
  BY <1>2, <1>3 DEF QueuesTyped, RecordOK
<1> QED
  BY <1>2, <1>4 DEF Becomes

LEMMA LocalsOf ==
  ASSUME Typed, NEW t \in Tasks
  PROVE  /\ loc[t] \in Locals /\ loc[t].queue \in Queues /\ loc[t].item \in Items
         /\ Side(loc[t].op) \in Sides /\ pc[t] \in Labels
         /\ RecordOK(loc[t].queue, queue[loc[t].queue])
BY DEF Typed, CallsTyped, QueuesTyped, Locals, Side, Sides

LEMMA TrySendQueue ==
  ASSUME Typed, NEW t \in Tasks, TrySend(t)
  PROVE  LET q == loc[t].queue
         IN  Becomes(q, queue[q].count + 1, NoTask, queue[q].calls,
                     queue[q].rxLock, queue[q].txLock)
<1> DEFINE q == loc[t].queue
           r == CopiedIn(queue[q], q, loc[t].item, loc[t].op)
<1>1. q \in Queues /\ loc[t].item \in Items /\ RecordOK(q, queue[q]) /\ QueuesTyped
  BY LocalsOf DEF Typed
<1>2. queue' = [queue EXCEPT ![q] = r] /\ queue[q].count < Capacity[q]
  BY DEF TrySend, HasRoom
<1>3. /\ RecordOK(q, r) /\ r.count = queue[q].count + 1 /\ r.holder = NoTask
      /\ r.calls = queue[q].calls /\ r.rxLock = queue[q].rxLock
      /\ r.txLock = queue[q].txLock
  BY <1>1, <1>2, CopiedFields
<1> HIDE DEF r, q
<1>4. Becomes(q, r.count, r.holder, r.calls, r.rxLock, r.txLock)
  BY <1>1, <1>2, <1>3, UpdateQueue
<1> QED
  BY <1>3, <1>4 DEF q

LEMMA TryReceiveQueue ==
  ASSUME Typed, NEW t \in Tasks, TryReceive(t)
  PROVE  LET q == loc[t].queue
         IN  Becomes(q, queue[q].count - 1,
                     IF Kind[q] = "mutex" THEN t ELSE queue[q].holder,
                     queue[q].calls, queue[q].rxLock, queue[q].txLock)
<1> DEFINE q == loc[t].queue
           r == Removed(queue[q], q)
           h == IF Kind[q] = "mutex" THEN t ELSE queue[q].holder
           u == [r EXCEPT !.holder = h]
<1>1. q \in Queues /\ RecordOK(q, queue[q]) /\ QueuesTyped
  BY LocalsOf DEF Typed
<1>2. queue[q].count > 0
  BY DEF TryReceive, HasItem
<1>3. /\ RecordOK(q, r) /\ r.count = queue[q].count - 1
      /\ r.holder = queue[q].holder
      /\ r.calls = queue[q].calls /\ r.rxLock = queue[q].rxLock
      /\ r.txLock = queue[q].txLock
  BY <1>1, <1>2, RemovedFields
<1>4. queue' = [queue EXCEPT ![q] = u]
  BY Zenon DEF TryReceive
<1>5. h \in Tasks \cup {NoTask}
  BY <1>1, <1>3 DEF RecordOK, QueueRecords
<1> HIDE DEF r, q, h
<1>6. /\ RecordOK(q, u) /\ u.holder = h /\ u.count = r.count
      /\ u.calls = r.calls /\ u.rxLock = r.rxLock /\ u.txLock = r.txLock
  BY <1>1, <1>3, <1>5, FieldUpdates
<1> HIDE DEF u
<1>7. Becomes(q, u.count, u.holder, u.calls, u.rxLock, u.txLock)
  BY <1>1, <1>4, <1>6, UpdateQueue
<1> QED
  BY <1>3, <1>6, <1>7 DEF q, h

(* A call counts up or down how often the mutex q was taken.                *)
LEMMA CountQueue ==
  ASSUME Typed, NEW q \in Queues, NEW n \in 0 .. MaxNesting,
         queue' = [queue EXCEPT ![q].calls = n]
  PROVE  Becomes(q, queue[q].count, queue[q].holder, n, queue[q].rxLock,
                 queue[q].txLock)
<1> DEFINE u == [queue[q] EXCEPT !.calls = n]
<1>1. RecordOK(q, queue[q]) /\ QueuesTyped
  BY DEF Typed, QueuesTyped
<1>2. queue' = [queue EXCEPT ![q] = u]
  OBVIOUS
<1>3. /\ RecordOK(q, u) /\ u.holder = queue[q].holder /\ u.count = queue[q].count
      /\ u.calls = n /\ u.rxLock = queue[q].rxLock /\ u.txLock = queue[q].txLock
  BY <1>1, FieldUpdates
<1> HIDE DEF u
<1>4. Becomes(q, u.count, u.holder, u.calls, u.rxLock, u.txLock)
  BY <1>1, <1>2, <1>3, UpdateQueue
<1> QED
  BY <1>3, <1>4

LEMMA LockQueue ==
  ASSUME Typed, NEW t \in Tasks, prvLockQueue(t)
  PROVE  LET q == loc[t].queue
         IN  Becomes(q, queue[q].count, queue[q].holder, queue[q].calls,
                     Locked(queue[q].rxLock), Locked(queue[q].txLock))
<1> DEFINE q == loc[t].queue
           r == [queue[q] EXCEPT !.rxLock = Locked(@)]
           u == [r EXCEPT !.txLock = Locked(queue[q].txLock)]
<1>1. q \in Queues /\ RecordOK(q, queue[q]) /\ QueuesTyped
  BY LocalsOf DEF Typed
<1>2. \A k \in Unlocked .. MaxLock : Locked(k) \in Unlocked .. MaxLock
  BY ConstantsTyped DEF Locked, Unlocked
<1>3. /\ Locked(queue[q].rxLock) \in Unlocked .. MaxLock
      /\ Locked(queue[q].txLock) \in Unlocked .. MaxLock
  BY <1>1, <1>2 DEF RecordOK
<1>4. /\ RecordOK(q, r) /\ r.holder = queue[q].holder /\ r.count = queue[q].count
      /\ r.calls = queue[q].calls /\ r.rxLock = Locked(queue[q].rxLock)
      /\ r.txLock = queue[q].txLock
  BY <1>1, <1>3, FieldUpdates
<1>5. queue' = [queue EXCEPT ![q] = u]
  <2>1. queue[q] \in QueueRecords /\ queue \in [Queues -> QueueRecords]
    BY <1>1 DEF RecordOK, QueuesTyped
  <2> QED
    BY <1>1, <2>1 DEF prvLockQueue, QueueRecords
<1> HIDE DEF r, q
<1>6. /\ RecordOK(q, u) /\ u.holder = r.holder /\ u.count = r.count
      /\ u.calls = r.calls /\ u.rxLock = r.rxLock
      /\ u.txLock = Locked(queue[q].txLock)
  BY <1>1, <1>3, <1>4, FieldUpdates
<1> HIDE DEF u
<1>7. Becomes(q, u.count, u.holder, u.calls, u.rxLock, u.txLock)
  BY <1>1, <1>5, <1>6, UpdateQueue
<1> QED
  BY <1>4, <1>6, <1>7 DEF q

LEMMA UnlockTxQueue ==
  ASSUME Typed, NEW t \in Tasks, UnlockTx(t)
  PROVE  LET q == loc[t].queue
         IN  Becomes(q, queue[q].count, queue[q].holder, queue[q].calls,
                     queue[q].rxLock, Unlocked)
<1> DEFINE q == loc[t].queue
           u == [queue[q] EXCEPT !.txLock = Unlocked]
<1>1. q \in Queues /\ RecordOK(q, queue[q]) /\ QueuesTyped
  BY LocalsOf DEF Typed
<1>2. queue' = [queue EXCEPT ![q] = u]
  BY DEF UnlockTx
<1>3. Unlocked \in Unlocked .. MaxLock
  BY ConstantsTyped DEF Unlocked
<1> HIDE DEF q
<1>4. /\ RecordOK(q, u) /\ u.holder = queue[q].holder /\ u.count = queue[q].count
      /\ u.calls = queue[q].calls /\ u.rxLock = queue[q].rxLock /\ u.txLock = Unlocked
  BY <1>1, <1>3, FieldUpdates
<1> HIDE DEF u
<1>5. Becomes(q, u.count, u.holder, u.calls, u.rxLock, u.txLock)
  BY <1>1, <1>2, <1>4, UpdateQueue
<1> QED
  BY <1>4, <1>5 DEF q

LEMMA UnlockRxQueue ==
  ASSUME Typed, NEW t \in Tasks, UnlockRx(t)
  PROVE  LET q == loc[t].queue
         IN  Becomes(q, queue[q].count, queue[q].holder, queue[q].calls,
                     Unlocked, queue[q].txLock)
<1> DEFINE q == loc[t].queue
           u == [queue[q] EXCEPT !.rxLock = Unlocked]
<1>1. q \in Queues /\ RecordOK(q, queue[q]) /\ QueuesTyped
  BY LocalsOf DEF Typed
<1>2. queue' = [queue EXCEPT ![q] = u]
  BY DEF UnlockRx
<1>3. Unlocked \in Unlocked .. MaxLock
  BY ConstantsTyped DEF Unlocked
<1> HIDE DEF q
<1>4. /\ RecordOK(q, u) /\ u.holder = queue[q].holder /\ u.count = queue[q].count
      /\ u.calls = queue[q].calls /\ u.rxLock = Unlocked /\ u.txLock = queue[q].txLock
  BY <1>1, <1>3, FieldUpdates
<1> HIDE DEF u
<1>5. Becomes(q, u.count, u.holder, u.calls, u.rxLock, u.txLock)
  BY <1>1, <1>2, <1>4, UpdateQueue
<1> QED
  BY <1>4, <1>5 DEF q

(* An interrupt counts what it did to a locked queue.                       *)
LEMMA CountedTyped ==
  ASSUME NEW k \in Unlocked .. MaxLock, k < MaxLock
  PROVE  Counted(k) \in Unlocked .. MaxLock
BY ConstantsTyped DEF Counted, Unlocked

LEMMA SendFromISRQueue ==
  ASSUME Typed, NEW q \in Queues, NEW x \in Items, NEW op,
         xQueueGenericSendFromISR(q, x, op)
  PROVE  Becomes(q, queue[q].count + 1, NoTask, queue[q].calls, queue[q].rxLock,
                 Counted(queue[q].txLock))
<1> DEFINE r == CopiedIn(queue[q], q, x, op)
           k == Counted(queue[q].txLock)
           u == [r EXCEPT !.txLock = k]
<1>1. RecordOK(q, queue[q]) /\ QueuesTyped
  BY DEF Typed, QueuesTyped
<1>2. queue[q].count < Capacity[q] /\ queue[q].txLock < MaxLock
  BY DEF xQueueGenericSendFromISR, HasRoom
<1>3. /\ RecordOK(q, r) /\ r.count = queue[q].count + 1 /\ r.holder = NoTask
      /\ r.calls = queue[q].calls /\ r.rxLock = queue[q].rxLock
      /\ r.txLock = queue[q].txLock
  BY <1>1, <1>2, CopiedFields
<1>4. queue' = [queue EXCEPT ![q] = u]
  BY Zenon DEF xQueueGenericSendFromISR
<1>5. k \in Unlocked .. MaxLock
  BY <1>1, <1>2, <1>3, CountedTyped DEF RecordOK
<1> HIDE DEF r, k
<1>6. /\ RecordOK(q, u) /\ u.holder = r.holder /\ u.count = r.count
      /\ u.calls = r.calls /\ u.rxLock = r.rxLock /\ u.txLock = k
  BY <1>3, <1>5, FieldUpdates
<1> HIDE DEF u
<1>7. Becomes(q, u.count, u.holder, u.calls, u.rxLock, u.txLock)
  BY <1>1, <1>4, <1>6, UpdateQueue
<1> QED
  BY <1>3, <1>6, <1>7 DEF k

LEMMA ReceiveFromISRQueue ==
  ASSUME Typed, NEW q \in Queues, xQueueReceiveFromISR(q)
  PROVE  Becomes(q, queue[q].count - 1, queue[q].holder, queue[q].calls,
                 Counted(queue[q].rxLock), queue[q].txLock)
<1> DEFINE r == Removed(queue[q], q)
           k == Counted(queue[q].rxLock)
           u == [r EXCEPT !.rxLock = k]
<1>1. RecordOK(q, queue[q]) /\ QueuesTyped
  BY DEF Typed, QueuesTyped
<1>2. queue[q].count > 0 /\ queue[q].rxLock < MaxLock
  BY DEF xQueueReceiveFromISR, HasItem
<1>3. /\ RecordOK(q, r) /\ r.count = queue[q].count - 1
      /\ r.holder = queue[q].holder
      /\ r.calls = queue[q].calls /\ r.rxLock = queue[q].rxLock
      /\ r.txLock = queue[q].txLock
  BY <1>1, <1>2, RemovedFields
<1>4. queue' = [queue EXCEPT ![q] = u]
  BY Zenon DEF xQueueReceiveFromISR
<1>5. k \in Unlocked .. MaxLock
  BY <1>1, <1>2, <1>3, CountedTyped DEF RecordOK
<1> HIDE DEF r, k
<1>6. /\ RecordOK(q, u) /\ u.holder = r.holder /\ u.count = r.count
      /\ u.calls = r.calls /\ u.rxLock = k /\ u.txLock = r.txLock
  BY <1>3, <1>5, FieldUpdates
<1> HIDE DEF u
<1>7. Becomes(q, u.count, u.holder, u.calls, u.rxLock, u.txLock)
  BY <1>1, <1>4, <1>6, UpdateQueue
<1> QED
  BY <1>3, <1>6, <1>7 DEF k

-----------------------------------------------------------------------------
(* What the steps make of a task's place in its call.                       *)

(* Task t goes to l; the other tasks stay where they are.                   *)
Goes(t, l) ==
  /\ pc' \in [Tasks -> Labels] /\ loc' \in [Tasks -> Locals] /\ pc'[t] = l
  /\ \A x \in Tasks \ {t} : pc'[x] = pc[x] /\ loc'[x] = loc[x]
SameCall(t) ==
  /\ loc'[t].op = loc[t].op /\ loc'[t].queue = loc[t].queue
  /\ loc'[t].item = loc[t].item /\ loc'[t].wait = loc[t].wait

LEMMA BeginGoes ==
  ASSUME Typed, NEW t \in Tasks, NEW op \in Operations, NEW q \in Queues,
         NEW x \in Items, NEW w \in Waits, Begin(t, op, q, x, w)
  PROVE  /\ Goes(t, "try")
         /\ loc'[t].op = op /\ loc'[t].queue = q /\ loc'[t].item = x
         /\ loc'[t].wait = w /\ ~loc'[t].timed /\ loc'[t].then = "none"
<1> DEFINE l == [NoLocals EXCEPT !.op = op, !.queue = q, !.item = x, !.wait = w]
<1>1. /\ l \in Locals /\ l.op = op /\ l.queue = q /\ l.item = x
      /\ l.wait = w /\ l.timed = FALSE /\ l.then = "none"
  <2>1. NoLocals \in Locals /\ NoLocals.timed = FALSE /\ NoLocals.then = "none"
    BY ConstantsTyped DEF NoLocals
  <2> QED
    BY <2>1 DEF Locals
<1>2. loc' = [loc EXCEPT ![t] = l] /\ pc' = [pc EXCEPT ![t] = "try"]
  BY Zenon DEF Begin, Goto
<1> HIDE DEF l
<1>3. loc \in [Tasks -> Locals] /\ pc \in [Tasks -> Labels] /\ "try" \in Labels
  BY DEF Typed, CallsTyped, Labels
<1>4. loc' \in [Tasks -> Locals] /\ loc'[t] = l
  BY <1>1, <1>2, <1>3
<1>5. pc' \in [Tasks -> Labels] /\ pc'[t] = "try"
  BY <1>2, <1>3
<1>6. \A y \in Tasks \ {t} : pc'[y] = pc[y] /\ loc'[y] = loc[y]
  BY <1>2, <1>3
<1> QED
  BY <1>1, <1>4, <1>5, <1>6 DEF Goes

LEMMA GotoGoes ==
  ASSUME Typed, NEW t \in Tasks, NEW l \in Labels, Goto(t, l), UNCHANGED loc
  PROVE  Goes(t, l) /\ loc'[t] = loc[t]
BY DEF Typed, CallsTyped, Goto, Goes

LEMMA ReturnGoes ==
  ASSUME Typed, NEW t \in Tasks, Return(t)
  PROVE  Goes(t, "run")
BY ConstantsTyped DEF Typed, CallsTyped, Return, Goto, Goes, Labels

LEMMA LeaveGoes ==
  ASSUME Typed, NEW t \in Tasks, NEW then \in {"fail", "retry", "block"},
         NEW late \in BOOLEAN, Leave(t, then, late)
  PROVE  /\ Goes(t, "unlockTx") /\ SameCall(t) /\ loc'[t].timed = loc[t].timed
         /\ loc'[t].then = then /\ loc'[t].late = late
<1> DEFINE l == [loc[t] EXCEPT !.then = then, !.late = late]
<1>1. loc \in [Tasks -> Locals] /\ pc \in [Tasks -> Labels] /\ "unlockTx" \in Labels
  BY DEF Typed, CallsTyped, Labels, Sections
<1>2. /\ l \in Locals /\ l.op = loc[t].op /\ l.queue = loc[t].queue
      /\ l.item = loc[t].item /\ l.wait = loc[t].wait
      /\ l.timed = loc[t].timed /\ l.then = then /\ l.late = late
  <2>1. loc[t] \in Locals
    BY <1>1
  <2> QED
    BY <2>1 DEF Locals
<1>3. loc' = [loc EXCEPT ![t] = l] /\ pc' = [pc EXCEPT ![t] = "unlockTx"]
  <2>1. loc' = [loc EXCEPT ![t].then = then, ![t].late = late]
    BY DEF Leave
  <2> QED
    BY <1>1, <2>1 DEF Leave, Goto, Locals
<1> HIDE DEF l
<1>4. loc' \in [Tasks -> Locals] /\ loc'[t] = l
  BY <1>1, <1>2, <1>3
<1>5. pc' \in [Tasks -> Labels] /\ pc'[t] = "unlockTx"
  BY <1>1, <1>3
<1>6. \A y \in Tasks \ {t} : pc'[y] = pc[y] /\ loc'[y] = loc[y]
  BY <1>1, <1>3
<1> QED
  BY <1>2, <1>4, <1>5, <1>6 DEF Goes, SameCall

(* TryLater.                                                                *)
LEMMA TimedGoes ==
  ASSUME Typed, NEW t \in Tasks, NEW l \in Labels, Goto(t, l),
         loc' = [loc EXCEPT ![t].timed = TRUE]
  PROVE  /\ Goes(t, l) /\ SameCall(t) /\ loc'[t].timed
<1> DEFINE r == [loc[t] EXCEPT !.timed = TRUE]
<1>1. loc \in [Tasks -> Locals] /\ pc \in [Tasks -> Labels]
  BY DEF Typed, CallsTyped
<1>2. /\ r \in Locals /\ r.op = loc[t].op /\ r.queue = loc[t].queue
      /\ r.item = loc[t].item /\ r.wait = loc[t].wait /\ r.timed = TRUE
  <2>1. loc[t] \in Locals
    BY <1>1
  <2> QED
    BY <2>1 DEF Locals
<1>3. loc' = [loc EXCEPT ![t] = r] /\ pc' = [pc EXCEPT ![t] = l]
  BY DEF Goto
<1> HIDE DEF r
<1>4. loc' \in [Tasks -> Locals] /\ loc'[t] = r
  BY <1>1, <1>2, <1>3
<1>5. pc' \in [Tasks -> Labels] /\ pc'[t] = l
  BY <1>1, <1>3
<1>6. \A y \in Tasks \ {t} : pc'[y] = pc[y] /\ loc'[y] = loc[y]
  BY <1>1, <1>3
<1> QED
  BY <1>2, <1>4, <1>5, <1>6 DEF Goes, SameCall

(* Only the time of some of the waits is over.                              *)
LEMMA LatelyFields ==
  ASSUME Typed, NEW late
  PROVE  /\ Lately(late) \in [Tasks -> Locals]
         /\ \A x \in Tasks :
              /\ Lately(late)[x].op = loc[x].op /\ Lately(late)[x].queue = loc[x].queue
              /\ Lately(late)[x].item = loc[x].item /\ Lately(late)[x].wait = loc[x].wait
              /\ Lately(late)[x].timed = loc[x].timed /\ Lately(late)[x].then = loc[x].then
<1>1. ASSUME NEW x \in Tasks, NEW b \in BOOLEAN
      PROVE  LET l == [loc[x] EXCEPT !.late = b]
             IN  /\ l \in Locals /\ l.op = loc[x].op /\ l.queue = loc[x].queue
                 /\ l.item = loc[x].item /\ l.wait = loc[x].wait
                 /\ l.timed = loc[x].timed /\ l.then = loc[x].then
  <2>1. loc[x] \in Locals
    BY DEF Typed, CallsTyped
  <2> QED
    BY <2>1 DEF Locals
<1>2. ASSUME NEW x \in Tasks
      PROVE  \E b \in BOOLEAN : Lately(late)[x] = [loc[x] EXCEPT !.late = b]
  <2>1. loc[x].late \in BOOLEAN
    BY LocalsOf DEF Locals
  <2>2. Lately(late)[x] = [loc[x] EXCEPT !.late = loc[x].late \/ x \in late]
    BY DEF Lately
  <2>3. (loc[x].late \/ x \in late) \in BOOLEAN
    OBVIOUS
  <2> QED
    BY <2>2, <2>3
<1>3. ASSUME NEW x \in Tasks
      PROVE  /\ Lately(late)[x] \in Locals
             /\ Lately(late)[x].op = loc[x].op /\ Lately(late)[x].queue = loc[x].queue
             /\ Lately(late)[x].item = loc[x].item /\ Lately(late)[x].wait = loc[x].wait
             /\ Lately(late)[x].timed = loc[x].timed /\ Lately(late)[x].then = loc[x].then
  <2>1. PICK b \in BOOLEAN : Lately(late)[x] = [loc[x] EXCEPT !.late = b]
    BY <1>2
  <2> QED
    BY <1>1, <2>1
<1>4. Lately(late) \in [Tasks -> Locals]
  <2>1. Lately(late) = [x \in Tasks |-> Lately(late)[x]]
    BY DEF Lately
  <2> QED
    BY <1>3, <2>1
<1> QED
  BY <1>3, <1>4

-----------------------------------------------------------------------------
(* The steps there are.                                                     *)
CallStep(t) ==
  \E op \in Operations, q \in Queues, w \in Waits :
    /\ <<t, op, q, w>> \in Calls
    /\ \/ Call(t, op, q, w)
       \/ op = "take" /\ TakeRecursive(t, q, w)
       \/ op = "give" /\ GiveRecursive(t, q)
TryStep(t) == TrySend(t) \/ TryReceive(t) \/ TryPeek(t) \/ TryLater(t)
WaitStep(t) ==
  \/ vTaskSuspendAll(t) \/ prvLockQueue(t) \/ xTaskCheckForTimeOut(t)
  \/ TestQueue(t) \/ vTaskPriorityInherit(t) \/ vTaskPlaceOnEventList(t)
  \/ UnlockTx(t) \/ UnlockRx(t) \/ xTaskResumeAll(t)
AltStep(t) == AltExpired(t) \/ AltBlock(t)
OtherStep(t) ==
  \/ \E x \in Tasks, p \in Levels : /\ <<t, x, p>> \in PrioritySets
                                    /\ vTaskPrioritySet(t, x, p)
  \/ \E x \in Tasks : /\ <<t, x>> \in Suspends
                      /\ vTaskSuspend(t, x) \/ vTaskResume(t, x)
  \/ \E x \in Tasks : vTaskDelete(t, x)
IdleStep == CheckTermination \/ CheckedTermination \/ prvDeleteTCB
IsrStep ==
  \/ \E x \in Tasks : xTaskResumeFromISR(x)
  \/ \E q \in Queues \ Mutexes, x \in Items, op \in {"send", "front"} :
       xQueueGenericSendFromISR(q, x, op)
  \/ \E q \in Queues \ Mutexes : xQueueReceiveFromISR(q)

LEMMA NextCases ==
  ASSUME Next
  PROVE  \/ \E t \in Tasks : \/ CallStep(t) \/ TakeCounted(t) \/ TryStep(t)
                             \/ WaitStep(t) \/ AltStep(t) \/ OtherStep(t)
         \/ IdleStep \/ IsrStep \/ vTaskSwitchContext
<1>1. ASSUME NEW t \in Tasks, Step(t)
      PROVE  TakeCounted(t) \/ TryStep(t) \/ WaitStep(t) \/ AltStep(t)
  BY <1>1, Zenon DEF Step, xQueueGenericSend, xQueueGenericReceive,
     xQueueAltGenericSend, xQueueAltGenericReceive, Wait, TryStep, WaitStep, AltStep
<1>2. ASSUME NEW c \in Calls,
             \/ Call(c[1], c[2], c[3], c[4])
             \/ c[2] = "take" /\ TakeRecursive(c[1], c[3], c[4])
             \/ c[2] = "give" /\ GiveRecursive(c[1], c[3])
      PROVE  \E t \in Tasks : CallStep(t)
  <2>1. /\ c[1] \in Tasks /\ c[2] \in Operations /\ c[3] \in Queues /\ c[4] \in Waits
        /\ c = <<c[1], c[2], c[3], c[4]>>
    BY QueueAssumption
  <2>2. <<c[1], c[2], c[3], c[4]>> \in Calls
    BY <2>1
  <2>3. CallStep(c[1])
    BY <1>2, <2>1, <2>2, Zenon DEF CallStep
  <2> QED
    BY <2>1, <2>3
<1>3. ASSUME NEW c \in PrioritySets, vTaskPrioritySet(c[1], c[2], c[3])
      PROVE  \E t \in Tasks : OtherStep(t)
  <2>1. /\ c[1] \in Tasks /\ c[2] \in Tasks /\ c[3] \in Levels
        /\ c = <<c[1], c[2], c[3]>>
    BY QueueAssumption
  <2>2. <<c[1], c[2], c[3]>> \in PrioritySets
    BY <2>1
  <2> QED
    BY <1>3, <2>1, <2>2, Zenon DEF OtherStep
<1>4. ASSUME NEW c \in Suspends, vTaskSuspend(c[1], c[2]) \/ vTaskResume(c[1], c[2])
      PROVE  \E t \in Tasks : OtherStep(t)
  <2>1. c[1] \in Tasks /\ c[2] \in Tasks /\ c = <<c[1], c[2]>>
    BY QueueAssumption
  <2>2. <<c[1], c[2]>> \in Suspends
    BY <2>1
  <2> QED
    BY <1>4, <2>1, <2>2, Zenon DEF OtherStep
<1>5. ASSUME NEW c \in Deletes, vTaskDelete(c[1], c[2])
      PROVE  \E t \in Tasks : OtherStep(t)
  <2>1. c[1] \in Tasks /\ c[2] \in Tasks
    BY QueueAssumption
  <2> QED
    BY <1>5, <2>1, Zenon DEF OtherStep
<1>6. ASSUME NEW x \in IsrResumes, xTaskResumeFromISR(x)
      PROVE  IsrStep
  BY <1>6, QueueAssumption DEF IsrStep
<1>7. ASSUME NEW q \in IsrSends, NEW x \in Items, NEW op \in {"send", "front"},
             xQueueGenericSendFromISR(q, x, op)
      PROVE  IsrStep
  <2>1. q \in Queues \ Mutexes
    BY QueueAssumption
  <2> QED
    BY <1>7, <2>1, Zenon DEF IsrStep
<1>8. ASSUME NEW q \in IsrReceives, xQueueReceiveFromISR(q)
      PROVE  IsrStep
  <2>1. q \in Queues \ Mutexes
    BY QueueAssumption
  <2> QED
    BY <1>8, <2>1, Zenon DEF IsrStep
<1> QED
  BY <1>1, <1>2, <1>3, <1>4, <1>5, <1>6, <1>7, <1>8, Zenon DEF Next, IdleStep

-----------------------------------------------------------------------------
(* Called.                                                                  *)

LEMMA CalledElsewhere ==
  ASSUME Called, NEW t \in Tasks, NEW l, Goes(t, l), CalledAt(t)'
  PROVE  Called'
BY DEF Called, CalledAt, Goes, WaitsForMutex

LEMMA CalledStays ==
  ASSUME Called, UNCHANGED <<pc, loc>>
  PROVE  Called'
BY DEF Called, CalledAt, WaitsForMutex

LEMMA CalledLately ==
  ASSUME Typed, Called, NEW late, UNCHANGED pc, loc' = Lately(late)
  PROVE  Called'
BY LatelyFields DEF Called, CalledAt, WaitsForMutex

LEMMA CalledReturns ==
  ASSUME Typed, Called, NEW t \in Tasks, Return(t)
  PROVE  Called'
BY ReturnGoes, CalledElsewhere DEF CalledAt, Goes

LEMMA CalledCall ==
  ASSUME Typed, Called, NEW t \in Tasks, CallStep(t)
  PROVE  Called'
<1>1. PICK op \in Operations, q \in Queues, w \in Waits :
             /\ <<t, op, q, w>> \in Calls
             /\ \/ Call(t, op, q, w)
                \/ op = "take" /\ TakeRecursive(t, q, w)
                \/ op = "give" /\ GiveRecursive(t, q)
  BY DEF CallStep
<1>2. ASSUME NEW x \in Items, NEW v \in Waits, op = "give" => v = "none",
             Begin(t, op, q, x, v)
      PROVE  Called'
  <2>1. /\ Goes(t, "try") /\ loc'[t].op = op /\ loc'[t].queue = q
        /\ loc'[t].wait = v
    BY <1>2, BeginGoes
  <2>2. CalledAt(t)'
    BY <1>1, <1>2, <2>1 DEF CalledAt, Goes
  <2> QED
    BY <2>1, <2>2, CalledElsewhere
<1>3. NoLocals.item \in Items /\ "none" \in Waits
  BY ConstantsTyped DEF Waits
<1>4. CASE Call(t, op, q, w)
  BY <1>2, <1>4 DEF Call
<1>5. CASE op = "take" /\ TakeRecursive(t, q, w)
  BY <1>2, <1>3, <1>5, CalledStays DEF TakeRecursive
<1>6. CASE op = "give" /\ GiveRecursive(t, q)
  BY <1>2, <1>3, <1>6, CalledStays DEF GiveRecursive
<1> QED
  BY <1>1, <1>4, <1>5, <1>6

LEMMA CalledTry ==
  ASSUME Typed, Called, NEW t \in Tasks, TryStep(t)
  PROVE  Called'
<1>1. CASE TrySend(t)
  BY <1>1, CalledReturns DEF TrySend
<1>2. CASE TryPeek(t)
  BY <1>2, CalledReturns DEF TryPeek
<1>3. CASE TryReceive(t) /\ loc[t].op # "take"
  BY <1>3, CalledReturns DEF TryReceive
<1>4. CASE TryReceive(t) /\ loc[t].op = "take"
  <2>1. Goto(t, "count") /\ UNCHANGED loc /\ pc[t] = "try" /\ "count" \in Labels
    BY <1>4 DEF TryReceive, At, Labels
  <2>2. Goes(t, "count") /\ loc'[t] = loc[t]
    BY <2>1, GotoGoes
  <2>3. CalledAt(t)'
    BY <1>4, <2>1, <2>2 DEF Called, CalledAt, Goes
  <2> QED
    BY <2>2, <2>3, CalledElsewhere
<1>5. CASE TryLater(t) /\ loc[t].wait = "none"
  BY <1>5, CalledReturns DEF TryLater
<1>6. CASE TryLater(t) /\ loc[t].wait # "none"
  <2> DEFINE l == IF t \in AltTasks THEN "wait" ELSE "suspend"
  <2>1. /\ Goto(t, l) /\ loc' = [loc EXCEPT ![t].timed = TRUE] /\ pc[t] = "try"
        /\ l \in Labels
    BY <1>6 DEF TryLater, At, Labels
  <2>2. l \in {"wait", "suspend"}
    OBVIOUS
  <2> HIDE DEF l
  <2>3. Goes(t, l) /\ SameCall(t) /\ loc'[t].timed
    BY <2>1, TimedGoes
  <2>4. CalledAt(t)'
    BY <1>6, <2>1, <2>2, <2>3 DEF Called, CalledAt, Goes, SameCall
  <2> QED
    BY <2>3, <2>4, CalledElsewhere
<1> QED
  BY <1>1, <1>2, <1>3, <1>4, <1>5, <1>6 DEF TryStep

(* A step on from one of the labels of a wait to another.                   *)
LEMMA CalledGoes ==
  ASSUME Typed, Called, NEW t \in Tasks, pc[t] \notin {"run", "try", "count"},
         NEW l \in Labels, l # "count", l = "inherit" => WaitsForMutex(t), Goes(t, l),
         SameCall(t), loc'[t].timed = loc[t].timed
  PROVE  Called'
<1>1. CalledAt(t)'
  BY DEF Called, CalledAt, Goes, SameCall, WaitsForMutex
<1> QED
  BY <1>1, CalledElsewhere

LEMMA CalledGoto ==
  ASSUME Typed, Called, NEW t \in Tasks, pc[t] \notin {"run", "try", "count"},
         NEW l \in Labels, l # "count", l = "inherit" => WaitsForMutex(t),
         Goto(t, l), UNCHANGED loc
  PROVE  Called'
<1>1. Goes(t, l) /\ loc'[t] = loc[t]
  BY GotoGoes
<1>2. SameCall(t) /\ loc'[t].timed = loc[t].timed
  BY <1>1 DEF SameCall
<1> QED
  BY <1>1, <1>2, CalledGoes

LEMMA CalledLeaves ==
  ASSUME Typed, Called, NEW t \in Tasks, pc[t] \notin {"run", "try", "count"},
         NEW then \in {"fail", "retry", "block"}, NEW late \in BOOLEAN,
         Leave(t, then, late)
  PROVE  Called'
<1>1. Goes(t, "unlockTx") /\ SameCall(t) /\ loc'[t].timed = loc[t].timed
  BY LeaveGoes
<1> QED
  BY <1>1, CalledGoes DEF Labels, Sections

LEMMA CalledWait ==
  ASSUME Typed, Called, NEW t \in Tasks, WaitStep(t) \/ AltStep(t)
  PROVE  Called'
<1> USE DEF At, Labels, Sections
<1>1. CASE vTaskSuspendAll(t)
  BY <1>1, CalledGoto DEF vTaskSuspendAll
<1>2. CASE prvLockQueue(t)
  BY <1>2, CalledGoto DEF prvLockQueue
<1>3. CASE xTaskCheckForTimeOut(t)
  BY <1>3, CalledGoto, CalledLeaves DEF xTaskCheckForTimeOut
<1>4. CASE TestQueue(t)
  BY <1>4, CalledGoto, CalledLeaves DEF TestQueue
<1>5. CASE vTaskPriorityInherit(t)
  BY <1>5, CalledGoto DEF vTaskPriorityInherit
<1>6. CASE vTaskPlaceOnEventList(t)
  BY <1>6, CalledLeaves DEF vTaskPlaceOnEventList
<1>7. CASE UnlockTx(t)
  BY <1>7, CalledGoto DEF UnlockTx, Replay
<1>8. CASE UnlockRx(t)
  BY <1>8, CalledGoto DEF UnlockRx, Replay
<1>9. CASE xTaskResumeAll(t)
  <2>1. PICK late :
          IF loc[t].then = "fail"
          THEN Goto(t, "run") /\ loc' = [Lately(late) EXCEPT ![t] = NoLocals]
          ELSE Goto(t, "try") /\ loc' = Lately(late)
    BY <1>9 DEF xTaskResumeAll
  <2> DEFINE f == Lately(late)
  <2>2. /\ f \in [Tasks -> Locals] /\ pc \in [Tasks -> Labels] /\ pc[t] = "resume"
        /\ \A x \in Tasks : /\ f[x].op = loc[x].op /\ f[x].queue = loc[x].queue
                            /\ f[x].wait = loc[x].wait /\ f[x].timed = loc[x].timed
    BY <1>9, LatelyFields DEF xTaskResumeAll, Typed, CallsTyped
  <2>3. \/ pc' = [pc EXCEPT ![t] = "run"] /\ loc' = [f EXCEPT ![t] = NoLocals]
        \/ pc' = [pc EXCEPT ![t] = "try"] /\ loc' = f
    BY <2>1 DEF Goto
  <2> HIDE DEF f
  <2>4. ASSUME NEW x \in Tasks PROVE CalledAt(x)'
    <3>1. CalledAt(x) /\ CalledAt(t) /\ pc[t] = "resume"
      BY <2>2 DEF Called
    <3>2. CASE x = t
      <4>1. pc'[t] = "run" \/ (pc'[t] = "try" /\ loc'[t] = f[t])
        BY <2>2, <2>3
      <4> QED
        BY <2>2, <3>1, <3>2, <4>1 DEF CalledAt
    <3>3. CASE x # t
      <4>1. pc'[x] = pc[x] /\ loc'[x] = f[x]
        BY <2>2, <2>3, <3>3
      <4>2. /\ loc'[x].op = loc[x].op /\ loc'[x].queue = loc[x].queue
            /\ loc'[x].wait = loc[x].wait /\ loc'[x].timed = loc[x].timed
        BY <2>2, <4>1
      <4> QED
        BY <3>1, <4>1, <4>2 DEF CalledAt, WaitsForMutex
    <3> QED
      BY <3>2, <3>3
  <2> QED
    BY <2>4 DEF Called
<1>10. CASE AltExpired(t)
  BY <1>10, CalledReturns DEF AltExpired
<1>11. CASE AltBlock(t)
  BY <1>11, CalledGoto DEF AltBlock
<1> QED
  BY <1>1, <1>2, <1>3, <1>4, <1>5, <1>6, <1>7, <1>8, <1>9, <1>10, <1>11
     DEF WaitStep, AltStep

LEMMA CalledKept ==
  ASSUME Typed, Called, Next
  PROVE  Called'
<1>1. ASSUME NEW t \in Tasks, TakeCounted(t) PROVE Called'
  BY <1>1, CalledReturns DEF TakeCounted
<1>2. ASSUME NEW t \in Tasks, OtherStep(t) PROVE Called'
  BY <1>2, CalledStays DEF OtherStep, vTaskPrioritySet, vTaskSuspend, vTaskResume,
                           vTaskDelete
<1>3. ASSUME IdleStep PROVE Called'
  BY <1>3, CalledStays, CalledLately DEF IdleStep, CheckTermination,
     CheckedTermination, prvDeleteTCB
<1>4. ASSUME IsrStep PROVE Called'
  BY <1>4, CalledStays DEF IsrStep, xTaskResumeFromISR, xQueueGenericSendFromISR,
                           xQueueReceiveFromISR
<1>5. ASSUME vTaskSwitchContext PROVE Called'
  BY <1>5, CalledStays DEF vTaskSwitchContext
<1> QED
  BY <1>1, <1>2, <1>3, <1>4, <1>5, CalledCall, CalledTry, CalledWait, NextCases

-----------------------------------------------------------------------------
(* Locking.                                                                 *)

(* No queue is locked while the scheduler runs.                             *)
LEMMA Unlocks ==
  ASSUME Typed, Locking
  PROVE  /\ suspendAll = 0 \/ suspendAll = 1
         /\ suspendAll = 0 => \A q \in Queues : /\ queue[q].rxLock = Unlocked
                                                /\ queue[q].txLock = Unlocked
BY DEF Typed, CoreTyped, Locking

(* Where a task that takes a step is.                                       *)
LEMMA InCall ==
  ASSUME Typed, Locking, NEW t \in Tasks, running = t
  PROVE  /\ pc[t] \in Sections => suspendAll = 1 /\ idle # "resume"
         /\ pc[t] \notin Sections => suspendAll = 0 /\ idle # "resume"
         /\ \A x \in Tasks \ {t} : pc[x] \notin Sections
BY Unlocks, ConstantsTyped DEF Locking

NoNewLock ==
  \A q \in Queues :
    /\ queue'[q].rxLock # Unlocked => queue[q].rxLock # Unlocked
    /\ queue'[q].txLock # Unlocked => queue[q].txLock # Unlocked

LEMMA LockingStays ==
  ASSUME Typed, Locking, UNCHANGED <<pc, suspendAll, running>>,
         idle' = "resume" <=> idle = "resume",
         \A x \in Tasks : loc'[x].queue = loc[x].queue, NoNewLock
  PROVE  Locking'
BY DEF Locking, NoNewLock, Typed, CoreTyped

LEMMA LockingOutside ==
  ASSUME Typed, Locking, NEW t \in Tasks, running = t, pc[t] \notin Sections,
         NEW l, l \notin Sections, Goes(t, l),
         UNCHANGED <<suspendAll, running, idle>>, NoNewLock
  PROVE  Locking'
BY InCall, Unlocks DEF Locking, NoNewLock, Goes

LEMMA LockingInside ==
  ASSUME Typed, Locking, NEW t \in Tasks, running = t, pc[t] \in Sections,
         NEW l \in Sections, Goes(t, l), loc'[t].queue = loc[t].queue,
         UNCHANGED <<suspendAll, running, idle>>,
         \A q \in Queues :
           /\ queue'[q].rxLock # Unlocked =>
                q = loc[t].queue /\ l \notin {"lock", "resume"}
           /\ queue'[q].txLock # Unlocked =>
                q = loc[t].queue /\ l \notin {"lock", "unlockRx", "resume"}
  PROVE  Locking'
BY InCall, Unlocks, ConstantsTyped DEF Locking, Goes

(* Where a task goes that is not waiting: to no section.                    *)
LEMMA TaskGoes ==
  ASSUME Typed, NEW t \in Tasks,
         CallStep(t) \/ TakeCounted(t) \/ TryStep(t) \/ AltStep(t)
  PROVE  (UNCHANGED <<pc, loc>>) \/ \E l \in Labels : l \notin Sections /\ Goes(t, l)
<1>1. {"try", "run", "count", "suspend", "wait"} \subseteq Labels \ Sections
  BY DEF Labels, Sections
<1>2. ASSUME Return(t) PROVE \E l \in Labels : l \notin Sections /\ Goes(t, l)
  BY <1>1, <1>2, ReturnGoes
<1>3. CASE CallStep(t)
  <2>1. PICK op \in Operations, q \in Queues, w \in Waits :
               \/ Call(t, op, q, w)
               \/ op = "take" /\ TakeRecursive(t, q, w)
               \/ op = "give" /\ GiveRecursive(t, q)
    BY <1>3 DEF CallStep
  <2>2. \/ UNCHANGED <<pc, loc>>
        \/ \E x \in Items, v \in Waits : Begin(t, op, q, x, v)
    BY <2>1, ConstantsTyped DEF Call, TakeRecursive, GiveRecursive, Waits
  <2>3. ASSUME NEW x \in Items, NEW v \in Waits, Begin(t, op, q, x, v)
        PROVE  Goes(t, "try")
    BY <2>1, <2>3, BeginGoes
  <2> QED
    BY <1>1, <2>2, <2>3
<1>4. CASE TryReceive(t)
  BY <1>1, <1>2, <1>4, GotoGoes DEF TryReceive
<1>5. CASE TryLater(t) /\ loc[t].wait # "none"
  <2>1. PICK l \in {"wait", "suspend"} :
               Goto(t, l) /\ loc' = [loc EXCEPT ![t].timed = TRUE]
    BY <1>5 DEF TryLater
  <2> QED
    BY <1>1, <2>1, TimedGoes
<1>6. CASE AltBlock(t)
  BY <1>1, <1>6, GotoGoes DEF AltBlock
<1>7. CASE \/ TakeCounted(t) \/ TrySend(t) \/ TryPeek(t) \/ AltExpired(t)
           \/ TryLater(t) /\ loc[t].wait = "none"
  BY <1>2, <1>7 DEF TakeCounted, TrySend, TryPeek, AltExpired, TryLater
<1> QED
  BY <1>3, <1>4, <1>5, <1>6, <1>7 DEF TryStep, AltStep

LEMMA LockingTry ==
  ASSUME Typed, Called, Locking, NEW t \in Tasks,
         CallStep(t) \/ TakeCounted(t) \/ TryStep(t) \/ AltStep(t)
  PROVE  Locking'
<1> USE DEF At, core, sched
<1> DEFINE Frame == UNCHANGED <<suspendAll, running, idle>>
<1>1. Frame /\ running = t /\ pc[t] \notin Sections
  BY DEF CallStep, Call, TakeRecursive, GiveRecursive, TakeCounted, TryStep,
     TrySend, TryReceive, TryPeek, TryLater, AltStep, AltExpired, AltBlock, Sections
<1>2. NoNewLock
  <2>1. CASE UNCHANGED queue
    BY <2>1 DEF NoNewLock
  <2>2. ASSUME NEW q \in Queues, NEW n,
               queue' = [queue EXCEPT ![q].calls = n]
        PROVE  NoNewLock
    <3>1. queue \in [Queues -> QueueRecords]
      BY DEF Typed, QueuesTyped
    <3> QED
      BY <2>2, <3>1 DEF NoNewLock, QueueRecords
  <2>3. CASE TrySend(t)
    BY <2>3, TrySendQueue, LocalsOf DEF Becomes, NoNewLock
  <2>4. CASE TryReceive(t)
    BY <2>4, TryReceiveQueue, LocalsOf DEF Becomes, NoNewLock
  <2>5. CASE CallStep(t)
    <3>1. ASSUME NEW q \in Queues, NEW w, TakeRecursive(t, q, w) PROVE NoNewLock
      BY <2>1, <2>2, <3>1 DEF TakeRecursive
    <3>2. ASSUME NEW q \in Queues, GiveRecursive(t, q) PROVE NoNewLock
      BY <2>2, <3>2 DEF GiveRecursive
    <3> QED
      BY <2>1, <2>5, <3>1, <3>2 DEF CallStep, Call
  <2>6. CASE TakeCounted(t)
    BY <2>2, <2>6, LocalsOf DEF TakeCounted
  <2>7. CASE TryPeek(t) \/ TryLater(t) \/ AltStep(t)
    BY <2>1, <2>7 DEF TryPeek, TryLater, AltStep, AltExpired, AltBlock
  <2> QED
    BY <2>3, <2>4, <2>5, <2>6, <2>7 DEF TryStep
<1>3. (UNCHANGED <<pc, loc>>) \/ \E l \in Labels : l \notin Sections /\ Goes(t, l)
  BY TaskGoes
<1>4. CASE UNCHANGED <<pc, loc>>
  BY <1>1, <1>2, <1>4, LockingStays
<1>5. ASSUME NEW l \in Labels, l \notin Sections, Goes(t, l) PROVE Locking'
  BY <1>1, <1>2, <1>5, LockingOutside
<1> QED
  BY <1>3, <1>4, <1>5

LEMMA WaitGoes ==
  ASSUME Typed, NEW t \in Tasks, WaitStep(t), ~xTaskResumeAll(t)
  PROVE  \E l \in Labels : Goes(t, l)
<1>1. Sections \subseteq Labels
  BY DEF Labels
<1>2. ASSUME NEW l \in Sections, Goto(t, l), UNCHANGED loc PROVE \E k \in Labels : Goes(t, k)
  BY <1>1, <1>2, GotoGoes
<1>3. ASSUME NEW then \in {"fail", "retry", "block"}, NEW late \in BOOLEAN,
             Leave(t, then, late)
      PROVE  \E k \in Labels : Goes(t, k)
  BY <1>3, LeaveGoes DEF Labels, Sections
<1> QED
  BY <1>2, <1>3 DEF WaitStep, vTaskSuspendAll, prvLockQueue, xTaskCheckForTimeOut,
     TestQueue, vTaskPriorityInherit, vTaskPlaceOnEventList, UnlockTx, UnlockRx,
     Replay, Sections

LEMMA LockingWait ==
  ASSUME Typed, Locking, NEW t \in Tasks, WaitStep(t)
  PROVE  Locking'
<1> USE DEF At, core, sched
<1>1. running = t /\ loc[t].queue \in Queues
  BY LocalsOf DEF WaitStep, vTaskSuspendAll, prvLockQueue, xTaskCheckForTimeOut,
     TestQueue, vTaskPriorityInherit, vTaskPlaceOnEventList, UnlockTx, UnlockRx,
     xTaskResumeAll
<1>2. \A q \in Queues :
        /\ queue[q].rxLock # Unlocked =>
             q = loc[t].queue /\ pc[t] \in Sections \ {"lock", "resume"}
        /\ queue[q].txLock # Unlocked =>
             q = loc[t].queue /\ pc[t] \in Sections \ {"lock", "unlockRx", "resume"}
  BY <1>1 DEF Locking
(* With the queue locked, on to the next label.                             *)
<1>3. ASSUME UNCHANGED <<queue, suspendAll, running, idle>>,
             pc[t] \in {"check", "test", "inherit", "place"},
             NEW l \in {"test", "inherit", "place", "unlockTx"}, Goes(t, l),
             loc'[t].queue = loc[t].queue
      PROVE  Locking'
  BY <1>1, <1>2, <1>3, LockingInside DEF Sections
<1>4. ASSUME NEW l \in Labels, Goto(t, l), UNCHANGED loc
      PROVE  Goes(t, l) /\ loc'[t].queue = loc[t].queue
  BY <1>4, GotoGoes
<1>5. ASSUME NEW then \in {"fail", "retry", "block"}, NEW late \in BOOLEAN,
             Leave(t, then, late)
      PROVE  Goes(t, "unlockTx") /\ loc'[t].queue = loc[t].queue
  BY <1>5, LeaveGoes DEF SameCall
<1>6. CASE vTaskSuspendAll(t)
  <2>1. Goes(t, "lock") /\ pc[t] = "suspend" /\ loc' = loc
    BY <1>6, GotoGoes DEF vTaskSuspendAll, Labels, Sections
  <2>2. suspendAll = 0 /\ idle # "resume" /\ \A x \in Tasks \ {t} : pc[x] \notin Sections
    BY <1>1, <2>1, InCall DEF Sections
  <2>3. suspendAll' = 1 /\ UNCHANGED <<queue, running, idle>>
    BY <1>6, <2>2 DEF vTaskSuspendAll
  <2> QED
    BY <1>1, <2>1, <2>2, <2>3, Unlocks, ConstantsTyped DEF Locking, Goes, Sections
<1>7. CASE prvLockQueue(t)
  <2>1. Goes(t, "check") /\ loc'[t].queue = loc[t].queue
    BY <1>4, <1>7 DEF prvLockQueue, Labels, Sections
  <2>2. /\ pc[t] \in Sections /\ pc[t] = "lock" /\ "check" \in Sections
        /\ UNCHANGED <<suspendAll, running, idle>>
    BY <1>7 DEF prvLockQueue, Sections
  <2>3. \A q \in Queues \ {loc[t].queue} : queue'[q] = queue[q]
    BY <1>7, LockQueue DEF Becomes
  <2>4. \A q \in Queues : queue[q].rxLock = Unlocked /\ queue[q].txLock = Unlocked
    BY <1>2, <2>2
  <2> QED
    BY <1>1, <2>1, <2>2, <2>3, <2>4, LockingInside
<1>8. CASE xTaskCheckForTimeOut(t)
  BY <1>3, <1>4, <1>5, <1>8 DEF xTaskCheckForTimeOut, Labels, Sections
<1>9. CASE TestQueue(t)
  BY <1>3, <1>4, <1>5, <1>9 DEF TestQueue, Labels, Sections
<1>10. CASE vTaskPriorityInherit(t)
  BY <1>3, <1>4, <1>10 DEF vTaskPriorityInherit, Labels, Sections
<1>11. CASE vTaskPlaceOnEventList(t)
  BY <1>3, <1>5, <1>11 DEF vTaskPlaceOnEventList
<1>12. CASE UnlockTx(t)
  <2>1. Goes(t, "unlockRx") /\ loc'[t].queue = loc[t].queue
    BY <1>4, <1>12 DEF UnlockTx, Replay, Labels, Sections
  <2>2. /\ pc[t] \in Sections /\ pc[t] = "unlockTx" /\ "unlockRx" \in Sections
        /\ UNCHANGED <<suspendAll, running, idle>>
    BY <1>12 DEF UnlockTx, Replay, Sections
  <2>3. /\ \A q \in Queues \ {loc[t].queue} : queue'[q] = queue[q]
        /\ queue'[loc[t].queue].txLock = Unlocked
    BY <1>12, UnlockTxQueue DEF Becomes
  <2> QED
    BY <1>1, <1>2, <2>1, <2>2, <2>3, LockingInside
<1>13. CASE UnlockRx(t)
  <2>1. Goes(t, "resume") /\ loc'[t].queue = loc[t].queue
    BY <1>4, <1>13 DEF UnlockRx, Replay, Labels, Sections
  <2>2. /\ pc[t] \in Sections /\ pc[t] = "unlockRx" /\ "resume" \in Sections
        /\ UNCHANGED <<suspendAll, running, idle>>
    BY <1>13 DEF UnlockRx, Replay, Sections
  <2>3. /\ \A q \in Queues \ {loc[t].queue} : queue'[q] = queue[q]
        /\ queue'[loc[t].queue].rxLock = Unlocked
        /\ queue'[loc[t].queue].txLock = queue[loc[t].queue].txLock
    BY <1>13, UnlockRxQueue DEF Becomes
  <2> QED
    BY <1>1, <1>2, <2>1, <2>2, <2>3, LockingInside
<1>14. CASE xTaskResumeAll(t)
  <2>1. pc[t] = "resume" /\ pc[t] \in Sections /\ UNCHANGED <<queue, running, idle>>
    BY <1>14 DEF xTaskResumeAll, Sections
  <2>2. /\ suspendAll = 1 /\ idle # "resume"
        /\ \A x \in Tasks \ {t} : pc[x] \notin Sections
    BY <1>1, <2>1, InCall
  <2>3. suspendAll' = 0
    BY <1>14, <2>2 DEF xTaskResumeAll, ResumeAll
  <2>4. Goto(t, "run") \/ Goto(t, "try")
    BY <1>14 DEF xTaskResumeAll
  <2>5. \A x \in Tasks : pc'[x] \notin Sections
    BY <2>2, <2>4 DEF Goto, Typed, CallsTyped, Sections
  <2> QED
    BY <1>2, <2>1, <2>2, <2>3, <2>5 DEF Locking
<1> QED
  BY <1>6, <1>7, <1>8, <1>9, <1>10, <1>11, <1>12, <1>13, <1>14 DEF WaitStep

LEMMA LockingKept ==
  ASSUME Typed, Called, Locking, Next
  PROVE  Locking'
<1> USE DEF core, sched
<1>1. ASSUME UNCHANGED <<queue, pc, loc, suspendAll, running>>,
             idle' = "resume" <=> idle = "resume"
      PROVE  Locking'
  BY <1>1, LockingStays DEF NoNewLock
<1>2. ASSUME NEW t \in Tasks, OtherStep(t) PROVE Locking'
  BY <1>1, <1>2 DEF OtherStep, vTaskPrioritySet, vTaskSuspend, vTaskResume, vTaskDelete
<1>3. CASE CheckTermination
  <2>1. /\ suspendAll' = suspendAll + 1 /\ idle' = "resume" /\ running = NoTask
        /\ idle = "check" /\ UNCHANGED <<queue, pc, loc, running>>
    BY <1>3 DEF CheckTermination, IdleAt
  <2>2. suspendAll = 0
    BY <2>1, Unlocks DEF Locking
  <2> QED
    BY <2>1, <2>2 DEF Locking
<1>4. CASE CheckedTermination
  <2>1. /\ suspendAll' = suspendAll - 1 /\ idle' = "free" /\ running = NoTask
        /\ idle = "resume" /\ UNCHANGED <<queue, pc, running>>
    BY <1>4 DEF CheckedTermination, IdleAt, ResumeAll
  <2>2. suspendAll = 1 /\ \A x \in Tasks : pc[x] \notin Sections
    BY <2>1, Unlocks, ConstantsTyped DEF Locking
  <2>3. \A q \in Queues : queue[q].rxLock = Unlocked /\ queue[q].txLock = Unlocked
    BY <2>1 DEF Locking
  <2> QED
    BY <2>1, <2>2, <2>3 DEF Locking
<1>5. CASE prvDeleteTCB
  BY <1>1, <1>5 DEF prvDeleteTCB, IdleAt
<1>6. CASE IsrStep
  <2>1. UNCHANGED <<pc, loc, suspendAll, running, idle>>
    BY <1>6 DEF IsrStep, xTaskResumeFromISR, xQueueGenericSendFromISR,
       xQueueReceiveFromISR
  <2>2. NoNewLock
    <3>1. ASSUME NEW x, xTaskResumeFromISR(x) PROVE NoNewLock
      BY <3>1 DEF xTaskResumeFromISR, NoNewLock
    <3>2. ASSUME NEW q \in Queues, NEW x \in Items, NEW op,
                 xQueueGenericSendFromISR(q, x, op)
          PROVE  NoNewLock
      BY <3>2, SendFromISRQueue DEF Becomes, NoNewLock, Counted
    <3>3. ASSUME NEW q \in Queues, xQueueReceiveFromISR(q) PROVE NoNewLock
      BY <3>3, ReceiveFromISRQueue DEF Becomes, NoNewLock, Counted
    <3> QED
      BY <1>6, <3>1, <3>2, <3>3 DEF IsrStep
  <2> QED
    BY <2>1, <2>2, LockingStays
<1>7. CASE vTaskSwitchContext
  <2>1. UNCHANGED <<queue, pc, loc, suspendAll, idle>>
    BY <1>7 DEF vTaskSwitchContext
  <2>2. CASE suspendAll # 0
    BY <1>1, <1>7, <2>1, <2>2 DEF vTaskSwitchContext
  <2>3. CASE suspendAll = 0
    BY <2>1, <2>3, Unlocks DEF Locking
  <2> QED
    BY <2>2, <2>3
<1> QED
  BY <1>2, <1>3, <1>4, <1>5, <1>6, <1>7, LockingTry, LockingWait, NextCases DEF IdleStep

-----------------------------------------------------------------------------
(* Placing.                                                                 *)

PlacedRight == ListsTyped' /\ home' \in [Tasks -> Places] /\ Placing'

LEMMA RunsReady ==
  ASSUME Typed, Placing, NEW t \in Tasks, running = t, ~yield, ~Blocking(t)
  PROVE  /\ home[t] >= 0 /\ home[t] \notin Waiting
         /\ ~OnAList(t) /\ t \notin ToSet(pendingReady)
<1>1. home[t] >= 0
  BY ConstantsTyped DEF Placing
<1>2. home[t] \notin Waiting
  BY <1>1 DEF Waiting, Delayed, Suspended
<1> QED
  BY <1>1, <1>2 DEF Placing, OnAList

LEMMA WokenTyped ==
  ASSUME Typed, NEW off, NEW hm \in [Tasks -> Places],
         NEW pr \in [Tasks -> Levels], Woken(off, hm, pr)
  PROVE  ListsTyped' /\ home' \in [Tasks -> Places]
<1>1. ListsTyped'
  BY DEF Woken, LeftLists, ListsTyped
<1>2. Levels \subseteq Places
  BY DEF Places
<1>3. home' \in [Tasks -> Places]
  BY <1>2 DEF Woken
<1> QED
  BY <1>1, <1>3

(* A place for the ready tasks that hm has, and no other tasks.             *)
ReadyMoves(hm) ==
  \A x \in Tasks : /\ home[x] \in Waiting \/ hm[x] \in Waiting => hm[x] = home[x]
                   /\ home[x] >= 0 => hm[x] >= 0

LEMMA NobodyWoken ==
  ASSUME Typed, Placing, NEW hm \in [Tasks -> Places], home' = hm,
         UNCHANGED <<blocked, pendingReady>>
  PROVE  Woken({}, hm, priority)
<1>1. LeftLists({})
  BY NobodyLeaves
<1>2. pendingReady' \in Seq(Tasks) /\ IsInjective(pendingReady')
  BY DEF Typed, ListsTyped, Placing
<1>3. home' = [x \in Tasks |-> IF x \in {} THEN priority[x] ELSE hm[x]]
  OBVIOUS
<1> QED
  BY <1>1, <1>2, <1>3 DEF Woken

(* A step of the task that runs, which is on no event list.                 *)
LEMMA TaskWakes ==
  ASSUME Typed, Placing, NEW t \in Tasks, running = t, ~yield, ~Blocking(t),
         (UNCHANGED <<pc, loc>>) \/ \E l \in Labels : Goes(t, l),
         NEW off \in SUBSET Tasks, \A x \in off : OnAList(x),
         NEW hm \in [Tasks -> Places], ReadyMoves(hm),
         NEW pr \in [Tasks -> Levels], Woken(off, hm, pr),
         UNCHANGED running, suspendAll' = 0 => suspendAll = 0
  PROVE  PlacedRight
<1>1. home[t] >= 0 /\ ~OnAList(t)
  BY RunsReady
<1>2. ASSUME NEW q \in Queues, NEW s \in Sides, NEW x \in ToSet(blocked[q][s])
      PROVE  Entered(x, q, s)'
  <2>1. blocked[q][s] \in Seq(Tasks)
    BY DEF Typed, ListsTyped
  <2>2. x \in Tasks \ {t}
    BY <1>1, <2>1, EntriesOf DEF OnAList
  <2>3. pc'[x] = pc[x] /\ loc'[x] = loc[x]
    BY <2>2 DEF Goes
  <2>4. Entered(x, q, s)
    BY DEF Placing
  <2> QED
    BY <2>3, <2>4 DEF Entered, Blocking
<1>3. Placing'
  BY <1>1, <1>2, PlacingMoves DEF ReadyMoves
<1> QED
  BY <1>3, WokenTyped DEF PlacedRight

(* Nobody is woken, and home stays but for the ready tasks.                 *)
LEMMA TaskWakesNobody ==
  ASSUME Typed, Placing, NEW t \in Tasks, running = t, ~yield, ~Blocking(t),
         (UNCHANGED <<pc, loc>>) \/ \E l \in Labels : Goes(t, l),
         home' \in [Tasks -> Places], ReadyMoves(home'),
         UNCHANGED <<blocked, pendingReady, running>>, suspendAll' = 0 => suspendAll = 0
  PROVE  PlacedRight
<1> DEFINE hm == home'
<1>1. hm \in [Tasks -> Places] /\ ReadyMoves(hm) /\ home' = hm
  OBVIOUS
<1> HIDE DEF hm
<1>2. Woken({}, hm, priority)
  BY <1>1, NobodyWoken
<1>3. priority \in [Tasks -> Levels] /\ {} \in SUBSET Tasks /\ \A x \in {} : OnAList(x)
  BY DEF Typed, PriosTyped
<1> QED
  BY <1>1, <1>2, <1>3, TaskWakes

LEMMA TaskQuiet ==
  ASSUME Typed, Placing, NEW t \in Tasks, running = t, ~yield, ~Blocking(t),
         (UNCHANGED <<pc, loc>>) \/ \E l \in Labels : Goes(t, l),
         UNCHANGED <<blocked, home, pendingReady, running>>,
         suspendAll' = 0 => suspendAll = 0
  PROVE  PlacedRight
<1>1. home' \in [Tasks -> Places] /\ ReadyMoves(home')
  BY DEF Typed, ReadyMoves
<1> QED
  BY <1>1, TaskWakesNobody

(* A wake by a step of the task that runs.                                  *)
LEMMA TaskWakesFirst ==
  ASSUME Typed, Placing, NEW t \in Tasks, running = t, ~yield, ~Blocking(t),
         (UNCHANGED <<pc, loc>>) \/ \E l \in Labels : Goes(t, l),
         NEW q \in Queues, NEW s \in Sides,
         NEW hm \in [Tasks -> Places], ReadyMoves(hm),
         NEW pr \in [Tasks -> Levels], WakeFirst(q, s, hm, pr),
         UNCHANGED <<running, suspendAll>>
  PROVE  PlacedRight
<1>1. PICK off \in SUBSET Tasks : off \subseteq ToSet(blocked[q][s]) /\ Woken(off, hm, pr)
  BY WakeEffect
<1>2. \A x \in off : OnAList(x)
  BY <1>1 DEF OnAList
<1> QED
  BY <1>1, <1>2, TaskWakes

(* The priorities stay priorities.                                          *)
LEMMA LevelsTyped ==
  /\ Levels \subseteq Places /\ Levels \subseteq Int
  /\ \A p \in Levels : p >= 0 /\ p \notin Waiting /\ MaxPriorities - p \in Int
BY ConstantsTyped DEF Levels, Places, Waiting, Delayed, Suspended

LEMMA DisinheritTyped ==
  ASSUME Typed, NEW h \in Tasks \cup {NoTask}, vTaskPriorityDisinherit(h)
  PROVE  PriosTyped'
<1>1. PriosTyped
  BY DEF Typed
<1>2. CASE h # NoTask /\ priority[h] # base[h]
  <2>1. h \in Tasks /\ base[h] \in Levels /\ MaxPriorities - base[h] \in Int
    BY <1>1, <1>2, LevelsTyped DEF PriosTyped
  <2> QED
    BY <1>1, <1>2, <2>1 DEF vTaskPriorityDisinherit, PriosTyped
<1>3. CASE ~(h # NoTask /\ priority[h] # base[h])
  BY <1>1, <1>3 DEF vTaskPriorityDisinherit, PriosTyped, prios
<1> QED
  BY <1>2, <1>3

LEMMA InheritTyped ==
  ASSUME Typed, NEW h, NEW t \in Tasks, InheritBy(h, t)
  PROVE  PriosTyped'
<1>1. PriosTyped /\ h \in Tasks
  BY DEF Typed, InheritBy
<1>2. priority[t] \in Levels /\ MaxPriorities - priority[t] \in Int
  BY <1>1, LevelsTyped DEF PriosTyped
<1> QED
  BY <1>1, <1>2 DEF InheritBy, PriosTyped

LEMMA PriosKept ==
  ASSUME Typed, Next
  PROVE  PriosTyped'
<1>1. PriosTyped
  BY DEF Typed
<1>2. ASSUME UNCHANGED prios PROVE PriosTyped'
  BY <1>1, <1>2 DEF prios, PriosTyped
<1>3. ASSUME NEW t \in Tasks, CallStep(t) \/ TakeCounted(t) PROVE PriosTyped'
  BY <1>2, <1>3 DEF CallStep, Call, TakeRecursive, GiveRecursive, TakeCounted
<1>4. ASSUME NEW t \in Tasks, TryStep(t) PROVE PriosTyped'
  <2>1. CASE TrySend(t)
    <3>1. queue[loc[t].queue].holder \in Tasks \cup {NoTask}
      BY LocalsOf DEF RecordOK, QueueRecords
    <3> QED
      BY <2>1, <3>1, DisinheritTyped DEF TrySend
  <2>2. CASE TryReceive(t) \/ TryPeek(t) \/ TryLater(t)
    BY <1>2, <2>2 DEF TryReceive, TryPeek, TryLater
  <2> QED
    BY <1>4, <2>1, <2>2 DEF TryStep
<1>5. ASSUME NEW t \in Tasks, WaitStep(t) PROVE PriosTyped'
  <2>1. CASE vTaskPriorityInherit(t)
    BY <2>1, InheritTyped DEF vTaskPriorityInherit
  <2>2. CASE ~vTaskPriorityInherit(t)
    BY <1>2, <1>5, <2>2 DEF WaitStep, vTaskSuspendAll, prvLockQueue,
       xTaskCheckForTimeOut, TestQueue, vTaskPlaceOnEventList, UnlockTx, UnlockRx,
       Replay, xTaskResumeAll
  <2> QED
    BY <2>1, <2>2
<1>6. ASSUME NEW t \in Tasks, AltStep(t) PROVE PriosTyped'
  BY <1>2, <1>6, InheritTyped DEF AltStep, AltExpired, AltBlock
<1>7. ASSUME NEW t \in Tasks, OtherStep(t) PROVE PriosTyped'
  <2>1. ASSUME NEW x \in Tasks, NEW p \in Levels, vTaskPrioritySet(t, x, p)
        PROVE  PriosTyped'
    <3>1. MaxPriorities - p \in Int
      BY LevelsTyped
    <3> QED
      BY <1>1, <2>1, <3>1 DEF vTaskPrioritySet, PriosTyped
  <2>2. ASSUME NEW x \in Tasks, vTaskSuspend(t, x) \/ vTaskResume(t, x) \/ vTaskDelete(t, x)
        PROVE  PriosTyped'
    BY <1>2, <2>2 DEF vTaskSuspend, vTaskResume, vTaskDelete
  <2> QED
    BY <1>7, <2>1, <2>2 DEF OtherStep
<1>8. ASSUME IdleStep \/ IsrStep \/ vTaskSwitchContext PROVE PriosTyped'
  BY <1>2, <1>8 DEF IdleStep, IsrStep, CheckTermination, CheckedTermination,
     prvDeleteTCB, xTaskResumeFromISR, xQueueGenericSendFromISR,
     xQueueReceiveFromISR, vTaskSwitchContext
<1> QED
  BY <1>3, <1>4, <1>5, <1>6, <1>7, <1>8, NextCases

(* Who gives a mutex back is ready, and is moved to the ready list of its   *)
(* own priority.                                                            *)
LEMMA PlacingTry ==
  ASSUME Typed, Called, Locking, Placing, Holding, NEW t \in Tasks,
         CallStep(t) \/ TakeCounted(t) \/ TryStep(t) \/ AltExpired(t)
  PROVE  PlacedRight
<1> USE DEF At, core, sched
<1>1. running = t /\ ~yield /\ ~Blocking(t) /\ UNCHANGED <<running, suspendAll>>
  BY DEF CallStep, Call, TakeRecursive, GiveRecursive, TakeCounted, TryStep,
     TrySend, TryReceive, TryPeek, TryLater, AltExpired, Blocking
<1>2. (UNCHANGED <<pc, loc>>) \/ \E l \in Labels : Goes(t, l)
  BY TaskGoes DEF AltStep
<1>3. ASSUME UNCHANGED <<blocked, home, pendingReady>> PROVE PlacedRight
  BY <1>1, <1>2, <1>3, TaskQuiet
<1>4. ASSUME NEW q \in Queues, NEW s \in Sides, WakeFirst(q, s, home, priority)
      PROVE  PlacedRight
  <2>1. home \in [Tasks -> Places] /\ ReadyMoves(home) /\ priority \in [Tasks -> Levels]
    BY DEF Typed, PriosTyped, ReadyMoves
  <2> QED
    BY <1>1, <1>2, <1>4, <2>1, TaskWakesFirst
<1>5. loc[t].queue \in Queues /\ "send" \in Sides /\ "receive" \in Sides
  BY LocalsOf DEF Sides
<1>6. CASE TrySend(t)
  <2> DEFINE q == loc[t].queue
             h == queue[q].holder
             hm == IF h # NoTask /\ priority'[h] # priority[h]
                   THEN [home EXCEPT ![h] = priority'[h]] ELSE home
  <2>1. PriosTyped' /\ h \in Tasks \cup {NoTask}
    <3>1. h \in Tasks \cup {NoTask}
      BY LocalsOf DEF RecordOK, QueueRecords
    <3> QED
      BY <1>6, <3>1, DisinheritTyped DEF TrySend
  <2>2. h = NoTask \/ h = t
    <3>1. pc[t] # "run" /\ Sends(loc[t].op)
      BY <1>6 DEF TrySend
    <3> QED
      BY <1>5, <3>1 DEF Holding
  <2>3. WakeFirst(q, "receive", hm, priority')
    BY <1>6 DEF TrySend
  <2>4. home[t] >= 0 /\ home[t] \notin Waiting
    BY <1>1, RunsReady
  <2>5. hm \in [Tasks -> Places] /\ ReadyMoves(hm) /\ priority' \in [Tasks -> Levels]
    <3>1. home \in [Tasks -> Places] /\ priority' \in [Tasks -> Levels]
      BY <2>1 DEF Typed, PriosTyped
    <3>2. hm = home \/ hm = [home EXCEPT ![t] = priority'[t]]
      BY <2>2
    <3>3. /\ priority'[t] \in Places /\ priority'[t] >= 0
          /\ priority'[t] \notin Waiting
      BY <3>1, LevelsTyped
    <3> HIDE DEF hm
    <3>4. hm \in [Tasks -> Places]
      BY <3>1, <3>2, <3>3
    <3>5. ReadyMoves(hm)
      BY <2>4, <3>1, <3>2, <3>3 DEF ReadyMoves
    <3> QED
      BY <3>1, <3>4, <3>5
  <2> HIDE DEF hm, q
  <2> QED
    BY <1>1, <1>2, <1>5, <2>3, <2>5, TaskWakesFirst DEF q
<1>7. CASE TryReceive(t)
  BY <1>4, <1>5, <1>7 DEF TryReceive
<1>8. CASE TryPeek(t)
  BY <1>4, <1>5, <1>8 DEF TryPeek
<1>9. CASE CallStep(t) \/ TakeCounted(t) \/ TryLater(t) \/ AltExpired(t)
  BY <1>3, <1>9 DEF CallStep, Call, TakeRecursive, GiveRecursive, TakeCounted,
     TryLater, AltExpired
<1> QED
  BY <1>6, <1>7, <1>8, <1>9 DEF TryStep

LEMMA InheritMoves ==
  ASSUME Typed, NEW h, NEW t \in Tasks
  PROVE  HomeInherited(h, t) \in [Tasks -> Places] /\ ReadyMoves(HomeInherited(h, t))
<1> DEFINE hm == HomeInherited(h, t)
<1>1. /\ home \in [Tasks -> Places] /\ priority \in [Tasks -> Levels]
  BY DEF Typed, PriosTyped
<1>2. \/ hm = home
      \/ hm = [home EXCEPT ![h] = priority[t]] /\ home[h] = priority[h]
  BY DEF HomeInherited
<1>3. /\ priority[t] \in Places /\ priority[t] >= 0 /\ priority[t] \notin Waiting
      /\ h \in Tasks => priority[h] \notin Waiting
  BY <1>1, LevelsTyped
<1> HIDE DEF hm
<1>4. hm \in [Tasks -> Places]
  BY <1>1, <1>2, <1>3
<1>5. ReadyMoves(hm)
  BY <1>1, <1>2, <1>3 DEF ReadyMoves
<1> QED
  BY <1>4, <1>5 DEF hm

(* The tasks in late are taken off the event lists, and those held pending  *)
(* are readied.                                                             *)
LEMMA PlacingReleased ==
  ASSUME Typed, Placing, NEW late, blocked' = Released(late), pendingReady' = <<>>,
         home' \in [Tasks -> Places],
         \A x \in Tasks \ late : home[x] \in Waiting /\ x \notin ToSet(pendingReady) =>
                                 home'[x] = home[x],
         \A x \in Tasks : home'[x] \in Waiting =>
           \/ x \notin late /\ x \notin ToSet(pendingReady) /\ home'[x] = home[x]
           \/ home'[x] = Suspended /\ \E c \in Suspends : c[2] = x,
         \A q \in Queues, s \in Sides : \A x \in ToSet(blocked[q][s]) \ late :
            Entered(x, q, s)',
         running' # NoTask /\ (suspendAll' = 0 => ~yield') /\ ~Blocking(running)' =>
            home'[running'] >= 0
  PROVE  PlacedRight
<1>1. LeftLists(late)
  BY ReleaseEffect
<1>2. ToSet(<<>>) = {} /\ <<>> \in Seq(Tasks) /\ IsInjective(<<>>)
  BY DEF ToSet, IsInjective
<1>3. ListsTyped'
  BY <1>1, <1>2 DEF LeftLists, ListsTyped
<1>4. ASSUME NEW q \in Queues, NEW s \in Sides
      PROVE  /\ IsInjective(blocked'[q][s])
             /\ ToSet(blocked'[q][s]) = ToSet(blocked[q][s]) \ late
             /\ ToSet(blocked[q][s]) \subseteq Tasks
  <2>1. blocked[q][s] \in Seq(Tasks)
    BY DEF Typed, ListsTyped
  <2> QED
    BY <1>1, <2>1, EntriesOf DEF LeftLists
<1>5. ASSUME NEW q \in Queues, NEW s \in Sides, NEW x \in ToSet(blocked'[q][s])
      PROVE  Entered(x, q, s)' /\ home'[x] \in Waiting /\ x \notin ToSet(pendingReady')
  <2>1. x \in ToSet(blocked[q][s]) \ late /\ x \in Tasks
    BY <1>4
  <2>2. home[x] \in Waiting /\ x \notin ToSet(pendingReady)
    BY <2>1 DEF Placing
  <2> QED
    BY <1>2, <2>1, <2>2
<1>6. ASSUME NEW x \in Tasks, home'[x] \in Waiting
      PROVE  \/ OnAList(x)' \/ x \in ToSet(pendingReady')
             \/ home'[x] = Suspended /\ \E c \in Suspends : c[2] = x
  <2>1. CASE x \notin late /\ x \notin ToSet(pendingReady) /\ home'[x] = home[x]
    <3>1. OnAList(x) \/ (home[x] = Suspended /\ \E c \in Suspends : c[2] = x)
      BY <1>6, <2>1 DEF Placing
    <3>2. OnAList(x) => OnAList(x)'
      BY <1>4, <2>1 DEF OnAList
    <3> QED
      BY <2>1, <3>1, <3>2
  <2> QED
    BY <1>6, <2>1
<1>7. Placing'
  BY <1>2, <1>4, <1>5, <1>6 DEF Placing
<1> QED
  BY <1>3, <1>7 DEF PlacedRight

(* Task t, which is ready, places itself on the event list it waits on.     *)
LEMMA PlacingPlaced ==
  ASSUME Typed, Placing, NEW t \in Tasks, ~OnAList(t), t \notin ToSet(pendingReady),
         Placed(t), NEW hm \in [Tasks -> Places], ReadyMoves(hm),
         home' = [hm EXCEPT ![t] = Away(t)], NEW l, Goes(t, l),
         SameCall(t), loc'[t].timed, l = "try" \/ Blocking(t)',
         UNCHANGED <<pendingReady, running>>, running = t,
         suspendAll' = 0 => suspendAll = 0 /\ yield',
         Blocking(t)' \/ suspendAll' = 0
  PROVE  PlacedRight
<1> DEFINE q == loc[t].queue
           s == Side(loc[t].op)
<1>1. /\ q \in Queues /\ s \in Sides
      /\ blocked' \in [Queues -> [Sides -> Seq(Tasks)]]
      /\ \A p \in Queues, e \in Sides :
           /\ IsInjective(blocked'[p][e])
           /\ p = q /\ e = s => ToSet(blocked'[p][e]) = ToSet(blocked[p][e]) \cup {t}
           /\ p # q \/ e # s => blocked'[p][e] = blocked[p][e]
  BY PlaceEffect
<1>2. Away(t) \in Waiting /\ Away(t) \in Places
  BY DEF Away, Waiting, Places
<1>3. /\ home' \in [Tasks -> Places] /\ home'[t] = Away(t)
      /\ \A x \in Tasks \ {t} : home'[x] = hm[x]
  BY <1>2
<1>4. ListsTyped'
  BY <1>1 DEF Typed, ListsTyped
<1> HIDE DEF q, s
<1>5. ASSUME NEW p \in Queues, NEW e \in Sides, NEW x \in ToSet(blocked'[p][e])
      PROVE  Entered(x, p, e)' /\ home'[x] \in Waiting /\ x \notin ToSet(pendingReady')
  <2>1. CASE x = t
    <3>1. p = q /\ e = s
      BY <1>1, <2>1 DEF OnAList
    <3>2. Entered(t, p, e)'
      BY <3>1 DEF Entered, Goes, SameCall, q, s
    <3> QED
      BY <1>2, <1>3, <2>1, <3>2
  <2>2. CASE x # t
    <3>1. x \in ToSet(blocked[p][e])
      <4>1. CASE p = q /\ e = s
        <5>1. ToSet(blocked'[p][e]) = ToSet(blocked[p][e]) \cup {t}
          BY <1>1, <4>1
        <5> QED
          BY <2>2, <5>1
      <4>2. CASE p # q \/ e # s
        BY <1>1, <4>2
      <4> QED
        BY <4>1, <4>2
    <3>0. blocked[p][e] \in Seq(Tasks)
      BY DEF Typed, ListsTyped
    <3>2. x \in Tasks \ {t}
      BY <2>2, <3>0, <3>1, EntriesOf
    <3>3. pc'[x] = pc[x] /\ loc'[x] = loc[x]
      BY <3>2 DEF Goes
    <3>4. Entered(x, p, e) /\ home[x] \in Waiting /\ x \notin ToSet(pendingReady)
      BY <3>1 DEF Placing
    <3>5. home'[x] = home[x]
      BY <1>3, <3>2, <3>4 DEF ReadyMoves
    <3> QED
      BY <3>3, <3>4, <3>5 DEF Entered, Blocking
  <2> QED
    BY <2>1, <2>2
<1>6. ASSUME NEW x \in ToSet(pendingReady) PROVE home'[x] \in Waiting
  <2>1. x \in Tasks \ {t} /\ home[x] \in Waiting
    BY EntriesOf DEF Typed, ListsTyped, Placing
  <2> QED
    BY <1>3, <2>1 DEF ReadyMoves
<1>7. ASSUME NEW x \in Tasks, home'[x] \in Waiting
      PROVE  \/ OnAList(x)' \/ x \in ToSet(pendingReady')
             \/ home'[x] = Suspended /\ \E c \in Suspends : c[2] = x
  <2>1. CASE x = t
    BY <1>1, <2>1 DEF OnAList
  <2>2. CASE x # t
    <3>1. home[x] \in Waiting /\ home'[x] = home[x]
      BY <1>3, <1>7, <2>2 DEF ReadyMoves
    <3>2. \A p \in Queues, e \in Sides : ToSet(blocked[p][e]) \subseteq ToSet(blocked'[p][e])
      <4> TAKE p \in Queues, e \in Sides
      <4>1. CASE p = q /\ e = s
        BY <1>1, <4>1
      <4>2. CASE p # q \/ e # s
        BY <1>1, <4>2
      <4> QED
        BY <4>1, <4>2
    <3>3. OnAList(x) => OnAList(x)'
      BY <3>2 DEF OnAList
    <3> QED
      BY <3>1, <3>3 DEF Placing
  <2> QED
    BY <2>1, <2>2
<1>8. Placing'
  BY <1>1, <1>5, <1>6, <1>7 DEF Placing
<1> QED
  BY <1>3, <1>4, <1>8 DEF PlacedRight

(* Where the other tasks are stays as it is, and so does what they wait for. *)
LEMMA EnteredStays ==
  ASSUME Typed, Placing, NEW t \in Tasks, NEW l, Goes(t, l), NEW q \in Queues,
         NEW s \in Sides, NEW x \in ToSet(blocked[q][s]),
         x = t => Entered(t, q, s)'
  PROVE  Entered(x, q, s)'
<1>1. blocked[q][s] \in Seq(Tasks) /\ Entered(x, q, s)
  BY DEF Typed, ListsTyped, Placing
<1>2. x \in Tasks
  BY <1>1, EntriesOf
<1>3. x # t => pc'[x] = pc[x] /\ loc'[x] = loc[x]
  BY <1>2 DEF Goes
<1> QED
  BY <1>1, <1>3 DEF Entered, Blocking

LEMMA PlacingReplay ==
  ASSUME Typed, Placing, NEW t \in Tasks, running = t, ~yield, suspendAll = 1,
         pc[t] \in {"unlockTx", "unlockRx"}, NEW count \in Int, NEW s \in Sides,
         Replay(t, count, s), Goto(t, IF pc[t] = "unlockTx" THEN "unlockRx" ELSE "resume")
  PROVE  PlacedRight
<1> DEFINE l == IF pc[t] = "unlockTx" THEN "unlockRx" ELSE "resume"
<1>1. l \in Labels /\ l \in {"unlockRx", "resume"}
  BY DEF Labels, Sections
<1>2. UNCHANGED <<loc, suspendAll, running, yield>>
  BY DEF Replay, core
<1>3. Goto(t, l)
  OBVIOUS
<1> HIDE DEF l
<1>4. Goes(t, l) /\ loc'[t] = loc[t]
  BY <1>1, <1>2, <1>3, GotoGoes
<1>5. PICK off \in SUBSET Tasks :
        off \subseteq ToSet(blocked[loc[t].queue][s]) /\ Woken(off, home, priority)
  BY ReplayEffect
<1>6. \A x \in off : OnAList(x)
  BY <1>5, LocalsOf DEF OnAList
<1>7. home \in [Tasks -> Places] /\ priority \in [Tasks -> Levels]
  BY DEF Typed, PriosTyped
<1>8. Blocking(t)' <=> Blocking(t)
  BY <1>1, <1>4 DEF Blocking, Goes
<1>9. ASSUME NEW p \in Queues, NEW e \in Sides, NEW x \in ToSet(blocked[p][e]) \ off
      PROVE  Entered(x, p, e)'
  <2>1. Entered(t, p, e) => Entered(t, p, e)'
    BY <1>4, <1>8 DEF Entered, Blocking
  <2>2. Entered(x, p, e)
    BY DEF Placing
  <2> QED
    BY <1>4, <2>1, <2>2, EnteredStays
<1>10. ~Blocking(t)' => home[t] >= 0
  BY <1>8, ConstantsTyped DEF Placing
<1>11. Placing'
  BY <1>2, <1>5, <1>6, <1>7, <1>9, <1>10, PlacingMoves
<1> QED
  BY <1>5, <1>7, <1>11, WokenTyped DEF PlacedRight

LEMMA PlacingResume ==
  ASSUME Typed, Placing, NEW t \in Tasks, running = t, suspendAll = 1,
         xTaskResumeAll(t)
  PROVE  PlacedRight
<1>1. PICK late \in SUBSET {x \in Tasks : home[x] = Delayed}, ticked \in BOOLEAN :
        /\ ResumeAll(priority[t], late, ticked, loc[t].then = "block")
        /\ IF loc[t].then = "fail"
           THEN Goto(t, "run") /\ loc' = [Lately(late) EXCEPT ![t] = NoLocals]
           ELSE Goto(t, "try") /\ loc' = Lately(late)
  BY DEF xTaskResumeAll
<1> DEFINE held == ToSet(pendingReady)
           f == Lately(late)
<1>2. /\ pc[t] = "resume" /\ ~yield /\ running' = t
  BY DEF xTaskResumeAll, At, core
<1>3. /\ suspendAll' = 0 /\ pendingReady' = <<>> /\ blocked' = Released(late)
      /\ home' = [x \in Tasks |-> IF x \in late \/ x \in held THEN priority[x]
                                                              ELSE home[x]]
      /\ loc[t].then = "block" => yield'
  <2> DEFINE hm == [x \in Tasks |-> IF x \in held THEN priority[x] ELSE home[x]]
  <2>1. /\ suspendAll' = suspendAll - 1 /\ pendingReady' = <<>>
        /\ blocked' = Released(late)
        /\ home' = [x \in Tasks |-> IF x \in late THEN priority[x] ELSE hm[x]]
    BY <1>1 DEF ResumeAll
  <2>2. yield' = (loc[t].then = "block" \/ YieldDue(priority[t], held, ticked))
    BY <1>1, Zenon DEF ResumeAll
  <2>3. suspendAll' = 0
    BY <2>1
  <2>4. loc[t].then = "block" => yield'
    BY <2>2, Zenon
  <2>5. home' = [x \in Tasks |-> IF x \in late \/ x \in held THEN priority[x]
                                                             ELSE home[x]]
    BY <2>1
  <2> QED
    BY <2>1, <2>3, <2>4, <2>5, Zenon
<1>4. /\ home \in [Tasks -> Places] /\ priority \in [Tasks -> Levels]
      /\ \A x \in Tasks : /\ priority[x] \in Places /\ priority[x] >= 0
                          /\ priority[x] \notin Waiting
  BY LevelsTyped DEF Typed, PriosTyped
<1>5. home' \in [Tasks -> Places]
  BY <1>3, <1>4
<1>6. /\ pc \in [Tasks -> Labels] /\ f \in [Tasks -> Locals]
      /\ \A x \in Tasks : /\ f[x].op = loc[x].op /\ f[x].queue = loc[x].queue
                          /\ f[x].timed = loc[x].timed /\ f[x].then = loc[x].then
  BY LatelyFields DEF Typed, CallsTyped
<1>7. ASSUME NEW q \in Queues, NEW s \in Sides, NEW x \in ToSet(blocked[q][s])
      PROVE  Entered(x, q, s)'
  <2>1. blocked[q][s] \in Seq(Tasks) /\ Entered(x, q, s)
    BY DEF Typed, ListsTyped, Placing
  <2>2. x \in Tasks
    BY <2>1, EntriesOf
  <2>3. CASE x = t
    <3>1. loc[t].then = "block"
      BY <1>2, <2>1, <2>3 DEF Entered, Blocking
    <3>2. pc'[t] = "try" /\ loc'[t] = f[t]
      BY <1>1, <1>6, <3>1 DEF Goto
    <3> HIDE DEF f
    <3> QED
      BY <1>6, <2>1, <2>3, <3>2 DEF Entered
  <2>4. CASE x # t
    <3>1. pc'[x] = pc[x] /\ loc'[x] = f[x]
      BY <1>1, <1>6, <2>2, <2>4 DEF Goto
    <3> HIDE DEF f
    <3> QED
      BY <1>6, <2>1, <2>2, <3>1 DEF Entered, Blocking
  <2> QED
    BY <2>3, <2>4
<1>8. ASSUME ~yield' PROVE home'[t] >= 0
  <2>1. ~Blocking(t)
    BY <1>3, <1>8 DEF Blocking
  <2>2. home[t] >= 0
    BY <2>1, ConstantsTyped DEF Placing
  <2> QED
    BY <1>3, <1>4, <2>2
<1>9. ASSUME NEW x \in Tasks \ late, home[x] \in Waiting, x \notin ToSet(pendingReady)
      PROVE  home'[x] = home[x]
  BY <1>3, <1>9
<1>10. ASSUME NEW x \in Tasks, home'[x] \in Waiting
       PROVE  x \notin late /\ x \notin ToSet(pendingReady) /\ home'[x] = home[x]
  BY <1>3, <1>4, <1>10
<1> HIDE DEF f, held
<1> QED
  BY <1>2, <1>3, <1>5, <1>7, <1>8, <1>9, <1>10, PlacingReleased

LEMMA PlacingWait ==
  ASSUME Typed, Called, Locking, Placing, NEW t \in Tasks, WaitStep(t) \/ AltBlock(t)
  PROVE  PlacedRight
<1> USE DEF At, core, sched
<1>1. running = t /\ ~yield /\ pc[t] \in Labels
  BY LocalsOf DEF WaitStep, vTaskSuspendAll, prvLockQueue, xTaskCheckForTimeOut,
     TestQueue, vTaskPriorityInherit, vTaskPlaceOnEventList, UnlockTx, UnlockRx,
     xTaskResumeAll, AltBlock
<1>2. /\ pc[t] \in Sections => suspendAll = 1
      /\ pc[t] \notin Sections => suspendAll = 0
  BY <1>1, InCall
<1>3. ASSUME NEW l \in Labels, Goes(t, l), pc[t] \notin {"unlockTx", "unlockRx", "resume"},
             UNCHANGED <<blocked, home, pendingReady, running>>,
             suspendAll' = 0 => suspendAll = 0
      PROVE  PlacedRight
  BY <1>1, <1>3, TaskQuiet DEF Blocking
<1>4. Sections \cup {"try"} \subseteq Labels
  BY DEF Labels
<1>5. CASE vTaskSuspendAll(t)
  <2>1. pc[t] = "suspend" /\ Goes(t, "lock")
    BY <1>4, <1>5, GotoGoes DEF vTaskSuspendAll, Sections
  <2>2. suspendAll = 0 /\ suspendAll' = 1
    BY <1>2, <1>5, <2>1 DEF vTaskSuspendAll, Sections
  <2>3. UNCHANGED <<blocked, home, pendingReady, running>>
    BY <1>5 DEF vTaskSuspendAll
  <2> QED
    BY <1>3, <1>4, <2>1, <2>2, <2>3 DEF Sections
<1>6. CASE prvLockQueue(t)
  <2>1. pc[t] = "lock" /\ Goes(t, "check")
    BY <1>4, <1>6, GotoGoes DEF prvLockQueue, Sections
  <2>2. UNCHANGED <<blocked, home, pendingReady, running, suspendAll>>
    BY <1>6 DEF prvLockQueue
  <2> QED
    BY <1>3, <1>4, <2>1, <2>2 DEF Sections
<1>7. CASE xTaskCheckForTimeOut(t)
  <2>1. pc[t] = "check" /\ (Goes(t, "unlockTx") \/ Goes(t, "test"))
    BY <1>4, <1>7, GotoGoes, LeaveGoes DEF xTaskCheckForTimeOut, Sections
  <2>2. UNCHANGED <<blocked, home, pendingReady, running, suspendAll>>
    BY <1>7 DEF xTaskCheckForTimeOut
  <2> QED
    BY <1>3, <1>4, <2>1, <2>2 DEF Sections
<1>8. CASE TestQueue(t)
  <2>1. pc[t] = "test" /\ \E l \in {"unlockTx", "inherit", "place"} : Goes(t, l)
    BY <1>4, <1>8, GotoGoes, LeaveGoes DEF TestQueue, Sections
  <2>2. UNCHANGED <<blocked, home, pendingReady, running, suspendAll>>
    BY <1>8 DEF TestQueue
  <2> QED
    BY <1>3, <1>4, <2>1, <2>2 DEF Sections
<1>9. CASE vTaskPriorityInherit(t)
  <2>1. pc[t] = "inherit" /\ Goes(t, "place")
    BY <1>4, <1>9, GotoGoes DEF vTaskPriorityInherit, Sections
  <2>2. /\ home' \in [Tasks -> Places] /\ ReadyMoves(home')
        /\ UNCHANGED <<blocked, pendingReady, running, suspendAll>>
    BY <1>9, InheritMoves DEF vTaskPriorityInherit
  <2>3. ~Blocking(t)
    BY <2>1 DEF Blocking
  <2> QED
    BY <1>1, <1>4, <2>1, <2>2, <2>3, TaskWakesNobody DEF Sections
<1>10. CASE vTaskPlaceOnEventList(t)
  <2>1. /\ pc[t] = "place" /\ Goes(t, "unlockTx") /\ SameCall(t)
        /\ loc'[t].timed = loc[t].timed /\ loc'[t].then = "block"
    BY <1>10, LeaveGoes DEF vTaskPlaceOnEventList
  <2>2. loc[t].timed /\ ~Blocking(t)
    BY <2>1 DEF Called, CalledAt, Blocking
  <2>3. Blocking(t)'
    BY <2>1 DEF Blocking, Goes
  <2>4. suspendAll = 1 /\ UNCHANGED <<suspendAll, pendingReady, running>>
    BY <1>2, <1>10, <2>1 DEF vTaskPlaceOnEventList, Sections
  <2>5. ~OnAList(t) /\ t \notin ToSet(pendingReady)
    BY <1>1, <2>2, RunsReady
  <2>6. home \in [Tasks -> Places] /\ ReadyMoves(home)
    BY DEF Typed, ReadyMoves
  <2>7. Placed(t) /\ home' = [home EXCEPT ![t] = Away(t)]
    BY <1>10 DEF vTaskPlaceOnEventList
  <2>8. suspendAll' # 0 /\ loc'[t].timed
    BY <2>1, <2>2, <2>4
  <2> QED
    BY <1>1, <2>1, <2>3, <2>4, <2>5, <2>6, <2>7, <2>8, PlacingPlaced
<1>11. CASE UnlockTx(t)
  <2>1. /\ pc[t] = "unlockTx" /\ suspendAll = 1
        /\ Replay(t, queue[loc[t].queue].txLock, "receive") /\ Goto(t, "unlockRx")
    BY <1>2, <1>11 DEF UnlockTx, Sections
  <2>2. queue[loc[t].queue].txLock \in Int /\ "receive" \in Sides
    BY LocalsOf DEF RecordOK, QueueRecords, Sides
  <2> QED
    BY <1>1, <2>1, <2>2, PlacingReplay
<1>12. CASE UnlockRx(t)
  <2>1. /\ pc[t] = "unlockRx" /\ suspendAll = 1
        /\ Replay(t, queue[loc[t].queue].rxLock, "send") /\ Goto(t, "resume")
    BY <1>2, <1>12 DEF UnlockRx, Sections
  <2>2. queue[loc[t].queue].rxLock \in Int /\ "send" \in Sides
    BY LocalsOf DEF RecordOK, QueueRecords, Sides
  <2>3. Goto(t, IF pc[t] = "unlockTx" THEN "unlockRx" ELSE "resume")
    BY <2>1
  <2> QED
    BY <1>1, <2>1, <2>2, <2>3, PlacingReplay
<1>13. CASE xTaskResumeAll(t)
  <2>1. pc[t] \in Sections
    BY <1>13 DEF xTaskResumeAll, Sections
  <2> QED
    BY <1>1, <1>2, <1>13, <2>1, PlacingResume
<1>14. CASE AltBlock(t)
  <2> DEFINE q == loc[t].queue
             h == queue[q].holder
             hm == IF WaitsForMutex(t) THEN HomeInherited(h, t) ELSE home
  <2>1. /\ pc[t] = "wait" /\ Goto(t, "try") /\ UNCHANGED loc
        /\ UNCHANGED <<suspendAll, pendingReady, running>>
    BY <1>14 DEF AltBlock
  <2>2. Goes(t, "try") /\ loc'[t] = loc[t]
    BY <1>4, <2>1, GotoGoes
  <2>3. loc[t].timed /\ ~Blocking(t) /\ suspendAll = 0
    BY <1>2, <2>1 DEF Called, CalledAt, Blocking, Sections
  <2>4. CASE Ready(loc[t].op, q)
    <3>1. UNCHANGED <<blocked, home>>
      BY <1>14, <2>4 DEF AltBlock
    <3> QED
      BY <1>3, <1>4, <2>1, <2>2, <2>3, <3>1
  <2>5. CASE ~Ready(loc[t].op, q)
    <3>1. home' = [hm EXCEPT ![t] = Away(t)] /\ Placed(t) /\ yield' = TRUE
      BY <1>14, <2>5 DEF AltBlock
    <3>2. hm \in [Tasks -> Places] /\ ReadyMoves(hm)
      BY InheritMoves DEF Typed, ReadyMoves
    <3>3. ~OnAList(t) /\ t \notin ToSet(pendingReady)
      BY <1>1, <2>3, RunsReady
    <3>4. SameCall(t) /\ loc'[t].timed
      BY <2>2, <2>3 DEF SameCall
    <3> HIDE DEF hm
    <3> QED
      BY <1>1, <2>1, <2>2, <2>3, <3>1, <3>2, <3>3, <3>4, PlacingPlaced
  <2> QED
    BY <2>4, <2>5
<1> QED
  BY <1>5, <1>6, <1>7, <1>8, <1>9, <1>10, <1>11, <1>12, <1>13, <1>14 DEF WaitStep

LEMMA PlacingOther ==
  ASSUME Typed, Locking, Placing, NEW t \in Tasks, OtherStep(t)
  PROVE  PlacedRight
<1> USE DEF At, core, sched
<1>1. /\ running = t /\ ~yield /\ pc[t] = "run"
      /\ UNCHANGED <<pc, loc, running, suspendAll, pendingReady>>
  BY DEF OtherStep, vTaskPrioritySet, vTaskSuspend, vTaskResume, vTaskDelete
<1>2. suspendAll = 0 /\ pendingReady = <<>> /\ ToSet(<<>>) = {}
  BY <1>1, InCall DEF Sections, Placing, ToSet
<1>3. ~Blocking(t) /\ home[t] >= 0 /\ home \in [Tasks -> Places]
  <2>1. ~Blocking(t)
    BY <1>1 DEF Blocking
  <2> QED
    BY <1>1, <2>1, RunsReady DEF Typed
<1>4. /\ PriosTyped /\ \A x \in Tasks : /\ priority[x] \in Places /\ priority[x] >= 0
                                        /\ priority[x] \notin Waiting
      /\ Levels \subseteq Places
  BY LevelsTyped DEF Typed, PriosTyped
(* The priority of x changes, and the ready list with it.                   *)
<1>5. ASSUME NEW x \in Tasks, NEW p \in Levels, vTaskPrioritySet(t, x, p)
      PROVE  PlacedRight
  <2>1. /\ UNCHANGED blocked
        /\ priority' = [priority EXCEPT ![x] = IF @ = base[x] THEN p ELSE @]
        /\ home' = [home EXCEPT ![x] = IF @ = base[x] THEN priority'[x] ELSE @]
    BY <1>5 DEF vTaskPrioritySet
  <2>2. /\ priority'[x] \in Levels
        /\ home' = home \/ (home[x] = base[x] /\ home' = [home EXCEPT ![x] = priority'[x]])
    BY <1>3, <1>4, <2>1 DEF PriosTyped
  <2>3. /\ priority'[x] \in Places /\ priority'[x] >= 0 /\ priority'[x] \notin Waiting
        /\ base[x] \notin Waiting
    BY <1>4, <2>2, LevelsTyped DEF PriosTyped
  <2>4. home' \in [Tasks -> Places]
    BY <1>3, <2>2, <2>3
  <2>5. ReadyMoves(home')
    BY <1>3, <2>2, <2>3 DEF ReadyMoves
  <2> QED
    BY <1>1, <1>3, <2>1, <2>4, <2>5, TaskWakesNobody
(* x leaves the lists for a place out of reach.                             *)
<1>6. ASSUME NEW x \in Tasks, NEW p \in {Suspended, Terminated},
             p = Suspended => \E c \in Suspends : c[2] = x,
             home' = [home EXCEPT ![x] = p], blocked' = Released({x}), yield' = (x = t)
      PROVE  PlacedRight
  <2>1. p \in Places
    BY DEF Places
  <2>2. home' \in [Tasks -> Places] /\ \A y \in Tasks \ {x} : home'[y] = home[y]
    BY <1>3, <1>6, <2>1
  <2>3. ASSUME NEW y \in Tasks, home'[y] \in Waiting
        PROVE  \/ y \notin {x} /\ y \notin ToSet(pendingReady) /\ home'[y] = home[y]
               \/ home'[y] = Suspended /\ \E c \in Suspends : c[2] = y
    <3>1. Terminated \notin Waiting
      BY DEF Terminated, Waiting, Delayed, Suspended
    <3> QED
      BY <1>2, <1>3, <1>6, <2>2, <2>3, <3>1
  <2>4. ASSUME NEW q \in Queues, NEW s \in Sides, NEW y \in ToSet(blocked[q][s])
        PROVE  Entered(y, q, s)'
    <3>1. Entered(y, q, s)
      BY DEF Placing
    <3> QED
      BY <1>1, <3>1 DEF Entered, Blocking
  <2>5. ~yield' => home'[t] >= 0
    BY <1>3, <1>6, <2>2
  <2> QED
    BY <1>1, <1>2, <1>6, <2>2, <2>3, <2>4, <2>5, PlacingReleased
<1>7. ASSUME NEW x \in Tasks, <<t, x>> \in Suspends, vTaskSuspend(t, x)
      PROVE  PlacedRight
  BY <1>6, <1>7 DEF vTaskSuspend
<1>8. ASSUME NEW x \in Tasks, vTaskDelete(t, x) PROVE PlacedRight
  <2>1. Terminated # Suspended
    BY DEF Suspended, Terminated
  <2> QED
    BY <1>6, <1>8, <2>1 DEF vTaskDelete
(* x is ready again, and was on no event list.                              *)
<1>9. ASSUME NEW x \in Tasks, vTaskResume(t, x) PROVE PlacedRight
  <2>1. home' = [home EXCEPT ![x] = priority[x]] /\ IsSuspended(x) /\ UNCHANGED blocked
    BY <1>9 DEF vTaskResume
  <2>2. home' \in [Tasks -> Places]
    BY <1>3, <1>4, <2>1
  <2>3. ASSUME NEW q \in Queues, NEW s \in Sides, NEW y \in ToSet(blocked[q][s])
        PROVE  Entered(y, q, s)' /\ home'[y] \in Waiting
    <3>1. Entered(y, q, s) /\ home[y] \in Waiting
      BY DEF Placing
    <3>2. y # x
      BY <2>1 DEF IsSuspended, Sides
    <3> QED
      BY <1>1, <1>3, <2>1, <3>1, <3>2 DEF Entered, Blocking
  <2>4. ASSUME NEW y \in Tasks, home'[y] \in Waiting
        PROVE  OnAList(y)' \/ (home'[y] = Suspended /\ \E c \in Suspends : c[2] = y)
    <3>1. y # x /\ home'[y] = home[y]
      BY <1>3, <1>4, <2>1, <2>4
    <3>2. OnAList(y) => OnAList(y)'
      BY <2>1 DEF OnAList
    <3> QED
      BY <1>2, <2>4, <3>1, <3>2 DEF Placing
  <2>5. home'[t] >= 0
    BY <1>3, <1>4, <2>1
  <2>6. Placing'
    BY <1>1, <1>2, <2>1, <2>3, <2>4, <2>5 DEF Placing
  <2> QED
    BY <1>1, <2>1, <2>2, <2>6 DEF PlacedRight, Typed, ListsTyped
<1> QED
  BY <1>5, <1>7, <1>8, <1>9 DEF OtherStep

LEMMA PlacingIdle ==
  ASSUME Typed, Locking, Placing, IdleStep
  PROVE  PlacedRight
<1> USE DEF core, sched
<1>1. running = NoTask /\ UNCHANGED <<running, pc>>
  BY DEF IdleStep, CheckTermination, CheckedTermination, prvDeleteTCB, IdleAt
<1>2. home \in [Tasks -> Places] /\ priority \in [Tasks -> Levels]
  BY DEF Typed, PriosTyped
<1>3. ASSUME NEW q \in Queues, NEW s \in Sides, NEW x \in ToSet(blocked[q][s]),
             \A y \in Tasks : /\ loc'[y].timed = loc[y].timed /\ loc'[y].op = loc[y].op
                              /\ loc'[y].queue = loc[y].queue
                              /\ loc'[y].then = loc[y].then
      PROVE  Entered(x, q, s)'
  <2>1. blocked[q][s] \in Seq(Tasks) /\ Entered(x, q, s)
    BY DEF Typed, ListsTyped, Placing
  <2>2. x \in Tasks
    BY <2>1, EntriesOf
  <2> QED
    BY <1>1, <1>3, <2>1, <2>2 DEF Entered, Blocking
<1>4. CASE CheckTermination
  <2>1. /\ UNCHANGED <<loc, home, blocked, pendingReady>>
        /\ suspendAll' = suspendAll + 1 /\ idle = "check"
    BY <1>4 DEF CheckTermination, IdleAt
  <2>2. suspendAll = 0
    BY <1>1, <2>1, Unlocks DEF Locking
  <2>3. Woken({}, home, priority)
    BY <1>2, <2>1, NobodyWoken
  <2>4. Placing'
    BY <1>1, <1>2, <1>3, <2>1, <2>2, <2>3, PlacingMoves
  <2> QED
    BY <1>2, <2>3, <2>4, WokenTyped DEF PlacedRight
<1>5. CASE CheckedTermination
  <2>1. PICK late \in SUBSET {x \in Tasks : home[x] = Delayed}, ticked \in BOOLEAN :
               ResumeAll(IdlePriority, late, ticked, FALSE) /\ loc' = Lately(late)
    BY <1>5 DEF CheckedTermination
  <2> DEFINE held == ToSet(pendingReady)
             hm == [x \in Tasks |-> IF x \in held THEN priority[x] ELSE home[x]]
  <2>2. /\ pendingReady' = <<>> /\ blocked' = Released(late)
        /\ home' = [x \in Tasks |-> IF x \in late THEN priority[x] ELSE hm[x]]
    BY <2>1 DEF ResumeAll
  <2>3. home' = [x \in Tasks |-> IF x \in late \/ x \in held THEN priority[x]
                                                             ELSE home[x]]
    BY <2>2
  <2>4. \A x \in Tasks : /\ priority[x] \in Places /\ priority[x] >= 0
                         /\ priority[x] \notin Waiting
    BY <1>2, LevelsTyped
  <2>5. home' \in [Tasks -> Places]
    BY <1>2, <2>3, <2>4
  <2>6. ASSUME NEW x \in Tasks \ late, home[x] \in Waiting, x \notin ToSet(pendingReady)
        PROVE  home'[x] = home[x]
    BY <2>3, <2>6
  <2>7. ASSUME NEW x \in Tasks, home'[x] \in Waiting
        PROVE  x \notin late /\ x \notin ToSet(pendingReady) /\ home'[x] = home[x]
    BY <2>3, <2>4, <2>7
  <2>8. ASSUME NEW q \in Queues, NEW s \in Sides, NEW x \in ToSet(blocked[q][s]) \ late
        PROVE  Entered(x, q, s)'
    BY <1>3, <2>1, LatelyFields
  <2> HIDE DEF held, hm
  <2> QED
    BY <1>1, <2>2, <2>5, <2>6, <2>7, <2>8, PlacingReleased
<1>6. CASE prvDeleteTCB
  <2>1. PICK x \in Dead : home' = [home EXCEPT ![x] = Freed]
    BY <1>6 DEF prvDeleteTCB
  <2>2. UNCHANGED <<loc, blocked, pendingReady, suspendAll>>
    BY <1>6 DEF prvDeleteTCB
  <2>3. x \in Tasks /\ home[x] = Terminated /\ Freed \in Places
    BY <2>1 DEF Dead, Places
  <2>4. /\ Terminated \notin Waiting /\ Freed \notin Waiting /\ ~(Terminated >= 0)
    BY DEF Waiting, Delayed, Suspended, Terminated, Freed
  <2> DEFINE hm == home'
  <2>5. hm \in [Tasks -> Places] /\ ReadyMoves(hm) /\ home' = hm
    BY <1>2, <2>1, <2>3, <2>4 DEF ReadyMoves
  <2> HIDE DEF hm
  <2>6. Woken({}, hm, priority)
    BY <2>2, <2>5, NobodyWoken
  <2>7. Placing'
    BY <1>1, <1>2, <1>3, <2>2, <2>5, <2>6, PlacingMoves DEF ReadyMoves
  <2> QED
    BY <1>2, <2>5, <2>6, <2>7, WokenTyped DEF PlacedRight
<1> QED
  BY <1>4, <1>5, <1>6 DEF IdleStep

(* An interrupt wakes the first task of an event list, unless the queue is  *)
(* locked, or resumes a task.                                               *)
LEMMA PlacingIsr ==
  ASSUME Typed, Placing, IsrStep
  PROVE  PlacedRight
<1> USE DEF core, sched
<1>1. UNCHANGED <<pc, loc, suspendAll, running>>
  BY DEF IsrStep, xTaskResumeFromISR, xQueueGenericSendFromISR, xQueueReceiveFromISR
<1>2. home \in [Tasks -> Places] /\ priority \in [Tasks -> Levels]
  BY DEF Typed, PriosTyped
<1>3. ASSUME NEW q \in Queues, NEW s \in Sides, NEW x \in ToSet(blocked[q][s])
      PROVE  Entered(x, q, s)'
  BY <1>1 DEF Entered, Blocking, Placing
<1>4. ASSUME suspendAll' = 0 => ~yield', running' # NoTask, ~Blocking(running)',
             yield => yield'
      PROVE  running' \in Tasks /\ home[running'] >= 0
  BY <1>1, <1>4 DEF Placing, Blocking, Typed, CoreTyped
<1>5. ASSUME NEW off \in SUBSET Tasks, \A x \in off : OnAList(x),
             Woken(off, home, priority), yield => yield'
      PROVE  PlacedRight
  <2>1. Placing'
    BY <1>1, <1>2, <1>3, <1>4, <1>5, PlacingMoves
  <2> QED
    BY <1>2, <1>5, <2>1, WokenTyped DEF PlacedRight
<1>6. ASSUME UNCHANGED <<blocked, home, pendingReady, yield>> PROVE PlacedRight
  <2>1. Woken({}, home, priority)
    BY <1>2, <1>6, NobodyWoken
  <2> QED
    BY <1>5, <1>6, <2>1
<1>7. ASSUME NEW q \in Queues, NEW s \in Sides, WakeFirst(q, s, home, priority),
             yield' = (yield \/ Outranks(q, s, priority))
      PROVE  PlacedRight
  <2>1. PICK off \in SUBSET Tasks : off \subseteq ToSet(blocked[q][s])
                                    /\ Woken(off, home, priority)
    BY <1>2, <1>7, WakeEffect
  <2>2. \A x \in off : OnAList(x)
    BY <2>1 DEF OnAList
  <2>3. yield => yield'
    BY <1>7, Zenon
  <2> QED
    BY <1>5, <2>1, <2>2, <2>3
<1>8. ASSUME NEW q \in Queues, NEW x, NEW op, xQueueGenericSendFromISR(q, x, op)
      PROVE  PlacedRight
  BY <1>6, <1>7, <1>8 DEF xQueueGenericSendFromISR, Sides
<1>9. ASSUME NEW q \in Queues, xQueueReceiveFromISR(q) PROVE PlacedRight
  BY <1>6, <1>7, <1>9 DEF xQueueReceiveFromISR, Sides
<1>10. ASSUME NEW x \in Tasks, xTaskResumeFromISR(x) PROVE PlacedRight
  <2>1. /\ UNCHANGED blocked /\ home[x] = Suspended /\ x \notin ToSet(pendingReady)
        /\ ~OnAList(x)
    BY <1>10 DEF xTaskResumeFromISR, IsSuspended, OnAList, Sides
  <2>2. \A p \in Levels : p >= 0 /\ p \notin Waiting /\ p \in Places
    BY LevelsTyped
  <2>3. yield => yield'
    BY <1>10, Zenon DEF xTaskResumeFromISR
  <2>4. suspendAll = 0 => home' = [home EXCEPT ![x] = priority[x]] /\ UNCHANGED pendingReady
    BY <1>10 DEF xTaskResumeFromISR
  <2>5. suspendAll # 0 => pendingReady' = Append(pendingReady, x) /\ UNCHANGED home
    BY <1>10 DEF xTaskResumeFromISR
  <2>6. /\ home' \in [Tasks -> Places]
        /\ \A y \in Tasks \ {x} : home'[y] = home[y]
        /\ suspendAll # 0 => home'[x] = home[x]
        /\ suspendAll = 0 => home'[x] \notin Waiting /\ home'[x] >= 0
    BY <1>2, <2>2, <2>4, <2>5
  <2>7. /\ pendingReady' \in Seq(Tasks) /\ IsInjective(pendingReady')
        /\ ToSet(pendingReady') =
             IF suspendAll = 0 THEN ToSet(pendingReady) ELSE ToSet(pendingReady) \cup {x}
        /\ suspendAll = 0 => pendingReady' = <<>>
    <3>1. CASE suspendAll = 0
      BY <2>4, <3>1 DEF Typed, ListsTyped, Placing
    <3>2. CASE suspendAll # 0
      BY <2>1, <2>5, <3>2, HoldOne
    <3> QED
      BY <3>1, <3>2
  <2>8. ASSUME NEW q \in Queues, NEW s \in Sides, NEW y \in ToSet(blocked[q][s])
        PROVE  y \in Tasks \ {x} /\ home'[y] \in Waiting /\ y \notin ToSet(pendingReady')
    <3>1. blocked[q][s] \in Seq(Tasks) /\ home[y] \in Waiting /\ y \notin ToSet(pendingReady)
      BY DEF Typed, ListsTyped, Placing
    <3>2. y \in Tasks \ {x}
      BY <2>1, <3>1, EntriesOf DEF OnAList
    <3> QED
      BY <2>6, <2>7, <3>1, <3>2
  <2>9. ASSUME NEW y \in ToSet(pendingReady') PROVE home'[y] \in Waiting
    <3>1. pendingReady \in Seq(Tasks) /\ \A z \in ToSet(pendingReady) : z \in Tasks
      BY EntriesOf DEF Typed, ListsTyped
    <3>2. ToSet(<<>>) = {} /\ Suspended \in Waiting
      BY DEF ToSet, Waiting
    <3>3. suspendAll # 0
      BY <2>7, <3>2
    <3> QED
      BY <2>1, <2>6, <2>7, <3>1, <3>2, <3>3 DEF Placing
  <2>10. ASSUME NEW y \in Tasks, home'[y] \in Waiting
         PROVE  \/ OnAList(y)' \/ y \in ToSet(pendingReady')
                \/ home'[y] = Suspended /\ \E c \in Suspends : c[2] = y
    <3>1. CASE y = x
      BY <2>6, <2>7, <2>10, <3>1
    <3>2. CASE y # x
      <4>1. home'[y] = home[y] /\ (OnAList(y) => OnAList(y)')
        BY <2>1, <2>6, <3>2 DEF OnAList
      <4> QED
        BY <2>7, <2>10, <4>1 DEF Placing
    <3> QED
      BY <3>1, <3>2
  <2>11. running' # NoTask /\ (suspendAll' = 0 => ~yield') /\ ~Blocking(running)' =>
           home'[running'] >= 0
    BY <1>4, <2>3, <2>6
  <2>12. Placing'
    BY <1>1, <1>3, <2>1, <2>7, <2>8, <2>9, <2>10, <2>11 DEF Placing
  <2>13. ListsTyped'
    BY <2>1, <2>7 DEF Typed, ListsTyped
  <2> QED
    BY <2>6, <2>12, <2>13 DEF PlacedRight
<1> QED
  BY <1>8, <1>9, <1>10 DEF IsrStep

LEMMA PlacingSwitch ==
  ASSUME Typed, Placing, vTaskSwitchContext
  PROVE  PlacedRight
<1>1. /\ UNCHANGED <<pc, loc, suspendAll, blocked, home, pendingReady>> /\ yield /\ ~yield'
  BY DEF vTaskSwitchContext
<1>2. home \in [Tasks -> Places] /\ priority \in [Tasks -> Levels]
  BY DEF Typed, PriosTyped
<1>3. Woken({}, home, priority)
  BY <1>1, <1>2, NobodyWoken
<1>4. ASSUME NEW q \in Queues, NEW s \in Sides, NEW x \in ToSet(blocked[q][s])
      PROVE  Entered(x, q, s)'
  BY <1>1 DEF Entered, Blocking, Placing
<1>5. ASSUME running' # NoTask, ~Blocking(running)'
      PROVE  running' \in Tasks /\ home[running'] >= 0
  <2>1. CASE suspendAll # 0
    <3>1. running' = running
      BY <2>1 DEF vTaskSwitchContext
    <3> QED
      BY <1>1, <1>5, <2>1, <3>1 DEF Placing, Blocking, Typed, CoreTyped
  <2>2. CASE suspendAll = 0
    BY <1>5, <2>2 DEF vTaskSwitchContext, Highest
  <2> QED
    BY <2>1, <2>2
<1>6. Placing'
  BY <1>1, <1>2, <1>3, <1>4, <1>5, PlacingMoves
<1> QED
  BY <1>2, <1>3, <1>6, WokenTyped DEF PlacedRight

LEMMA PlacingKept ==
  ASSUME Typed, Called, Locking, Placing, Holding, Next
  PROVE  PlacedRight
BY NextCases, PlacingTry, PlacingWait, PlacingOther, PlacingIdle, PlacingIsr,
   PlacingSwitch DEF AltStep

-----------------------------------------------------------------------------
(* Types.                                                                   *)

(* What a call does with the queues.                                        *)
LEMMA QueuesKept ==
  ASSUME Typed, Called, Locking, Holding, Next
  PROVE  QueuesTyped'
<1> USE DEF core, sched
<1>1. ASSUME UNCHANGED queue PROVE QueuesTyped'
  BY <1>1 DEF Typed, QueuesTyped, RecordOK
<1>2. ASSUME NEW q \in Queues, NEW n \in 0 .. MaxNesting,
             queue' = [queue EXCEPT ![q].calls = n]
      PROVE  QueuesTyped'
  BY <1>2, CountQueue DEF Becomes
<1>3. \A q \in Queues : queue[q].calls \in 0 .. MaxNesting
  BY DEF Typed, QueuesTyped, RecordOK
<1>4. ASSUME NEW t \in Tasks, CallStep(t) PROVE QueuesTyped'
  <2>1. PICK op \in Operations, q \in Queues, w \in Waits :
               /\ <<t, op, q, w>> \in Calls
               /\ \/ Call(t, op, q, w)
                  \/ op = "take" /\ TakeRecursive(t, q, w)
                  \/ op = "give" /\ GiveRecursive(t, q)
    BY <1>4 DEF CallStep
  <2>2. CASE Call(t, op, q, w)
    BY <1>1, <2>2 DEF Call
  <2>3. CASE TakeRecursive(t, q, w)
    <3>1. CASE queue[q].holder = t
      <4>1. /\ queue' = [queue EXCEPT ![q].calls = queue[q].calls + 1]
            /\ queue[q].calls < MaxNesting
        BY <2>3, <3>1 DEF TakeRecursive
      <4>2. queue[q].calls + 1 \in 0 .. MaxNesting
        BY <1>3, <4>1, ConstantsTyped
      <4> QED
        BY <1>2, <4>1, <4>2
    <3>2. CASE queue[q].holder # t
      BY <1>1, <2>3, <3>2 DEF TakeRecursive
    <3> QED
      BY <3>1, <3>2
  <2>4. CASE op = "give" /\ GiveRecursive(t, q)
    <3>1. /\ queue' = [queue EXCEPT ![q].calls = queue[q].calls - 1]
          /\ queue[q].holder = t /\ pc[t] = "run"
      BY <2>4 DEF GiveRecursive, At
    <3>2. Nests(t, q) /\ ~Outermost(t, q)
      <4>1. Nests(t, q)
        BY <2>1, <2>4 DEF Nests, Recursive
      <4> QED
        BY <3>1, <4>1 DEF Outermost
    <3>3. q \in Mutexes
      BY <3>1, ConstantsTyped DEF Holding
    <3>4. queue[q].calls > 0
      BY <3>1, <3>2, <3>3 DEF Holding
    <3>5. queue[q].calls - 1 \in 0 .. MaxNesting
      BY <1>3, <3>4, ConstantsTyped
    <3> QED
      BY <1>2, <3>1, <3>5
  <2> QED
    BY <2>1, <2>2, <2>3, <2>4
<1>5. ASSUME NEW t \in Tasks, TakeCounted(t) PROVE QueuesTyped'
  <2> DEFINE q == loc[t].queue
  <2>1. pc[t] = "count" /\ queue' = [queue EXCEPT ![q].calls = queue[q].calls + 1]
    BY <1>5 DEF TakeCounted, At
  <2>2. /\ q \in Queues /\ queue[q].holder = t
        /\ loc[t].op = "take" /\ \E w \in Waits : <<t, loc[t].op, q, w>> \in Calls
    BY <2>1, LocalsOf DEF Called, CalledAt, Holding
  <2>3. q \in Mutexes /\ Outermost(t, q)
    BY <2>1, <2>2, ConstantsTyped DEF Holding, Outermost
  <2>4. queue[q].calls = 0
    BY <1>3, <2>2, <2>3, ConstantsTyped DEF Holding
  <2>5. MaxNesting > 0
    <3>1. PICK c \in Calls : c[2] = "take"
      BY <2>2
    <3> QED
      BY <3>1, QueueAssumption DEF Recursive
  <2>6. queue[q].calls + 1 \in 0 .. MaxNesting
    BY <2>4, <2>5, ConstantsTyped
  <2> QED
    BY <1>2, <2>1, <2>2, <2>6
<1>6. ASSUME NEW t \in Tasks, TryStep(t) PROVE QueuesTyped'
  BY <1>1, <1>6, TrySendQueue, TryReceiveQueue DEF TryStep, TryPeek, TryLater, Becomes
<1>7. ASSUME NEW t \in Tasks, WaitStep(t) PROVE QueuesTyped'
  BY <1>1, <1>7, LockQueue, UnlockTxQueue, UnlockRxQueue DEF WaitStep, Becomes,
     vTaskSuspendAll, xTaskCheckForTimeOut, TestQueue, vTaskPriorityInherit,
     vTaskPlaceOnEventList, xTaskResumeAll
<1>8. ASSUME NEW t \in Tasks, AltStep(t) \/ OtherStep(t) PROVE QueuesTyped'
  BY <1>1, <1>8 DEF AltStep, OtherStep, AltExpired, AltBlock, vTaskPrioritySet,
     vTaskSuspend, vTaskResume, vTaskDelete
<1>9. ASSUME IdleStep \/ vTaskSwitchContext PROVE QueuesTyped'
  BY <1>1, <1>9 DEF IdleStep, CheckTermination, CheckedTermination, prvDeleteTCB,
     vTaskSwitchContext
<1>10. ASSUME IsrStep PROVE QueuesTyped'
  BY <1>1, <1>10, SendFromISRQueue, ReceiveFromISRQueue DEF IsrStep, Becomes,
     xTaskResumeFromISR
<1> QED
  BY <1>4, <1>5, <1>6, <1>7, <1>8, <1>9, <1>10, NextCases

LEMMA CopyOutTyped ==
  ASSUME Typed, NEW q \in Queues, CopyOut(q)
  PROVE  got' \in Items
<1>1. /\ RecordOK(q, queue[q]) /\ got \in Items
  BY DEF Typed, QueuesTyped, CallsTyped
<1>2. NextOut(q) \in 0 .. Capacity[q] - 1
  BY <1>1, ConstantsTyped, RingPlaces DEF NextOut, RecordOK
<1> QED
  BY <1>1, <1>2 DEF CopyOut, RecordOK

LEMMA CallsKept ==
  ASSUME Typed, Next
  PROVE  CallsTyped'
<1> USE DEF core, sched
<1>1. CallsTyped
  BY DEF Typed
<1>2. ASSUME UNCHANGED <<pc, loc>>, got' \in Items PROVE CallsTyped'
  BY <1>1, <1>2 DEF CallsTyped
<1>3. ASSUME NEW t \in Tasks,
             (UNCHANGED <<pc, loc>>) \/ \E l \in Labels : Goes(t, l), got' \in Items
      PROVE  CallsTyped'
  BY <1>2, <1>3 DEF Goes, CallsTyped
<1>4. ASSUME NEW late, loc' = Lately(late), UNCHANGED pc, got' \in Items PROVE CallsTyped'
  BY <1>1, <1>4, LatelyFields DEF CallsTyped
<1>5. got \in Items /\ NoLocals \in Locals
  BY <1>1, ConstantsTyped DEF CallsTyped
<1>6. ASSUME NEW t \in Tasks, CallStep(t) \/ TakeCounted(t) \/ TryStep(t) \/ AltStep(t)
      PROVE  CallsTyped'
  <2>1. got' \in Items
    <3>1. CASE TryReceive(t) \/ TryPeek(t)
      BY <3>1, LocalsOf, CopyOutTyped DEF TryReceive, TryPeek
    <3>2. CASE ~(TryReceive(t) \/ TryPeek(t))
      <4>1. UNCHANGED got
        BY <1>6, <3>2 DEF CallStep, Call, TakeRecursive, GiveRecursive, TakeCounted,
           TryStep, TrySend, TryLater, AltStep, AltExpired, AltBlock
      <4> QED
        BY <1>5, <4>1
    <3> QED
      BY <3>1, <3>2
  <2> QED
    BY <1>3, <1>6, <2>1, TaskGoes
<1>7. ASSUME NEW t \in Tasks, WaitStep(t), ~xTaskResumeAll(t) PROVE CallsTyped'
  <2>1. UNCHANGED got
    BY <1>7 DEF WaitStep, vTaskSuspendAll, prvLockQueue, xTaskCheckForTimeOut,
       TestQueue, vTaskPriorityInherit, vTaskPlaceOnEventList, UnlockTx, UnlockRx, Replay
  <2> QED
    BY <1>3, <1>5, <1>7, <2>1, WaitGoes
<1>8. ASSUME NEW t \in Tasks, xTaskResumeAll(t) PROVE CallsTyped'
  <2>1. PICK late :
          IF loc[t].then = "fail"
          THEN Goto(t, "run") /\ loc' = [Lately(late) EXCEPT ![t] = NoLocals]
          ELSE Goto(t, "try") /\ loc' = Lately(late)
    BY <1>8 DEF xTaskResumeAll
  <2> DEFINE f == Lately(late)
  <2>2. f \in [Tasks -> Locals] /\ pc \in [Tasks -> Labels] /\ UNCHANGED got
    BY <1>1, <1>8, LatelyFields DEF CallsTyped, xTaskResumeAll
  <2>3. loc' = f \/ loc' = [f EXCEPT ![t] = NoLocals]
    BY <2>1
  <2>4. Goto(t, "run") \/ Goto(t, "try")
    BY <2>1
  <2> HIDE DEF f
  <2>5. loc' \in [Tasks -> Locals]
    BY <1>5, <2>2, <2>3
  <2>6. pc' \in [Tasks -> Labels]
    BY <2>2, <2>4 DEF Goto, Labels
  <2> QED
    BY <1>5, <2>2, <2>5, <2>6 DEF CallsTyped
<1>9. ASSUME NEW t \in Tasks, OtherStep(t) PROVE CallsTyped'
  BY <1>2, <1>5, <1>9 DEF OtherStep, vTaskPrioritySet, vTaskSuspend, vTaskResume,
     vTaskDelete
<1>10. ASSUME IdleStep PROVE CallsTyped'
  BY <1>2, <1>4, <1>5, <1>10 DEF IdleStep, CheckTermination, CheckedTermination,
     prvDeleteTCB
<1>11. ASSUME IsrStep PROVE CallsTyped'
  BY <1>2, <1>5, <1>11, CopyOutTyped DEF IsrStep, xTaskResumeFromISR,
     xQueueGenericSendFromISR, xQueueReceiveFromISR
<1>12. ASSUME vTaskSwitchContext PROVE CallsTyped'
  BY <1>2, <1>5, <1>12 DEF vTaskSwitchContext
<1> QED
  BY <1>6, <1>7, <1>8, <1>9, <1>10, <1>11, <1>12, NextCases

(* To begin a call, to count it or to find that it must wait disturbs no    *)
(* list, no priority and no core.                                           *)
LEMMA CallApart ==
  ASSUME NEW t \in Tasks, CallStep(t) \/ TakeCounted(t) \/ TryLater(t)
  PROVE  UNCHANGED <<blocked, home, prios, pendingReady, sched, yield, core, got>>
<1>1. CASE CallStep(t)
  BY <1>1 DEF CallStep, Call, TakeRecursive, GiveRecursive
<1>2. CASE TakeCounted(t)
  BY <1>2 DEF TakeCounted
<1>3. CASE TryLater(t)
  BY <1>3 DEF TryLater
<1> QED
  BY <1>1, <1>2, <1>3

LEMMA CoreKept ==
  ASSUME Typed, Locking, Next
  PROVE  CoreTyped'
<1> USE DEF core, sched
<1>1. CoreTyped
  BY DEF Typed
<1>2. ASSUME UNCHANGED <<suspendAll, missedYield, running, idle>>, yield' \in BOOLEAN
      PROVE  CoreTyped'
  BY <1>1, <1>2 DEF CoreTyped
<1>3. /\ yield \in BOOLEAN /\ missedYield \in BOOLEAN
      /\ TRUE \in BOOLEAN /\ FALSE \in BOOLEAN
  BY <1>1 DEF CoreTyped, Outranks
<1>4. ASSUME NEW t \in Tasks, CallStep(t) \/ TakeCounted(t) \/ TryStep(t) \/ AltStep(t)
      PROVE  CoreTyped'
  <2>1. UNCHANGED <<suspendAll, missedYield, running, idle>>
    BY <1>4 DEF CallStep, Call, TakeRecursive, GiveRecursive, TakeCounted, TryStep,
       TrySend, TryReceive, TryPeek, TryLater, AltStep, AltExpired, AltBlock
  <2>2. ASSUME NEW q, NEW s, NEW pr, yield' = Outranks(q, s, pr)
        PROVE  yield' \in BOOLEAN
    BY <2>2 DEF Outranks
  <2>3. yield' \in BOOLEAN
    <3>1. CASE CallStep(t) \/ TakeCounted(t) \/ TryLater(t)
      BY <1>3, <3>1, CallApart
    <3>2. CASE TrySend(t)
      <4>1. yield' = Outranks(loc[t].queue, "receive", priority')
        BY <3>2 DEF TrySend
      <4> QED
        BY <2>2, <4>1
    <3>3. CASE TryReceive(t)
      <4>1. yield' = Outranks(loc[t].queue, "send", priority)
        BY <3>3 DEF TryReceive
      <4> QED
        BY <2>2, <4>1
    <3>4. CASE TryPeek(t)
      <4>1. yield' = Outranks(loc[t].queue, "receive", priority)
        BY <3>4 DEF TryPeek
      <4> QED
        BY <2>2, <4>1
    <3>5. CASE AltStep(t)
      BY <1>3, <3>5 DEF AltStep, AltExpired, AltBlock
    <3> QED
      BY <1>4, <3>1, <3>2, <3>3, <3>4, <3>5, Zenon DEF TryStep
  <2> QED
    BY <1>2, <2>1, <2>3
<1>5. ASSUME NEW t \in Tasks, OtherStep(t) PROVE CoreTyped'
  <2>1. UNCHANGED <<suspendAll, missedYield, running, idle>>
    BY <1>5 DEF OtherStep, vTaskPrioritySet, vTaskSuspend, vTaskResume, vTaskDelete
  <2>2. ASSUME NEW x, NEW p, vTaskPrioritySet(t, x, p) PROVE yield' \in BOOLEAN
    <3>1. yield' = IF p > base[x] THEN x # t ELSE x = t
      BY <2>2, Zenon DEF vTaskPrioritySet
    <3> QED
      BY <3>1
  <2>3. ASSUME NEW x, vTaskResume(t, x) PROVE yield' \in BOOLEAN
    <3>1. yield' = (priority[x] >= priority[t])
      BY <2>3, Zenon DEF vTaskResume
    <3> QED
      BY <3>1
  <2>4. ASSUME NEW x, vTaskSuspend(t, x) \/ vTaskDelete(t, x) PROVE yield' \in BOOLEAN
    <3>1. yield' = (x = t)
      BY <2>4, Zenon DEF vTaskSuspend, vTaskDelete
    <3> QED
      BY <3>1
  <2>5. yield' \in BOOLEAN
    BY <1>5, <2>2, <2>3, <2>4, Zenon DEF OtherStep
  <2> QED
    BY <1>2, <2>1, <2>5
<1>6. ASSUME IsrStep PROVE CoreTyped'
  <2>1. UNCHANGED <<suspendAll, missedYield, running, idle>>
    BY <1>6 DEF IsrStep, xTaskResumeFromISR, xQueueGenericSendFromISR,
       xQueueReceiveFromISR
  <2>2. yield' \in BOOLEAN
    BY <1>3, <1>6 DEF IsrStep, xTaskResumeFromISR, xQueueGenericSendFromISR,
       xQueueReceiveFromISR
  <2> QED
    BY <1>2, <2>1, <2>2
<1>7. suspendAll = 0 \/ suspendAll = 1
  BY Unlocks
<1>8. ASSUME NEW t \in Tasks, WaitStep(t) PROVE CoreTyped'
  <2>1. CASE vTaskSuspendAll(t)
    <3>1. running = t /\ pc[t] \notin Sections
      BY <2>1 DEF vTaskSuspendAll, At, Sections
    <3>2. suspendAll = 0
      BY <3>1, InCall
    <3> QED
      BY <1>1, <2>1, <3>2 DEF vTaskSuspendAll, CoreTyped
  <2>2. ASSUME NEW count, NEW s, Replay(t, count, s) PROVE CoreTyped'
    <3>1. missedYield' \in BOOLEAN
      BY <2>2, Zenon DEF Replay
    <3> QED
      BY <1>1, <2>2, <3>1 DEF Replay, CoreTyped
  <2>3. CASE UnlockTx(t) \/ UnlockRx(t)
    BY <2>2, <2>3 DEF UnlockTx, UnlockRx
  <2>4. CASE xTaskResumeAll(t)
    <3>1. running = t /\ pc[t] \in Sections /\ UNCHANGED <<running, idle>>
      BY <2>4 DEF xTaskResumeAll, At, Sections
    <3>2. suspendAll = 1
      BY <3>1, InCall
    <3>3. PICK level, late, ticked, anyway : ResumeAll(level, late, ticked, anyway)
      BY <2>4 DEF xTaskResumeAll
    <3>4. suspendAll' = suspendAll - 1 /\ missedYield' = FALSE
      BY <3>3 DEF ResumeAll
    <3>5. yield' \in BOOLEAN
      <4>1. yield' = (anyway \/ YieldDue(level, ToSet(pendingReady), ticked))
        BY <3>3, Zenon DEF ResumeAll
      <4> QED
        BY <4>1 DEF YieldDue
    <3>6. suspendAll' \in 0 .. 1
      BY <3>2, <3>4
    <3>7. missedYield' \in BOOLEAN
      BY <3>4
    <3> QED
      BY <1>1, <3>1, <3>5, <3>6, <3>7, Zenon DEF CoreTyped
  <2>5. CASE \/ prvLockQueue(t) \/ xTaskCheckForTimeOut(t) \/ TestQueue(t)
             \/ vTaskPriorityInherit(t) \/ vTaskPlaceOnEventList(t)
    BY <1>2, <1>3, <2>5 DEF prvLockQueue, xTaskCheckForTimeOut, TestQueue,
       vTaskPriorityInherit, vTaskPlaceOnEventList
  <2> QED
    BY <1>8, <2>1, <2>3, <2>4, <2>5 DEF WaitStep
<1>9. ASSUME IdleStep PROVE CoreTyped'
  <2>1. CASE CheckTermination
    <3>1. running = NoTask /\ idle = "check"
      BY <2>1 DEF CheckTermination, IdleAt
    <3>2. suspendAll = 0
      BY <1>7, <3>1 DEF Locking
    <3> QED
      BY <1>1, <2>1, <3>2 DEF CheckTermination, CoreTyped
  <2>2. CASE CheckedTermination
    <3>1. running = NoTask /\ idle = "resume" /\ running' = running /\ idle' = "free"
      BY <2>2 DEF CheckedTermination, IdleAt
    <3>2. suspendAll = 1
      BY <1>7, <3>1 DEF Locking
    <3>3. PICK level, late, ticked, anyway : ResumeAll(level, late, ticked, anyway)
      BY <2>2 DEF CheckedTermination
    <3>4. suspendAll' = suspendAll - 1 /\ missedYield' = FALSE
      BY <3>3 DEF ResumeAll
    <3>5. yield' \in BOOLEAN
      <4>1. yield' = (anyway \/ YieldDue(level, ToSet(pendingReady), ticked))
        BY <3>3, Zenon DEF ResumeAll
      <4> QED
        BY <4>1 DEF YieldDue
    <3>6. suspendAll' \in 0 .. 1
      BY <3>2, <3>4
    <3>7. missedYield' \in BOOLEAN
      BY <3>4
    <3> QED
      BY <1>1, <3>1, <3>5, <3>6, <3>7, Zenon DEF CoreTyped
  <2>3. CASE prvDeleteTCB
    BY <1>1, <2>3 DEF prvDeleteTCB, CoreTyped
  <2> QED
    BY <1>9, <2>1, <2>2, <2>3 DEF IdleStep
<1>10. ASSUME vTaskSwitchContext PROVE CoreTyped'
  BY <1>1, <1>10 DEF vTaskSwitchContext, CoreTyped, Highest
<1> QED
  BY <1>4, <1>5, <1>6, <1>8, <1>9, <1>10, NextCases

LEMMA TypedKept ==
  ASSUME Typed, Called, Locking, Placing, Holding, Next
  PROVE  Typed'
BY QueuesKept, CallsKept, CoreKept, PriosKept, PlacingKept DEF Typed, PlacedRight

-----------------------------------------------------------------------------
(* Holding.                                                                 *)

(* Of queue q neither the messages change in number nor the holder.         *)
SameHolding(q) ==
  /\ queue'[q].count = queue[q].count /\ queue'[q].holder = queue[q].holder
  /\ queue'[q].calls = queue[q].calls

(* What Holding says of one mutex, and of one task.                         *)
HeldAt(q) ==
  /\ queue[q].holder = NoTask <=> queue[q].count = 1
  /\ queue[q].holder = NoTask => queue[q].calls = 0
  /\ \A t \in Tasks : queue[q].holder = t =>
       (queue[q].calls > 0 <=> Nests(t, q) /\ ~Outermost(t, q))
Gives(t) ==
  \/ pc[t] = "count"
  \/ pc[t] # "run" /\ Sends(loc[t].op) /\ loc[t].queue \in Mutexes
HoldsAt(t) == Gives(t) => queue[loc[t].queue].holder = t

LEMMA HoldingParts ==
  Holding <=> /\ \A q \in Queues \ Mutexes : queue[q].holder = NoTask /\ queue[q].calls = 0
              /\ \A q \in Mutexes : HeldAt(q)
              /\ \A t \in Tasks : HoldsAt(t)
BY Zenon DEF Holding, HeldAt, Gives, HoldsAt

(* The tasks stay where they are as far as their mutexes go.                *)
LEMMA HoldingStays ==
  ASSUME Typed, Holding, \A q \in Queues : SameHolding(q),
         \A t \in Tasks : /\ pc'[t] = "run" <=> pc[t] = "run"
                          /\ pc'[t] = "count" <=> pc[t] = "count"
                          /\ loc'[t].op = loc[t].op /\ loc'[t].queue = loc[t].queue
  PROVE  Holding'
<1>1. Mutexes \subseteq Queues /\ \A t \in Tasks : loc[t].queue \in Queues
  BY LocalsOf DEF Mutexes
<1>2. \A t \in Tasks, q \in Mutexes : Outermost(t, q)' <=> Outermost(t, q)
  BY DEF Outermost
<1>3. \A q \in Mutexes : HeldAt(q)'
  BY <1>1, <1>2, HoldingParts DEF HeldAt, SameHolding
<1>4. \A t \in Tasks : HoldsAt(t)'
  BY <1>1, HoldingParts DEF HoldsAt, Gives, SameHolding
<1>5. \A q \in Queues \ Mutexes : queue'[q].holder = NoTask /\ queue'[q].calls = 0
  BY HoldingParts DEF SameHolding
<1> QED
  BY <1>3, <1>4, <1>5 DEF Holding, HeldAt, Gives, HoldsAt

LEMMA HoldingFrame ==
  ASSUME Typed, Holding, UNCHANGED <<queue, pc, loc>>
  PROVE  Holding'
BY HoldingStays DEF SameHolding

(* Task t goes to l: what is left to show is what concerns it, and the      *)
(* queue it uses.                                                           *)
LEMMA HoldingMoves ==
  ASSUME Typed, Holding, NEW t \in Tasks, NEW l, Goes(t, l), NEW q \in Queues,
         \A p \in Queues \ {q} : SameHolding(p),
         \A p \in Mutexes \ {q} : ~Outermost(t, p) /\ ~Outermost(t, p)',
         q \in Mutexes => HeldAt(q)',
         q \notin Mutexes => queue'[q].holder = NoTask /\ queue'[q].calls = 0,
         HoldsAt(t)',
         \A x \in Tasks \ {t} : queue[q].holder = x => queue'[q].holder = x
  PROVE  Holding'
<1>1. Mutexes \subseteq Queues /\ \A x \in Tasks : loc[x].queue \in Queues
  BY LocalsOf DEF Mutexes
<1>2. ASSUME NEW x \in Tasks, NEW p \in Mutexes \ {q}
      PROVE  Outermost(x, p)' <=> Outermost(x, p)
  BY DEF Outermost, Goes
<1>3. ASSUME NEW p \in Mutexes PROVE HeldAt(p)'
  BY <1>1, <1>2, <1>3, HoldingParts DEF HeldAt, SameHolding
<1>4. ASSUME NEW x \in Tasks \ {t} PROVE HoldsAt(x)'
  <2>1. pc'[x] = pc[x] /\ loc'[x] = loc[x]
    BY DEF Goes
  <2>2. loc[x].queue \in Queues /\ HoldsAt(x)
    BY <1>1, HoldingParts
  <2> QED
    BY <2>1, <2>2 DEF HoldsAt, Gives, SameHolding
<1>5. \A p \in Queues \ Mutexes : queue'[p].holder = NoTask /\ queue'[p].calls = 0
  BY HoldingParts DEF SameHolding
<1> QED
  BY <1>3, <1>4, <1>5 DEF Holding, HeldAt, Gives, HoldsAt

(* Only a task that gives a mutex back counts on it to have no calls left.  *)
LEMMA NotNested ==
  ASSUME Typed, Called, NEW t \in Tasks, pc[t] # "run",
         loc[t].op \notin {"take", "give", "peek"}
  PROVE  ~Nests(t, loc[t].queue)
<1>1. PICK w \in Waits : <<t, loc[t].op, loc[t].queue, w>> \in Calls
  BY DEF Called, CalledAt
<1>2. ASSUME NEW c \in Calls, Recursive(c), c[1] = t, c[3] = loc[t].queue PROVE FALSE
  <2> DEFINE d == <<t, loc[t].op, loc[t].queue, w>>
  <2>1. d \in Calls /\ c[1] = d[1] /\ c[3] = d[3] /\ d[2] = loc[t].op
    BY <1>1, <1>2
  <2> HIDE DEF d
  <2> QED
    BY <1>2, <2>1, QueueAssumption
<1> QED
  BY <1>2 DEF Nests

(* The call is over, or begins, and the queues stay as they are.            *)
LEMMA HoldingReturns ==
  ASSUME Typed, Holding, NEW t \in Tasks, Goes(t, "run"), pc[t] # "count",
         loc[t].op # "give", UNCHANGED queue
  PROVE  Holding'
<1>1. \A p \in Queues : ~Outermost(t, p) /\ ~Outermost(t, p)' /\ SameHolding(p)
  BY DEF Outermost, SameHolding, Goes
<1>2. ASSUME NEW p \in Mutexes PROVE HeldAt(p)'
  <2>1. p \in Queues /\ HeldAt(p)
    BY HoldingParts DEF Mutexes
  <2>2. \A x \in Tasks : Outermost(x, p)' <=> Outermost(x, p)
    BY <1>1, <2>1 DEF Outermost, Goes
  <2> QED
    BY <2>1, <2>2 DEF HeldAt
<1>3. HoldsAt(t)'
  BY DEF HoldsAt, Gives, Goes
<1>4. NoLocals.queue \in Queues
  BY ConstantsTyped
<1>5. \A p \in Queues \ Mutexes : queue'[p].holder = NoTask /\ queue'[p].calls = 0
  BY HoldingParts
<1>6. Mutexes \subseteq Queues
  BY DEF Mutexes
<1> QED
  BY <1>1, <1>2, <1>3, <1>4, <1>5, <1>6, HoldingMoves

(* A mutex is a queue of one place, taken while it has a holder.            *)
LEMMA MutexFields ==
  ASSUME Typed, Holding, NEW q \in Mutexes
  PROVE  /\ q \in Queues /\ Kind[q] = "mutex" /\ Capacity[q] = 1
         /\ queue[q].count \in {0, 1} /\ queue[q].calls \in Nat
         /\ queue[q].holder \in Tasks \cup {NoTask}
         /\ queue[q].holder = NoTask <=> queue[q].count = 1
         /\ queue[q].holder = NoTask => queue[q].calls = 0
<1>1. q \in Queues /\ Kind[q] = "mutex" /\ Capacity[q] = 1
  BY ConstantsTyped DEF Mutexes
<1>2. RecordOK(q, queue[q])
  BY <1>1 DEF Typed, QueuesTyped
<1>3. /\ queue[q].count \in {0, 1} /\ queue[q].calls \in Nat
      /\ queue[q].holder \in Tasks \cup {NoTask}
  BY <1>1, <1>2, ConstantsTyped DEF RecordOK, QueueRecords
<1> QED
  BY <1>1, <1>3 DEF Holding

LEMMA HoldingCall ==
  ASSUME Typed, Called, Holding, NEW t \in Tasks, CallStep(t)
  PROVE  Holding'
<1>1. PICK op \in Operations, q \in Queues, w \in Waits :
             /\ <<t, op, q, w>> \in Calls
             /\ \/ Call(t, op, q, w)
                \/ op = "take" /\ TakeRecursive(t, q, w)
                \/ op = "give" /\ GiveRecursive(t, q)
  BY DEF CallStep
<1>2. pc[t] = "run" /\ \A p \in Queues : ~Outermost(t, p)
  BY <1>1 DEF Call, TakeRecursive, GiveRecursive, At, Outermost
(* Another call than a give begins, for which the queues stay.              *)
<1>3. ASSUME NEW o \in Operations \ {"give"}, NEW x \in Items, NEW v \in Waits,
             Begin(t, o, q, x, v), UNCHANGED queue,
             Sends(o) /\ q \in Mutexes => queue[q].holder = t
      PROVE  Holding'
  <2>1. Goes(t, "try") /\ loc'[t].op = o /\ loc'[t].queue = q
    BY <1>3, BeginGoes
  <2>2. \A p \in Queues : ~Outermost(t, p)' /\ SameHolding(p)
    BY <1>3, <2>1 DEF Outermost, Goes, SameHolding
  <2>3. q \in Mutexes => HeldAt(q)'
    <3>1. \A y \in Tasks : Outermost(y, q)' <=> Outermost(y, q)
      BY <1>2, <2>1, <2>2 DEF Outermost, Goes
    <3> QED
      BY <1>3, <3>1, HoldingParts DEF HeldAt
  <2>4. HoldsAt(t)'
    BY <1>3, <2>1 DEF HoldsAt, Gives, Goes
  <2>5. q \notin Mutexes => queue'[q].holder = NoTask /\ queue'[q].calls = 0
    BY <1>3, HoldingParts
  <2>6. Mutexes \subseteq Queues
    BY DEF Mutexes
  <2> QED
    BY <1>2, <1>3, <2>1, <2>2, <2>3, <2>4, <2>5, <2>6, HoldingMoves
<1>4. ASSUME op \in {"take", "give"} PROVE q \in Mutexes /\ Nests(t, q)
  <2> DEFINE c == <<t, op, q, w>>
  <2>1. c \in Calls /\ c[1] = t /\ c[2] = op /\ c[3] = q
    BY <1>1
  <2> HIDE DEF c
  <2>2. Recursive(c)
    BY <1>4, <2>1 DEF Recursive
  <2> QED
    BY <2>1, <2>2, QueueAssumption DEF Nests
(* The holder counts up or down, and stays in its own code.                 *)
<1>5. ASSUME q \in Mutexes, Nests(t, q), queue[q].holder = t, NEW n \in 0 .. MaxNesting,
             n > 0, queue' = [queue EXCEPT ![q].calls = n], UNCHANGED <<pc, loc>>
      PROVE  Holding'
  <2>1. Becomes(q, queue[q].count, queue[q].holder, n, queue[q].rxLock, queue[q].txLock)
    BY <1>5, CountQueue
  <2>2. Goes(t, "run")
    BY <1>2, <1>5 DEF Goes, Typed, CallsTyped
  <2>3. \A p \in Queues : ~Outermost(t, p)'
    BY <1>2, <1>5 DEF Outermost
  <2>4. HeldAt(q)'
    <3>1. HeldAt(q)
      BY <1>5, HoldingParts
    <3> QED
      BY <1>5, <2>1, <2>3, <3>1, ConstantsTyped DEF HeldAt, Becomes
  <2>5. HoldsAt(t)'
    BY <2>2 DEF HoldsAt, Gives, Goes
  <2>6. Mutexes \subseteq Queues /\ \A p \in Queues \ {q} : SameHolding(p)
    BY <2>1 DEF Mutexes, Becomes, SameHolding
  <2>7. queue'[q].holder = queue[q].holder
    BY <2>1 DEF Becomes
  <2> QED
    BY <1>2, <1>5, <2>2, <2>3, <2>4, <2>5, <2>6, <2>7, HoldingMoves
<1>6. NoLocals.item \in Items /\ "none" \in Waits
  BY ConstantsTyped DEF Waits
<1>7. CASE Call(t, op, q, w)
  <2>1. PICK x \in Items : Begin(t, op, q, x, w)
    BY <1>7 DEF Call
  <2>2. op # "give" /\ UNCHANGED queue
    BY <1>7 DEF Call
  <2>3. Sends(op) /\ q \in Mutexes => queue[q].holder = t
    BY <1>7, ConstantsTyped DEF Call
  <2> QED
    BY <1>3, <2>1, <2>2, <2>3
<1>8. CASE op = "take" /\ TakeRecursive(t, q, w) /\ queue[q].holder = t
  <2>1. /\ queue' = [queue EXCEPT ![q].calls = queue[q].calls + 1]
        /\ queue[q].calls < MaxNesting /\ UNCHANGED <<pc, loc>>
    BY <1>8 DEF TakeRecursive
  <2>2. queue[q].calls \in Nat /\ q \in Mutexes /\ Nests(t, q)
    BY <1>4, <1>8, MutexFields
  <2>3. queue[q].calls + 1 \in 0 .. MaxNesting /\ queue[q].calls + 1 > 0
    BY <2>1, <2>2, ConstantsTyped
  <2> QED
    BY <1>5, <1>8, <2>1, <2>2, <2>3
<1>9. CASE op = "take" /\ TakeRecursive(t, q, w) /\ queue[q].holder # t
  <2>1. Begin(t, "take", q, NoLocals.item, w) /\ UNCHANGED queue
    BY <1>9 DEF TakeRecursive
  <2>2. ~Sends("take") /\ "take" \in Operations \ {"give"}
    BY DEF Sends, Operations
  <2> QED
    BY <1>3, <1>6, <2>1, <2>2
<1>10. CASE op = "give" /\ GiveRecursive(t, q)
  <2>1. /\ queue' = [queue EXCEPT ![q].calls = queue[q].calls - 1]
        /\ queue[q].holder = t
    BY <1>10 DEF GiveRecursive
  <2>2. queue[q].calls \in Nat /\ q \in Mutexes /\ Nests(t, q)
    BY <1>4, <1>10, MutexFields
  <2>3. queue[q].calls > 0 /\ queue[q].calls \in 0 .. MaxNesting
    <3>1. HeldAt(q) /\ q \in Queues
      BY <2>2, HoldingParts
    <3> QED
      BY <1>2, <2>1, <2>2, <3>1 DEF HeldAt, Typed, QueuesTyped, RecordOK
  <2>4. CASE queue[q].calls = 1
    <3>1. Begin(t, "give", q, NoLocals.item, "none")
      BY <1>10, <2>4 DEF GiveRecursive
    <3>2. Goes(t, "try") /\ loc'[t].op = "give" /\ loc'[t].queue = q
      BY <1>6, <3>1, BeginGoes DEF Operations
    <3>3. 0 \in 0 .. MaxNesting /\ queue' = [queue EXCEPT ![q].calls = 0]
      BY <2>1, <2>4, ConstantsTyped
    <3>4. Becomes(q, queue[q].count, queue[q].holder, 0, queue[q].rxLock, queue[q].txLock)
      BY <3>3, CountQueue
    <3>5. Outermost(t, q)' /\ \A p \in Queues \ {q} : ~Outermost(t, p)'
      BY <3>2 DEF Outermost, Goes
    <3>6. HeldAt(q)'
      <4>1. HeldAt(q)
        BY <2>2, HoldingParts
      <4> QED
        BY <2>1, <3>4, <3>5, <4>1, ConstantsTyped DEF HeldAt, Becomes
    <3>7. HoldsAt(t)'
      BY <2>1, <3>2, <3>4 DEF HoldsAt, Becomes
    <3>8. Mutexes \subseteq Queues /\ \A p \in Queues \ {q} : SameHolding(p)
      BY <3>4 DEF Mutexes, Becomes, SameHolding
    <3>9. queue'[q].holder = queue[q].holder
      BY <3>4 DEF Becomes
    <3> QED
      BY <1>2, <2>2, <3>2, <3>5, <3>6, <3>7, <3>8, <3>9, HoldingMoves
  <2>5. CASE queue[q].calls # 1
    <3>1. UNCHANGED <<pc, loc>>
      BY <1>10, <2>5 DEF GiveRecursive
    <3>2. queue[q].calls - 1 \in 0 .. MaxNesting /\ queue[q].calls - 1 > 0
      BY <2>2, <2>3, <2>5, ConstantsTyped
    <3> QED
      BY <1>5, <2>1, <2>2, <3>1, <3>2
  <2> QED
    BY <2>4, <2>5
<1> QED
  BY <1>1, <1>7, <1>8, <1>9, <1>10

LEMMA HoldingCounted ==
  ASSUME Typed, Called, Holding, NEW t \in Tasks, TakeCounted(t)
  PROVE  Holding'
<1>0. PICK q \in Queues : q = loc[t].queue
  BY LocalsOf
<1>1. /\ pc[t] = "count" /\ queue' = [queue EXCEPT ![q].calls = queue[q].calls + 1]
      /\ Goes(t, "run")
  BY <1>0, ReturnGoes DEF TakeCounted, At
<1>2. /\ q \in Queues /\ loc[t].op = "take"
      /\ \E w \in Waits : <<t, loc[t].op, q, w>> \in Calls
      /\ queue[q].holder = t
  BY <1>0, <1>1, LocalsOf, HoldingParts DEF Called, CalledAt, HoldsAt, Gives
<1>3. PICK w \in Waits : <<t, "take", q, w>> \in Calls
  BY <1>2
<1>4. q \in Mutexes /\ Nests(t, q) /\ MaxNesting > 0
  <2> DEFINE c == <<t, "take", q, w>>
  <2>1. c \in Calls /\ c[1] = t /\ c[2] = "take" /\ c[3] = q
    BY <1>3
  <2> HIDE DEF c
  <2>2. Recursive(c)
    BY <2>1 DEF Recursive
  <2> QED
    BY <1>0, <2>1, <2>2, QueueAssumption DEF Nests
<1>5. Outermost(t, q) /\ \A p \in Queues \ {q} : ~Outermost(t, p)
  BY <1>0, <1>1 DEF Outermost
<1>6. queue[q].calls = 0
  <2>1. HeldAt(q) /\ queue[q].calls \in Nat
    BY <1>4, HoldingParts, MutexFields
  <2> QED
    BY <1>2, <1>5, <2>1 DEF HeldAt
<1>7. 1 \in 0 .. MaxNesting /\ queue' = [queue EXCEPT ![q].calls = 1]
  BY <1>0, <1>1, <1>4, <1>6, ConstantsTyped
<1>8. Becomes(q, queue[q].count, queue[q].holder, 1, queue[q].rxLock, queue[q].txLock)
  BY <1>0, <1>2, <1>7, CountQueue
<1>9. \A p \in Queues : ~Outermost(t, p)'
  <2>1. pc'[t] = "run"
    BY <1>0, <1>1 DEF Goes
  <2> QED
    BY <1>0, <2>1 DEF Outermost
<1>10. HeldAt(q)'
  <2>1. HeldAt(q) /\ queue[q].holder # NoTask
    BY <1>2, <1>4, HoldingParts, ConstantsTyped
  <2> QED
    BY <1>2, <1>4, <1>8, <1>9, <2>1, ConstantsTyped DEF HeldAt, Becomes
<1>11. HoldsAt(t)'
  BY <1>0, <1>1 DEF HoldsAt, Gives, Goes
<1>12. Mutexes \subseteq Queues /\ \A p \in Queues \ {q} : SameHolding(p)
  BY <1>8 DEF Mutexes, Becomes, SameHolding
<1>13. queue'[q].holder = queue[q].holder
  BY <1>8 DEF Becomes
<1> QED
  BY <1>0, <1>1, <1>2, <1>4, <1>5, <1>9, <1>10, <1>11, <1>12, <1>13, HoldingMoves

(* A mutex that is given is free, and one that is taken has its holder.     *)
LEMMA HoldingSend ==
  ASSUME Typed, Called, Holding, NEW t \in Tasks, TrySend(t)
  PROVE  Holding'
<1>0. PICK q \in Queues : q = loc[t].queue
  BY LocalsOf
<1>1. /\ pc[t] = "try" /\ Sends(loc[t].op) /\ Goes(t, "run") /\ q \in Queues
  BY <1>0, ReturnGoes, LocalsOf DEF TrySend, At
<1>2. Becomes(q, queue[q].count + 1, NoTask, queue[q].calls, queue[q].rxLock,
              queue[q].txLock)
  BY <1>0, TrySendQueue
<1>3. q \in Mutexes => queue[q].holder = t
  BY <1>0, <1>1, HoldingParts DEF HoldsAt, Gives
<1>4. q \in Mutexes => queue[q].calls = 0
  <2>1. loc[t].op = "give" => Outermost(t, q)
    BY <1>0, <1>1 DEF Outermost
  <2>2. loc[t].op # "give" => ~Nests(t, q)
    BY <1>0, <1>1, NotNested DEF Sends
  <2>3. ASSUME q \in Mutexes PROVE HeldAt(q) /\ queue[q].calls \in Nat
    BY <2>3, HoldingParts, MutexFields
  <2> QED
    BY <1>3, <2>1, <2>2, <2>3 DEF HeldAt
<1>5. q \in Mutexes => queue[q].count = 0
  BY <1>3, MutexFields, ConstantsTyped
<1>6. \A p \in Queues : ~Outermost(t, p)'
  <2>1. pc'[t] = "run"
    BY <1>0, <1>1 DEF Goes
  <2> QED
    BY <1>0, <2>1 DEF Outermost
<1>7. \A p \in Queues \ {q} : ~Outermost(t, p)
  BY <1>0 DEF Outermost
<1>8. q \in Mutexes => HeldAt(q)'
  BY <1>0, <1>1, <1>2, <1>4, <1>5, ConstantsTyped DEF HeldAt, Becomes
<1>9. HoldsAt(t)'
  BY <1>0, <1>1 DEF HoldsAt, Gives, Goes
<1>10. Mutexes \subseteq Queues /\ \A p \in Queues \ {q} : SameHolding(p)
  BY <1>2 DEF Mutexes, Becomes, SameHolding
<1>11. q \notin Mutexes => queue'[q].holder = NoTask /\ queue'[q].calls = 0
  BY <1>0, <1>1, <1>2, HoldingParts DEF Becomes
<1>12. \A x \in Tasks \ {t} : queue[q].holder # x
  BY <1>0, <1>1, <1>3, HoldingParts, ConstantsTyped
<1> QED
  BY <1>0, <1>1, <1>6, <1>7, <1>8, <1>9, <1>10, <1>11, <1>12, HoldingMoves

LEMMA HoldingReceive ==
  ASSUME Typed, Called, Holding, NEW t \in Tasks, TryReceive(t)
  PROVE  Holding'
<1>0. PICK q \in Queues : q = loc[t].queue
  BY LocalsOf
<1> DEFINE l == IF loc[t].op = "take" THEN "count" ELSE "run"
<1>1. /\ pc[t] = "try" /\ loc[t].op \in {"receive", "take"} /\ q \in Queues
      /\ queue[q].count > 0
  BY <1>0, LocalsOf DEF TryReceive, At, HasItem
<1>2. Goes(t, l) /\ (loc[t].op = "take" => loc'[t] = loc[t])
  <2>1. "count" \in Labels
    BY DEF Labels
  <2> QED
    BY <1>0, <2>1, GotoGoes, ReturnGoes DEF TryReceive
<1>3. Becomes(q, queue[q].count - 1, IF Kind[q] = "mutex" THEN t ELSE queue[q].holder,
              queue[q].calls, queue[q].rxLock, queue[q].txLock)
  BY <1>0, TryReceiveQueue
<1>4. ASSUME q \in Mutexes
      PROVE  queue[q].count = 1 /\ queue[q].holder = NoTask /\ queue[q].calls = 0
  BY <1>0, <1>1, <1>4, MutexFields
<1>5. loc[t].op = "take" => q \in Mutexes
  <2>1. PICK w \in Waits : <<t, loc[t].op, q, w>> \in Calls
    BY <1>0, <1>1 DEF Called, CalledAt
  <2> DEFINE c == <<t, loc[t].op, q, w>>
  <2>2. c \in Calls /\ c[2] = loc[t].op /\ c[3] = q
    BY <2>1
  <2> HIDE DEF c
  <2> QED
    BY <1>0, <2>2, QueueAssumption DEF Recursive
<1>6. /\ loc[t].op = "take" => Outermost(t, q)'
      /\ loc[t].op # "take" => ~Nests(t, q)
      /\ \A p \in Queues \ {q} : ~Outermost(t, p) /\ ~Outermost(t, p)'
  <2>1. loc[t].op = "take" => Outermost(t, q)'
    BY <1>0, <1>2 DEF Outermost, Goes
  <2>2. loc[t].op # "take" => ~Nests(t, q)
    BY <1>0, <1>1, NotNested
  <2>3. \A p \in Queues \ {q} : ~Outermost(t, p)
    BY <1>0 DEF Outermost
  <2>4. \A p \in Queues \ {q} : ~Outermost(t, p)'
    BY <1>0, <1>2 DEF Outermost, Goes
  <2> QED
    BY <2>1, <2>2, <2>3, <2>4
<1>7. ASSUME q \in Mutexes PROVE HeldAt(q)'
  <2>1. /\ queue'[q].count = 0 /\ queue'[q].holder = t /\ queue'[q].calls = 0
    BY <1>3, <1>4, <1>7, ConstantsTyped DEF Becomes, Mutexes
  <2> QED
    BY <1>6, <2>1, ConstantsTyped DEF HeldAt
<1>8. HoldsAt(t)'
  <2>1. CASE loc[t].op = "take"
    <3>1. loc'[t].queue = q /\ queue'[q].holder = t
      BY <1>0, <1>2, <1>3, <1>5, <2>1 DEF Becomes, Mutexes
    <3> QED
      BY <3>1 DEF HoldsAt
  <2>2. CASE loc[t].op # "take"
    BY <1>2, <2>2 DEF HoldsAt, Gives, Goes
  <2> QED
    BY <2>1, <2>2
<1>9. Mutexes \subseteq Queues /\ \A p \in Queues \ {q} : SameHolding(p)
  BY <1>3 DEF Mutexes, Becomes, SameHolding
<1>10. q \notin Mutexes => queue'[q].holder = NoTask /\ queue'[q].calls = 0
  BY <1>0, <1>1, <1>3, HoldingParts, ConstantsTyped DEF Becomes
<1>11. \A x \in Tasks : queue[q].holder # x
  BY <1>0, <1>1, <1>4, HoldingParts, ConstantsTyped
<1> QED
  BY <1>0, <1>1, <1>2, <1>6, <1>7, <1>8, <1>9, <1>10, <1>11, HoldingMoves

LEMMA HoldingTry ==
  ASSUME Typed, Called, Holding, NEW t \in Tasks, TryStep(t)
  PROVE  Holding'
<1>1. CASE TryPeek(t)
  <2>1. Goes(t, "run") /\ pc[t] = "try" /\ loc[t].op = "peek" /\ UNCHANGED queue
    BY <1>1, ReturnGoes DEF TryPeek, At
  <2> QED
    BY <2>1, HoldingReturns
<1>2. CASE TryLater(t) /\ loc[t].wait = "none"
  <2>1. /\ Goes(t, "run") /\ pc[t] = "try" /\ UNCHANGED queue
        /\ ~Ready(loc[t].op, loc[t].queue)
    BY <1>2, ReturnGoes DEF TryLater, At
(* A give finds room, for its task holds the mutex.                         *)
  <2>2. ASSUME loc[t].op = "give" PROVE FALSE
    <3> DEFINE q == loc[t].queue
    <3>1. PICK w \in Waits : <<t, "give", q, w>> \in Calls
      BY <2>1, <2>2 DEF Called, CalledAt
    <3>2. q \in Mutexes
      <4> DEFINE c == <<t, "give", q, w>>
      <4>1. c \in Calls /\ c[2] = "give" /\ c[3] = q
        BY <3>1
      <4> HIDE DEF c, q
      <4> QED
        BY <4>1, QueueAssumption DEF Recursive
    <3>3. queue[q].holder = t
      BY <2>1, <2>2, <3>2, HoldingParts DEF HoldsAt, Gives, Sends
    <3>4. queue[q].count = 0 /\ Capacity[q] = 1
      BY <3>2, <3>3, MutexFields, ConstantsTyped
    <3> QED
      BY <2>1, <2>2, <3>4 DEF Ready, Sends, HasRoom
  <2> QED
    BY <2>1, <2>2, HoldingReturns
<1>3. CASE TryLater(t) /\ loc[t].wait # "none"
  <2>1. PICK l \in {"wait", "suspend"} :
               Goto(t, l) /\ loc' = [loc EXCEPT ![t].timed = TRUE]
    BY <1>3 DEF TryLater
  <2>2. Goes(t, l) /\ SameCall(t) /\ UNCHANGED queue /\ pc[t] = "try"
    BY <1>3, <2>1, TimedGoes DEF TryLater, At, Labels
  <2> QED
    BY <2>2, HoldingStays DEF Goes, SameCall, SameHolding
<1> QED
  BY <1>1, <1>2, <1>3, HoldingSend, HoldingReceive DEF TryStep

LEMMA HoldingWait ==
  ASSUME Typed, Called, Holding, NEW t \in Tasks, WaitStep(t) \/ AltStep(t)
  PROVE  Holding'
<1> USE DEF At
<1> DEFINE q == loc[t].queue
           Quiet == {"suspend", "lock", "check", "test", "inherit", "place",
                     "unlockTx", "unlockRx", "resume", "wait", "try"}
<1>1. Quiet \subseteq Labels /\ "run" \notin Quiet /\ "count" \notin Quiet
  BY DEF Labels, Sections
<1>2. ASSUME NEW l \in Quiet, pc[t] \in Quiet, Goes(t, l), SameCall(t),
             \A p \in Queues : SameHolding(p)
      PROVE  Holding'
  BY <1>1, <1>2, HoldingStays DEF Goes, SameCall
<1>3. ASSUME NEW l \in Quiet, Goto(t, l), UNCHANGED loc
      PROVE  Goes(t, l) /\ SameCall(t)
  BY <1>1, <1>3, GotoGoes DEF SameCall
<1>4. ASSUME NEW l \in Quiet, pc[t] \in Quiet, Goto(t, l), UNCHANGED <<queue, loc>>
      PROVE  Holding'
  BY <1>2, <1>3, <1>4 DEF SameHolding
<1>5. ASSUME NEW then \in {"fail", "retry", "block"}, NEW late \in BOOLEAN,
             pc[t] \in Quiet, Leave(t, then, late), UNCHANGED queue
      PROVE  Holding'
  BY <1>2, <1>5, LeaveGoes DEF SameHolding
<1>6. ASSUME pc[t] \in Quiet \ {"try"} PROVE loc[t].op # "give" /\ pc[t] # "count"
  BY <1>1, <1>6 DEF Called, CalledAt
<1>7. CASE vTaskSuspendAll(t) \/ vTaskPriorityInherit(t) \/ AltBlock(t)
  BY <1>4, <1>7 DEF vTaskSuspendAll, vTaskPriorityInherit, AltBlock
<1>8. CASE xTaskCheckForTimeOut(t)
  BY <1>4, <1>5, <1>8 DEF xTaskCheckForTimeOut
<1>9. CASE TestQueue(t)
  BY <1>4, <1>5, <1>9 DEF TestQueue
<1>10. CASE vTaskPlaceOnEventList(t)
  BY <1>5, <1>10 DEF vTaskPlaceOnEventList
<1>11. CASE prvLockQueue(t)
  <2>1. \A p \in Queues : SameHolding(p)
    BY <1>11, LockQueue DEF Becomes, SameHolding
  <2> QED
    BY <1>2, <1>3, <1>11, <2>1 DEF prvLockQueue
<1>12. CASE UnlockTx(t)
  <2>1. \A p \in Queues : SameHolding(p)
    BY <1>12, UnlockTxQueue DEF Becomes, SameHolding
  <2> QED
    BY <1>2, <1>3, <1>12, <2>1 DEF UnlockTx, Replay
<1>13. CASE UnlockRx(t)
  <2>1. \A p \in Queues : SameHolding(p)
    BY <1>13, UnlockRxQueue DEF Becomes, SameHolding
  <2> QED
    BY <1>2, <1>3, <1>13, <2>1 DEF UnlockRx, Replay
<1>14. CASE AltExpired(t)
  BY <1>6, <1>14, ReturnGoes, HoldingReturns DEF AltExpired
<1>15. CASE xTaskResumeAll(t)
  <2>1. PICK late :
          IF loc[t].then = "fail"
          THEN Goto(t, "run") /\ loc' = [Lately(late) EXCEPT ![t] = NoLocals]
          ELSE Goto(t, "try") /\ loc' = Lately(late)
    BY <1>15 DEF xTaskResumeAll
  <2>2. pc[t] = "resume" /\ UNCHANGED queue /\ loc[t].op # "give"
    BY <1>6, <1>15 DEF xTaskResumeAll
  <2> DEFINE f == Lately(late)
  <2>3. /\ f \in [Tasks -> Locals] /\ pc \in [Tasks -> Labels]
        /\ \A x \in Tasks : f[x].op = loc[x].op /\ f[x].queue = loc[x].queue
    BY LatelyFields DEF Typed, CallsTyped
  <2>4. loc' = f \/ (loc' = [f EXCEPT ![t] = NoLocals] /\ Goto(t, "run"))
    BY <2>1
  <2>5. Goto(t, "run") \/ (Goto(t, "try") /\ loc' = f)
    BY <2>1
  <2> HIDE DEF f
  <2>6. \A x \in Tasks \ {t} : pc'[x] = pc[x] /\ loc'[x].op = loc[x].op
                               /\ loc'[x].queue = loc[x].queue
    BY <2>3, <2>4, <2>5 DEF Goto
  <2>7. \/ pc'[t] = "run"
        \/ pc'[t] = "try" /\ loc'[t].op = loc[t].op /\ loc'[t].queue = loc[t].queue
    BY <2>3, <2>5 DEF Goto
  <2>8. ASSUME NEW x \in Tasks, NEW p PROVE Outermost(x, p)' <=> Outermost(x, p)
    BY <2>2, <2>6, <2>7 DEF Outermost
  <2>9. ASSUME NEW x \in Tasks PROVE HoldsAt(x)'
    <3>1. HoldsAt(x)
      BY HoldingParts
    <3> QED
      BY <2>2, <2>6, <2>7, <3>1 DEF HoldsAt, Gives
  <2>10. ASSUME NEW p \in Mutexes PROVE HeldAt(p)'
    <3>1. HeldAt(p)
      BY HoldingParts
    <3> QED
      BY <2>2, <2>8, <3>1 DEF HeldAt
  <2>11. \A p \in Queues \ Mutexes : queue'[p].holder = NoTask /\ queue'[p].calls = 0
    BY <2>2, HoldingParts
  <2> QED
    BY <2>9, <2>10, <2>11 DEF Holding, HeldAt, HoldsAt, Gives
<1> QED
  BY <1>7, <1>8, <1>9, <1>10, <1>11, <1>12, <1>13, <1>14, <1>15 DEF WaitStep, AltStep

LEMMA HoldingKept ==
  ASSUME Typed, Called, Holding, Next
  PROVE  Holding'
<1>1. ASSUME NEW t \in Tasks, OtherStep(t) PROVE Holding'
  BY <1>1, HoldingFrame DEF OtherStep, vTaskPrioritySet, vTaskSuspend, vTaskResume,
     vTaskDelete
<1>2. ASSUME NEW late, loc' = Lately(late), UNCHANGED <<queue, pc>> PROVE Holding'
  BY <1>2, LatelyFields, HoldingStays DEF SameHolding
<1>3. ASSUME IdleStep PROVE Holding'
  BY <1>2, <1>3, HoldingFrame DEF IdleStep, CheckTermination, CheckedTermination,
     prvDeleteTCB
<1>4. ASSUME IsrStep PROVE Holding'
  <2>1. CASE \E x \in Tasks : xTaskResumeFromISR(x)
    BY <2>1, HoldingFrame DEF xTaskResumeFromISR
(* No interrupt uses a mutex.                                               *)
  <2>2. ASSUME NEW q \in Queues \ Mutexes, NEW count, NEW holder, NEW rxLock, NEW txLock,
               holder = queue[q].holder,
               Becomes(q, count, holder, queue[q].calls, rxLock, txLock),
               UNCHANGED <<pc, loc>>
        PROVE  Holding'
    <3>1. \A p \in Queues \ {q} : SameHolding(p)
      BY <2>2 DEF Becomes, SameHolding
    <3>2. /\ queue[q].holder = NoTask /\ queue[q].calls = 0
          /\ queue'[q].holder = NoTask /\ queue'[q].calls = 0
      BY <2>2, HoldingParts DEF Becomes
    <3>3. Mutexes \subseteq Queues \ {q}
      BY DEF Mutexes
    <3>4. \A x \in Tasks, p \in Mutexes : Outermost(x, p)' <=> Outermost(x, p)
      BY <2>2 DEF Outermost
    <3>5. ASSUME NEW p \in Mutexes PROVE HeldAt(p)'
      <4>1. HeldAt(p) /\ SameHolding(p)
        BY <3>1, <3>3, HoldingParts
      <4> QED
        BY <3>4, <4>1 DEF HeldAt, SameHolding
    <3>6. ASSUME NEW x \in Tasks PROVE HoldsAt(x)'
      <4>1. HoldsAt(x) /\ loc[x].queue \in Queues
        BY HoldingParts, LocalsOf
      <4>2. queue'[loc[x].queue].holder = queue[loc[x].queue].holder
        BY <3>1, <3>2, <4>1 DEF SameHolding
      <4> QED
        BY <2>2, <4>1, <4>2 DEF HoldsAt, Gives
    <3>7. \A p \in Queues \ Mutexes : queue'[p].holder = NoTask /\ queue'[p].calls = 0
      BY <3>1, <3>2, HoldingParts DEF SameHolding
    <3> QED
      BY <3>5, <3>6, <3>7 DEF Holding, HeldAt, HoldsAt, Gives
  <2>3. ASSUME NEW q \in Queues \ Mutexes, NEW x \in Items, NEW op,
               xQueueGenericSendFromISR(q, x, op)
        PROVE  Holding'
    <3>1. queue[q].holder = NoTask
      BY HoldingParts
    <3>2. Becomes(q, queue[q].count + 1, NoTask, queue[q].calls, queue[q].rxLock,
                  Counted(queue[q].txLock))
      BY <2>3, SendFromISRQueue
    <3>3. UNCHANGED <<pc, loc>>
      BY <2>3 DEF xQueueGenericSendFromISR
    <3> QED
      BY <2>2, <3>1, <3>2, <3>3
  <2>4. ASSUME NEW q \in Queues \ Mutexes, xQueueReceiveFromISR(q) PROVE Holding'
    <3>1. Becomes(q, queue[q].count - 1, queue[q].holder, queue[q].calls,
                  Counted(queue[q].rxLock), queue[q].txLock)
      BY <2>4, ReceiveFromISRQueue
    <3>2. UNCHANGED <<pc, loc>>
      BY <2>4 DEF xQueueReceiveFromISR
    <3> QED
      BY <2>2, <3>1, <3>2
  <2> QED
    BY <1>4, <2>1, <2>3, <2>4 DEF IsrStep
<1>5. ASSUME vTaskSwitchContext PROVE Holding'
  BY <1>5, HoldingFrame DEF vTaskSwitchContext
<1> QED
  BY <1>1, <1>3, <1>4, <1>5, HoldingCall, HoldingCounted, HoldingTry, HoldingWait, NextCases

-----------------------------------------------------------------------------
(* Restored.                                                                *)

(* Whoever holds a mutex keeps it.                                          *)
HoldersKept == \A q \in Mutexes, x \in Tasks :
                 queue[q].holder = x => queue'[q].holder = x

(* Only a send and a receive change the holder of a mutex.                  *)
SameHolders == \A q \in Mutexes : queue'[q].holder = queue[q].holder

LEMMA HoldersMove ==
  ASSUME Typed, Called, Holding, Next,
         \A t \in Tasks : ~TrySend(t) /\ ~TryReceive(t)
  PROVE  SameHolders
<1>1. Mutexes \subseteq Queues
  BY DEF Mutexes
<1>2. ASSUME UNCHANGED queue PROVE SameHolders
  BY <1>2 DEF SameHolders
<1>3. ASSUME NEW q \in Queues, NEW count, NEW holder, NEW calls, NEW rxLock, NEW txLock,
             holder = queue[q].holder, Becomes(q, count, holder, calls, rxLock, txLock)
      PROVE  SameHolders
  BY <1>1, <1>3 DEF Becomes, SameHolders
<1>4. ASSUME NEW q \in Queues, NEW n \in Int, queue' = [queue EXCEPT ![q].calls = n]
      PROVE  SameHolders
  <2>1. queue \in [Queues -> QueueRecords]
    BY DEF Typed, QueuesTyped
  <2> QED
    BY <1>1, <1>4, <2>1 DEF SameHolders, QueueRecords
<1>5. \A q \in Queues : queue[q].calls \in Int
  BY DEF Typed, QueuesTyped, RecordOK
<1>6. ASSUME NEW t \in Tasks, CallStep(t) PROVE SameHolders
  <2>1. PICK op \in Operations, q \in Queues, w \in Waits :
               Call(t, op, q, w) \/ TakeRecursive(t, q, w) \/ GiveRecursive(t, q)
    BY <1>6 DEF CallStep
  <2>2. queue[q].calls + 1 \in Int /\ queue[q].calls - 1 \in Int
    BY <1>5
  <2> QED
    BY <1>2, <1>4, <2>1, <2>2 DEF Call, TakeRecursive, GiveRecursive
<1>7. ASSUME NEW t \in Tasks, TakeCounted(t) PROVE SameHolders
  <2>1. loc[t].queue \in Queues /\ queue[loc[t].queue].calls + 1 \in Int
    BY <1>5, LocalsOf
  <2> QED
    BY <1>4, <1>7, <2>1 DEF TakeCounted
<1>8. ASSUME NEW t \in Tasks, TryStep(t) PROVE SameHolders
  BY <1>2, <1>8 DEF TryStep, TryPeek, TryLater
<1>9. ASSUME NEW t \in Tasks, WaitStep(t) PROVE SameHolders
  <2>1. loc[t].queue \in Queues
    BY LocalsOf
  <2>2. CASE prvLockQueue(t)
    BY <1>3, <2>1, <2>2, LockQueue
  <2>3. CASE UnlockTx(t)
    BY <1>3, <2>1, <2>3, UnlockTxQueue
  <2>4. CASE UnlockRx(t)
    BY <1>3, <2>1, <2>4, UnlockRxQueue
  <2>5. CASE \/ vTaskSuspendAll(t) \/ xTaskCheckForTimeOut(t) \/ TestQueue(t)
             \/ vTaskPriorityInherit(t) \/ vTaskPlaceOnEventList(t) \/ xTaskResumeAll(t)
    BY <1>2, <2>5 DEF vTaskSuspendAll, xTaskCheckForTimeOut, TestQueue,
       vTaskPriorityInherit, vTaskPlaceOnEventList, xTaskResumeAll
  <2> QED
    BY <1>9, <2>2, <2>3, <2>4, <2>5 DEF WaitStep
<1>10. ASSUME NEW t \in Tasks, AltStep(t) \/ OtherStep(t) PROVE SameHolders
  BY <1>2, <1>10 DEF AltStep, OtherStep, AltExpired, AltBlock, vTaskPrioritySet,
     vTaskSuspend, vTaskResume, vTaskDelete
<1>11. ASSUME IdleStep \/ vTaskSwitchContext PROVE SameHolders
  BY <1>2, <1>11 DEF IdleStep, CheckTermination, CheckedTermination, prvDeleteTCB,
     vTaskSwitchContext
<1>12. ASSUME IsrStep PROVE SameHolders
  <2>1. ASSUME NEW q \in Queues \ Mutexes, NEW x \in Items, NEW op,
               xQueueGenericSendFromISR(q, x, op)
        PROVE  SameHolders
    <3>1. queue[q].holder = NoTask
      BY HoldingParts
    <3> QED
      BY <1>3, <2>1, <3>1, SendFromISRQueue
  <2>2. ASSUME NEW q \in Queues \ Mutexes, xQueueReceiveFromISR(q) PROVE SameHolders
    BY <1>3, <2>2, ReceiveFromISRQueue
  <2> QED
    BY <1>2, <1>12, <2>1, <2>2 DEF IsrStep, xTaskResumeFromISR
<1> QED
  BY <1>6, <1>7, <1>8, <1>9, <1>10, <1>11, <1>12, NextCases

LEMMA HoldersStay ==
  ASSUME Typed, Called, Holding, Next, \A t \in Tasks : ~TrySend(t)
  PROVE  HoldersKept
<1>1. ASSUME NEW t \in Tasks, TryReceive(t) PROVE HoldersKept
  <2>1. PICK q \in Queues : q = loc[t].queue
    BY LocalsOf
  <2>2. q \in Mutexes => queue[q].holder = NoTask
    BY <1>1, <2>1, MutexFields DEF TryReceive, HasItem
  <2>3. \A p \in Queues \ {q} : queue'[p] = queue[p]
    BY <1>1, <2>1, TryReceiveQueue DEF Becomes
  <2> QED
    BY <2>2, <2>3, ConstantsTyped DEF HoldersKept, Mutexes
<1> QED
  BY <1>1, HoldersMove DEF HoldersKept, SameHolders

(* What Restored says of a task.                                            *)
RestoredAt(t) ==
  /\ priority[t] # base[t] => \E q \in Mutexes : queue[q].holder = t
  /\ home[t] \in Levels => home[t] = priority[t]
  /\ priority[t] = base[t] => value[t] = MaxPriorities - priority[t]

LEMMA RestoredParts ==
  Restored <=> \A t \in Tasks : RestoredAt(t)
BY Zenon DEF Restored, RestoredAt

(* The priorities stay, and tasks are readied at their priority.            *)
LEMMA RestoredStays ==
  ASSUME Restored, HoldersKept, UNCHANGED prios,
         \A x \in Tasks : \/ home'[x] = home[x] \/ home'[x] = priority[x]
                          \/ home'[x] \notin Levels
  PROVE  Restored'
<1>1. ASSUME NEW x \in Tasks PROVE RestoredAt(x)'
  <2>1. RestoredAt(x)
    BY RestoredParts
  <2>2. priority' = priority /\ base' = base /\ value' = value
    BY DEF prios
  <2>3. \A q \in Mutexes : queue[q].holder = x => queue'[q].holder = x
    BY DEF HoldersKept
  <2> QED
    BY <2>1, <2>2, <2>3 DEF RestoredAt
<1> QED
  BY <1>1 DEF Restored, RestoredAt

LEMMA RestoredWakes ==
  ASSUME Typed, Placing, Restored, HoldersKept, UNCHANGED prios,
         NEW q \in Queues, NEW s \in Sides, WakeFirst(q, s, home, priority)
  PROVE  Restored'
<1>1. home \in [Tasks -> Places] /\ priority \in [Tasks -> Levels]
  BY DEF Typed, PriosTyped
<1>2. PICK off \in SUBSET Tasks : Woken(off, home, priority)
  BY <1>1, WakeEffect
<1>3. \A x \in Tasks : home'[x] = home[x] \/ home'[x] = priority[x]
  BY <1>2 DEF Woken
<1> QED
  BY <1>3, RestoredStays

LEMMA RestoredResumes ==
  ASSUME Typed, Restored, HoldersKept, UNCHANGED prios,
         NEW level, NEW late, NEW ticked, NEW anyway,
         ResumeAll(level, late, ticked, anyway)
  PROVE  Restored'
<1> DEFINE hm == [x \in Tasks |-> IF x \in ToSet(pendingReady) THEN priority[x]
                                                               ELSE home[x]]
<1>1. home' = [x \in Tasks |-> IF x \in late THEN priority[x] ELSE hm[x]]
  BY DEF ResumeAll
<1>2. \A x \in Tasks : home'[x] = home[x] \/ home'[x] = priority[x]
  BY <1>1
<1> QED
  BY <1>2, RestoredStays

(* The holder h of a mutex inherits the priority of t.                      *)
LEMMA RestoredInherits ==
  ASSUME Typed, Restored, UNCHANGED queue, NEW t \in Tasks, NEW q \in Mutexes,
         InheritBy(queue[q].holder, t),
         \A x \in Tasks : \/ home'[x] = HomeInherited(queue[q].holder, t)[x]
                          \/ home'[x] \notin Levels
  PROVE  Restored'
<1> DEFINE h == queue[q].holder
<1>1. h \in Tasks /\ UNCHANGED base
  BY DEF InheritBy
<1>2. PriosTyped /\ home \in [Tasks -> Places]
  BY DEF Typed
<1>3. CASE Inherits(h, t)
  <2>1. /\ priority' = [priority EXCEPT ![h] = priority[t]]
        /\ value' = [value EXCEPT ![h] = MaxPriorities - priority[t]]
    BY <1>3 DEF InheritBy
  <2>2. /\ priority'[h] = priority[t] /\ value'[h] = MaxPriorities - priority[t]
        /\ \A x \in Tasks \ {h} : priority'[x] = priority[x] /\ value'[x] = value[x]
    BY <1>1, <1>2, <2>1 DEF PriosTyped
  <2>3. \A x \in Tasks \ {h} : HomeInherited(h, t)[x] = home[x]
    BY <1>2 DEF HomeInherited
  <2>4. /\ home[h] = priority[h] => HomeInherited(h, t)[h] = priority[t]
        /\ home[h] # priority[h] => HomeInherited(h, t)[h] = home[h]
    BY <1>1, <1>2, <1>3 DEF HomeInherited
  <2> HIDE DEF h
  <2>5. ASSUME NEW x \in Tasks PROVE RestoredAt(x)'
    <3>1. RestoredAt(x)
      BY RestoredParts
    <3>2. CASE x = h
      <4>1. queue'[q].holder = x
        BY <3>2 DEF h
      <4> QED
        BY <2>2, <2>4, <3>1, <3>2, <4>1 DEF RestoredAt, h
    <3>3. CASE x # h
      BY <1>1, <2>2, <2>3, <3>1, <3>3 DEF RestoredAt, h
    <3> QED
      BY <3>2, <3>3
  <2> QED
    BY <2>5 DEF Restored, RestoredAt
<1>4. CASE ~Inherits(h, t)
  <2>1. UNCHANGED prios
    BY <1>4 DEF InheritBy, prios
  <2>2. HomeInherited(h, t) = home
    BY <1>4 DEF HomeInherited
  <2> QED
    BY <2>1, <2>2, RestoredStays DEF HoldersKept
<1> QED
  BY <1>3, <1>4

(* Who gives a mutex back gives its priority back with it.                  *)
LEMMA RestoredSend ==
  ASSUME Typed, Called, Placing, Holding, Restored, NEW t \in Tasks, TrySend(t)
  PROVE  Restored'
<1>1. PICK q \in Queues : q = loc[t].queue
  BY LocalsOf
<1>2. PICK h : h = queue[q].holder
  OBVIOUS
<1> DEFINE hm == IF h # NoTask /\ priority'[h] # priority[h]
                 THEN [home EXCEPT ![h] = priority'[h]] ELSE home
<1>3. /\ pc[t] = "try" /\ Sends(loc[t].op) /\ vTaskPriorityDisinherit(h)
      /\ WakeFirst(q, "receive", hm, priority')
  BY <1>1, <1>2 DEF TrySend, At
<1>4. h \in Tasks \cup {NoTask} /\ PriosTyped'
  <2>1. h \in Tasks \cup {NoTask}
    BY <1>1, <1>2, LocalsOf DEF RecordOK, QueueRecords
  <2> QED
    BY <1>3, <2>1, DisinheritTyped
<1>5. q \in Mutexes => h = t
  BY <1>1, <1>2, <1>3, HoldingParts DEF HoldsAt, Gives
<1>6. q \notin Mutexes => h = NoTask
  BY <1>2, HoldingParts
<1>7. PriosTyped /\ home \in [Tasks -> Places]
  BY DEF Typed
<1>8. /\ UNCHANGED base
      /\ \A x \in Tasks : x # h => priority'[x] = priority[x] /\ value'[x] = value[x]
      /\ h # NoTask => priority'[h] = base[h]
      /\ h # NoTask /\ priority[h] # base[h] => value'[h] = MaxPriorities - base[h]
      /\ h # NoTask /\ priority[h] = base[h] => value'[h] = value[h]
  BY <1>3, <1>4, <1>7 DEF vTaskPriorityDisinherit, PriosTyped, prios
<1>9. /\ hm \in [Tasks -> Places] /\ priority' \in [Tasks -> Levels]
      /\ \A x \in Tasks : x # h => hm[x] = home[x]
      /\ h # NoTask => hm[h] = IF priority'[h] # priority[h] THEN priority'[h] ELSE home[h]
  BY <1>4, <1>7, LevelsTyped DEF PriosTyped
<1> HIDE DEF hm
<1>10. PICK off \in SUBSET Tasks : Woken(off, hm, priority')
  BY <1>3, <1>9, WakeEffect DEF Sides
<1>11. \A x \in Tasks : home'[x] = hm[x] \/ home'[x] = priority'[x]
  BY <1>10 DEF Woken
<1>12. \A p \in Queues \ {q} : queue'[p] = queue[p]
  BY <1>1, TrySendQueue DEF Becomes
<1>13. ASSUME NEW x \in Tasks PROVE RestoredAt(x)'
  <2>1. RestoredAt(x) /\ NoTask \notin Tasks
    BY RestoredParts, ConstantsTyped
  <2>2. CASE x = h
    <3>1. priority'[x] = base'[x]
      BY <1>8, <2>1, <2>2
    <3>2. home'[x] \in Levels => home'[x] = priority'[x]
      BY <1>9, <1>11, <2>1, <2>2 DEF RestoredAt
    <3>3. value'[x] = MaxPriorities - priority'[x]
      BY <1>8, <2>1, <2>2 DEF RestoredAt
    <3> QED
      BY <3>1, <3>2, <3>3 DEF RestoredAt
  <2>3. CASE x # h
    <3>1. /\ priority'[x] = priority[x] /\ base'[x] = base[x] /\ value'[x] = value[x]
          /\ home'[x] = home[x] \/ home'[x] = priority[x]
      BY <1>8, <1>9, <1>11, <2>3
    <3>2. ASSUME NEW p \in Mutexes, queue[p].holder = x PROVE queue'[p].holder = x
      <4>1. p # q /\ p \in Queues
        BY <1>2, <2>3, <3>2 DEF Mutexes
      <4> QED
        BY <1>12, <3>2, <4>1
    <3> QED
      BY <2>1, <3>1, <3>2 DEF RestoredAt
  <2> QED
    BY <2>2, <2>3
<1> QED
  BY <1>13 DEF Restored, RestoredAt

LEMMA RestoredOther ==
  ASSUME Typed, Restored, NEW t \in Tasks, OtherStep(t)
  PROVE  Restored'
<1>1. HoldersKept
  BY DEF HoldersKept, OtherStep, vTaskPrioritySet, vTaskSuspend, vTaskResume, vTaskDelete
<1>2. PriosTyped /\ home \in [Tasks -> Places]
  BY DEF Typed
<1>3. Suspended \notin Levels /\ Terminated \notin Levels
  BY ConstantsTyped DEF Suspended, Terminated, Levels
<1>4. ASSUME NEW x \in Tasks, vTaskSuspend(t, x) \/ vTaskDelete(t, x) \/ vTaskResume(t, x)
      PROVE  Restored'
  <2>1. /\ UNCHANGED prios
        /\ \/ home' = [home EXCEPT ![x] = Suspended]
           \/ home' = [home EXCEPT ![x] = Terminated]
           \/ home' = [home EXCEPT ![x] = priority[x]]
    BY <1>4 DEF vTaskSuspend, vTaskDelete, vTaskResume
  <2>2. \A y \in Tasks : \/ home'[y] = home[y] \/ home'[y] = priority[y]
                         \/ home'[y] \notin Levels
    BY <1>2, <1>3, <2>1
  <2> QED
    BY <1>1, <2>1, <2>2, RestoredStays
<1>5. ASSUME NEW x \in Tasks, NEW p \in Levels, vTaskPrioritySet(t, x, p)
      PROVE  Restored'
  <2>1. /\ base' = [base EXCEPT ![x] = p] /\ base[x] # p /\ UNCHANGED queue
        /\ priority' = [priority EXCEPT ![x] = IF @ = base[x] THEN p ELSE @]
        /\ value' = [value EXCEPT ![x] = MaxPriorities - p]
        /\ home' = [home EXCEPT ![x] = IF @ = base[x] THEN priority'[x] ELSE @]
    BY <1>5 DEF vTaskPrioritySet
  <2>2. /\ base'[x] = p /\ value'[x] = MaxPriorities - p
        /\ priority'[x] = IF priority[x] = base[x] THEN p ELSE priority[x]
        /\ home'[x] = IF home[x] = base[x] THEN priority'[x] ELSE home[x]
        /\ \A y \in Tasks \ {x} : /\ base'[y] = base[y] /\ value'[y] = value[y]
                                  /\ priority'[y] = priority[y] /\ home'[y] = home[y]
    BY <1>2, <2>1 DEF PriosTyped
  <2>3. ASSUME NEW y \in Tasks PROVE RestoredAt(y)'
    <3>1. RestoredAt(y) /\ UNCHANGED queue
      BY <2>1, RestoredParts
    <3>2. CASE y = x
      BY <2>2, <3>1, <3>2 DEF RestoredAt
    <3>3. CASE y # x
      BY <2>2, <3>1, <3>3 DEF RestoredAt
    <3> QED
      BY <3>2, <3>3
  <2> QED
    BY <2>3 DEF Restored, RestoredAt
<1> QED
  BY <1>4, <1>5 DEF OtherStep

LEMMA RestoredKept ==
  ASSUME Typed, Called, Placing, Holding, Restored, Next
  PROVE  Restored'
<1> USE DEF core, sched
<1>1. HoldersKept \/ \E t \in Tasks : TrySend(t)
  BY HoldersStay
<1>2. ASSUME HoldersKept, UNCHANGED <<home, prios>> PROVE Restored'
  BY <1>2, RestoredStays
<1>3. ASSUME NEW t \in Tasks, TrySend(t) PROVE Restored'
  BY <1>3, RestoredSend
<1>4. ASSUME HoldersKept, NEW q \in Queues, NEW s \in Sides,
             WakeFirst(q, s, home, priority), UNCHANGED prios
      PROVE  Restored'
  BY <1>4, RestoredWakes
<1>5. ASSUME HoldersKept, NEW t \in Tasks, CallStep(t) \/ TakeCounted(t) \/ TryStep(t)
      PROVE  Restored'
  <2>1. loc[t].queue \in Queues
    BY LocalsOf
  <2>2. CASE CallStep(t) \/ TakeCounted(t) \/ TryLater(t)
    BY <1>2, <1>5, <2>2, CallApart
  <2>3. CASE TryReceive(t)
    BY <1>4, <1>5, <2>1, <2>3 DEF TryReceive, Sides
  <2>4. CASE TryPeek(t)
    BY <1>4, <1>5, <2>1, <2>4 DEF TryPeek, Sides
  <2> QED
    BY <1>3, <1>5, <2>2, <2>3, <2>4 DEF TryStep

<1>6. home \in [Tasks -> Places] /\ \A t \in Tasks : Away(t) \notin Levels
  <2>1. Delayed \notin Levels /\ Suspended \notin Levels
    BY ConstantsTyped DEF Delayed, Suspended, Levels
  <2> QED
    BY <2>1 DEF Away, Typed
<1>7. ASSUME NEW t \in Tasks, WaitsForMutex(t)
      PROVE  loc[t].queue \in Mutexes
  BY <1>7, LocalsOf DEF WaitsForMutex, Mutexes
<1>8. ASSUME HoldersKept, NEW t \in Tasks, WaitStep(t) PROVE Restored'
  <2>1. CASE vTaskPriorityInherit(t)
    <3>1. WaitsForMutex(t)
      BY <2>1 DEF vTaskPriorityInherit, At, Called, CalledAt
    <3>2. PICK q \in Mutexes : q = loc[t].queue
      BY <1>7, <3>1
    <3>3. /\ InheritBy(queue[q].holder, t) /\ UNCHANGED queue
          /\ home' = HomeInherited(queue[q].holder, t)
      BY <2>1, <3>2 DEF vTaskPriorityInherit
    <3> QED
      BY <3>3, RestoredInherits
  <2>2. CASE vTaskPlaceOnEventList(t)
    <3>1. home' = [home EXCEPT ![t] = Away(t)] /\ UNCHANGED prios
      BY <2>2 DEF vTaskPlaceOnEventList
    <3>2. \A x \in Tasks : home'[x] = home[x] \/ home'[x] \notin Levels
      BY <1>6, <3>1
    <3> QED
      BY <1>8, <3>1, <3>2, RestoredStays
  <2>3. CASE xTaskResumeAll(t)
    BY <1>8, <2>3, RestoredResumes DEF xTaskResumeAll
  <2>4. CASE \/ vTaskSuspendAll(t) \/ prvLockQueue(t) \/ xTaskCheckForTimeOut(t)
             \/ TestQueue(t) \/ UnlockTx(t) \/ UnlockRx(t)
    BY <1>2, <1>8, <2>4 DEF vTaskSuspendAll, prvLockQueue, xTaskCheckForTimeOut,
       TestQueue, UnlockTx, UnlockRx, Replay
  <2> QED
    BY <1>8, <2>1, <2>2, <2>3, <2>4 DEF WaitStep
<1>9. ASSUME HoldersKept, NEW t \in Tasks, AltBlock(t) PROVE Restored'
  <2>1. PICK q \in Queues : q = loc[t].queue
    BY LocalsOf
  <2>2. CASE Ready(loc[t].op, q)
    BY <1>2, <1>9, <2>1, <2>2 DEF AltBlock
  <2>3. CASE ~Ready(loc[t].op, q) /\ WaitsForMutex(t)
    <3> DEFINE hm == HomeInherited(queue[q].holder, t)
    <3>1. /\ q \in Mutexes /\ InheritBy(queue[q].holder, t) /\ UNCHANGED queue
          /\ home' = [hm EXCEPT ![t] = Away(t)]
      BY <1>7, <1>9, <2>1, <2>3 DEF AltBlock
    <3>2. hm \in [Tasks -> Places]
      BY InheritMoves
    <3> HIDE DEF hm
    <3>3. \A x \in Tasks : home'[x] = hm[x] \/ home'[x] \notin Levels
      BY <1>6, <3>1, <3>2
    <3> QED
      BY <3>1, <3>3, RestoredInherits DEF hm
  <2>4. CASE ~Ready(loc[t].op, q) /\ ~WaitsForMutex(t)
    <3>1. home' = [home EXCEPT ![t] = Away(t)] /\ UNCHANGED prios
      BY <1>9, <2>1, <2>4 DEF AltBlock
    <3>2. \A x \in Tasks : home'[x] = home[x] \/ home'[x] \notin Levels
      BY <1>6, <3>1
    <3> QED
      BY <1>9, <3>1, <3>2, RestoredStays
  <2> QED
    BY <2>2, <2>3, <2>4
<1>10. ASSUME HoldersKept, NEW t \in Tasks, AltExpired(t) PROVE Restored'
  BY <1>2, <1>10 DEF AltExpired
<1>11. ASSUME HoldersKept, IdleStep PROVE Restored'
  <2>1. CASE CheckTermination
    BY <1>2, <1>11, <2>1 DEF CheckTermination
  <2>2. CASE CheckedTermination
    BY <1>11, <2>2, RestoredResumes DEF CheckedTermination
  <2>3. CASE prvDeleteTCB
    <3>1. Freed \notin Levels
      BY ConstantsTyped DEF Freed, Levels
    <3>2. PICK y : home' = [home EXCEPT ![y] = Freed]
      BY <2>3 DEF prvDeleteTCB
    <3>3. UNCHANGED prios /\ \A x \in Tasks : home'[x] = home[x] \/ home'[x] \notin Levels
      BY <1>6, <2>3, <3>1, <3>2 DEF prvDeleteTCB
    <3> QED
      BY <1>11, <3>3, RestoredStays
  <2> QED
    BY <1>11, <2>1, <2>2, <2>3 DEF IdleStep
<1>12. ASSUME HoldersKept, IsrStep PROVE Restored'
  <2>1. ASSUME NEW q \in Queues, NEW x, NEW op, xQueueGenericSendFromISR(q, x, op)
        PROVE  Restored'
    BY <1>2, <1>4, <1>12, <2>1 DEF xQueueGenericSendFromISR, Sides
  <2>2. ASSUME NEW q \in Queues, xQueueReceiveFromISR(q) PROVE Restored'
    BY <1>2, <1>4, <1>12, <2>2 DEF xQueueReceiveFromISR, Sides
  <2>3. ASSUME NEW x \in Tasks, xTaskResumeFromISR(x) PROVE Restored'
    <3>1. home' = home \/ home' = [home EXCEPT ![x] = priority[x]]
      BY <2>3 DEF xTaskResumeFromISR
    <3>2. UNCHANGED prios /\ \A y \in Tasks : home'[y] = home[y] \/ home'[y] = priority[y]
      BY <1>6, <2>3, <3>1 DEF xTaskResumeFromISR
    <3> QED
      BY <1>12, <3>2, RestoredStays
  <2> QED
    BY <1>12, <2>1, <2>2, <2>3 DEF IsrStep
<1>13. ASSUME HoldersKept, vTaskSwitchContext PROVE Restored'
  BY <1>2, <1>13 DEF vTaskSwitchContext
<1> QED
  BY <1>1, <1>3, <1>5, <1>8, <1>9, <1>10, <1>11, <1>12, <1>13, RestoredOther, NextCases
     DEF AltStep

-----------------------------------------------------------------------------
(* The invariant holds of every reachable state.                            *)

LEMMA CreatedFields ==
  ASSUME NEW q \in Queues
  PROVE  /\ RecordOK(q, Created(q))
         /\ Created(q).holder = NoTask /\ Created(q).calls = 0
         /\ Created(q).rxLock = Unlocked /\ Created(q).txLock = Unlocked
         /\ Created(q).count = (IF Kind[q] = "mutex" THEN 1 ELSE 0)
<1> DEFINE count == IF Kind[q] = "mutex" THEN 1 ELSE 0
           store == [n \in 0 .. Capacity[q] - 1 |-> NoLocals.item]
           readFrom == Capacity[q] - 1
<1>1. /\ Capacity[q] \in Nat \ {0} /\ MaxLock \in Nat /\ MaxNesting \in Nat
      /\ NoLocals.item \in Items
  BY ConstantsTyped
<1>2. count \in 0 .. Capacity[q] /\ readFrom \in 0 .. Capacity[q] - 1
  BY <1>1
<1>3. store \in [0 .. Capacity[q] - 1 -> Items] /\ store \in Stores
  BY <1>1 DEF Stores
<1>4. /\ 0 \in 0 .. Capacity[q] - 1 /\ Unlocked \in Unlocked .. MaxLock
      /\ 0 \in 0 .. MaxNesting
  BY <1>1 DEF Unlocked
<1>5. Created(q) = [count |-> count, store |-> store, writeTo |-> 0,
                    readFrom |-> readFrom, rxLock |-> Unlocked, txLock |-> Unlocked,
                    holder |-> NoTask, calls |-> 0]
  BY DEF Created
<1>6. count \in Int /\ readFrom \in Int /\ Unlocked \in Int
  BY <1>1 DEF Unlocked
<1> HIDE DEF count, store, readFrom
<1>7. Created(q) \in QueueRecords
  BY <1>3, <1>5, <1>6 DEF QueueRecords
<1>8. RecordOK(q, Created(q))
  BY <1>2, <1>3, <1>4, <1>5, <1>7 DEF RecordOK
<1> QED
  BY <1>5, <1>8 DEF count

LEMMA InitIInv == Init => IInv
<1> SUFFICES ASSUME Init PROVE IInv
  OBVIOUS
<1>1. /\ queue = [q \in Queues |-> Created(q)]
      /\ blocked = [q \in Queues |-> [s \in Sides |-> <<>>]]
      /\ home = Priority /\ priority = Priority /\ base = Priority
      /\ value = [t \in Tasks |-> MaxPriorities - Priority[t]]
      /\ pendingReady = <<>>
      /\ suspendAll = 0 /\ missedYield = FALSE /\ yield = FALSE
      /\ running \in Tasks /\ home[running] >= 0 /\ idle = "check"
      /\ pc = [t \in Tasks |-> "run"] /\ loc = [t \in Tasks |-> NoLocals]
      /\ got = NoLocals.item
  BY DEF Init, Highest, Sides
<1>2. Priority \in [Tasks -> Levels] /\ MaxPriorities \in Nat
  BY QueueAssumption
<1>3. \A q \in Queues : queue[q] = Created(q)
  BY <1>1
<1>4. QueuesTyped
  <2>1. \A q \in Queues : RecordOK(q, queue[q])
    BY <1>3, CreatedFields
  <2> QED
    BY <1>1, <2>1 DEF QueuesTyped, RecordOK
<1>5. ListsTyped
  <2>1. <<>> \in Seq(Tasks)
    BY EmptySeq
  <2> QED
    BY <1>1, <2>1, Zenon DEF ListsTyped
<1>6. home \in [Tasks -> Places] /\ PriosTyped
  BY <1>1, <1>2 DEF Places, PriosTyped, Levels
<1>7. CallsTyped
  BY <1>1, ConstantsTyped DEF CallsTyped, Labels
<1>8. CoreTyped
  <2>1. missedYield \in BOOLEAN /\ yield \in BOOLEAN
    BY <1>1, Zenon
  <2>2. suspendAll \in 0 .. 1
    BY <1>1
  <2> QED
    BY <1>1, <2>1, <2>2, Zenon DEF CoreTyped
<1>9. \A t \in Tasks : pc[t] = "run"
  BY <1>1
<1>10. Called
  BY <1>9 DEF Called, CalledAt
<1>11. \A q \in Queues : queue[q].rxLock = Unlocked /\ queue[q].txLock = Unlocked
  BY <1>3, CreatedFields
<1>12. Locking
  BY <1>1, <1>9, <1>11 DEF Locking, Sections
<1>13. Placing
  <2>1. \A q \in Queues, s \in Sides : blocked[q][s] = <<>>
    BY <1>1
  <2>2. IsInjective(<<>>) /\ ToSet(<<>>) = {}
    BY DEF IsInjective, ToSet
  <2>3. \A t \in Tasks : home[t] \notin Waiting
    BY <1>1, <1>2 DEF Levels, Waiting, Delayed, Suspended
  <2> QED
    BY <1>1, <2>1, <2>2, <2>3 DEF Placing
<1>14. Holding
  <2>1. \A q \in Queues : /\ queue[q].holder = NoTask /\ queue[q].calls = 0
                          /\ q \in Mutexes => queue[q].count = 1
    BY <1>3, CreatedFields, ConstantsTyped
  <2>2. \A q \in Mutexes : HeldAt(q)
    BY <2>1, ConstantsTyped DEF HeldAt, Mutexes
  <2>3. \A t \in Tasks : HoldsAt(t)
    BY <1>9 DEF HoldsAt, Gives
  <2> QED
    BY <2>1, <2>2, <2>3, HoldingParts
<1>15. Restored
  BY <1>1 DEF Restored
<1> QED
  BY <1>4, <1>5, <1>6, <1>7, <1>8, <1>10, <1>12, <1>13, <1>14, <1>15 DEF IInv, Typed

LEMMA IInvStutters ==
  ASSUME IInv, UNCHANGED vars
  PROVE  IInv'
<1> USE DEF vars
<1>1. Typed'
  BY DEF IInv, Typed, QueuesTyped, ListsTyped, PriosTyped, CallsTyped, CoreTyped
<1>2. Called' /\ Locking'
  BY DEF IInv, Called, CalledAt, WaitsForMutex, Locking
<1>3. Placing'
  BY DEF IInv, Placing, Entered, Blocking, OnAList
<1>4. Holding' /\ Restored'
  BY DEF IInv, Holding, Outermost, Restored
<1> QED
  BY <1>1, <1>2, <1>3, <1>4 DEF IInv

(* What the tasks, the interrupts and the scheduler rely on holds of every  *)
(* reachable state.                                                         *)
THEOREM Invariance == Spec => []IInv
<1>1. IInv /\ [Next]_vars => IInv'
  <2>1. ASSUME IInv, Next PROVE IInv'
    BY <2>1, TypedKept, CalledKept, LockingKept, PlacingKept, HoldingKept, RestoredKept
       DEF IInv, PlacedRight
  <2> QED
    BY <2>1, IInvStutters
<1> QED
  BY <1>1, InitIInv, PTL DEF Spec

-----------------------------------------------------------------------------
(* What follows for every reachable state.                                  *)

(* Typed says more than TypeOK.                                             *)
LEMMA TypedImplies == Typed => TypeOK
<1> SUFFICES ASSUME Typed PROVE TypeOK
  OBVIOUS
<1>1. \A q \in Queues : RecordOK(q, queue[q]) /\ queue[q].holder \in Tasks \cup {NoTask}
  BY DEF Typed, QueuesTyped, RecordOK, QueueRecords
<1>2. \A q \in Queues, s \in {"send", "receive"} : blocked[q][s] \in Seq(Tasks)
  BY DEF Typed, ListsTyped, Sides
<1>3. /\ home \in [Tasks -> Levels \cup {Delayed, Suspended, Terminated, Freed}]
      /\ priority \in [Tasks -> Levels] /\ base \in [Tasks -> Levels]
      /\ pendingReady \in Seq(Tasks)
  BY DEF Typed, Places, PriosTyped, ListsTyped
<1>4. pc \in [Tasks -> Sections \cup {"run", "try", "suspend", "wait", "count"}]
  BY DEF Typed, CallsTyped, Labels
<1>5. suspendAll \in 0 .. 1
  BY DEF Typed, CoreTyped
<1>6. running \in Tasks \cup {NoTask} /\ idle \in {"check", "resume", "free"}
  BY DEF Typed, CoreTyped
<1>7. \A q \in Queues :
        /\ queue[q].count \in 0 .. Capacity[q]
        /\ queue[q].writeTo \in 0 .. Capacity[q] - 1
        /\ queue[q].readFrom \in 0 .. Capacity[q] - 1
        /\ queue[q].rxLock \in Unlocked .. MaxLock
        /\ queue[q].txLock \in Unlocked .. MaxLock
        /\ queue[q].calls \in 0 .. MaxNesting
  BY <1>1, Zenon DEF RecordOK
<1> QED
  BY <1>1, <1>2, <1>3, <1>4, <1>5, <1>6, <1>7, Zenon DEF TypeOK

(* Every field, list and local stays within its range: in particular, the   *)
(* places in the ring of a queue, the number of its messages, and the       *)
(* nesting of its locks and of vTaskSuspendAll.                             *)
THEOREM TypeCorrect == Spec => []TypeOK
<1>1. IInv => TypeOK
  BY TypedImplies DEF IInv
<1> QED
  BY <1>1, Invariance, PTL

(* A queue is locked by one task at a time, which has suspended the         *)
(* scheduler, and is unlocked again before the task resumes it.             *)
THEOREM LockedByOne == Spec => []LockedAlone
<1>1. IInv => LockedAlone
  <2> SUFFICES ASSUME IInv PROVE LockedAlone
    OBVIOUS
  <2> DEFINE busy == {t \in Tasks : pc[t] \in Sections}
  <2>1. suspendAll \in 0 .. 1 /\ running \in Tasks \cup {NoTask} /\ NoTask \notin Tasks
    BY ConstantsTyped DEF IInv, Typed, CoreTyped
  <2>2. Locking
    BY DEF IInv
  <2>3. ASSUME NEW q \in Queues, {queue[q].rxLock, queue[q].txLock} # {Unlocked}
        PROVE  /\ suspendAll = 1 /\ running # NoTask /\ loc[running].queue = q
               /\ pc[running] \in Sections \ {"lock", "resume"}
    <3>1. queue[q].rxLock # Unlocked \/ queue[q].txLock # Unlocked
      BY <2>3
    <3>2. /\ running # NoTask /\ loc[running].queue = q
          /\ pc[running] \in Sections \ {"lock", "resume"}
      BY <2>2, <3>1 DEF Locking
    <3> QED
      BY <2>1, <2>2, <3>2 DEF Locking
  <2>4. CASE suspendAll = 0
    <3>1. busy = {} /\ idle # "resume"
      BY <2>2, <2>4 DEF Locking
    <3>2. Cardinality(busy) = 0
      BY <3>1, FS_EmptySet
    <3> QED
      BY <2>3, <2>4, <3>1, <3>2 DEF LockedAlone
  <2>5. CASE suspendAll = 1 /\ running = NoTask
    <3>1. busy = {} /\ idle = "resume"
      BY <2>1, <2>2, <2>5 DEF Locking
    <3>2. Cardinality(busy) = 0
      BY <3>1, FS_EmptySet
    <3> QED
      BY <2>3, <2>5, <3>1, <3>2 DEF LockedAlone
  <2>6. CASE suspendAll = 1 /\ running # NoTask
    <3>1. busy = {running} /\ idle # "resume"
      BY <2>1, <2>2, <2>6 DEF Locking
    <3>2. Cardinality(busy) = 1
      BY <3>1, FS_Singleton
    <3> QED
      BY <2>3, <2>6, <3>1, <3>2 DEF LockedAlone
  <2> QED
    BY <2>1, <2>4, <2>5, <2>6
<1> QED
  BY <1>1, Invariance, PTL

(* A task waits in one event list at most, is on no ready list meanwhile    *)
(* and has not been woken; a task that waits in none is ready, held         *)
(* pending, suspended or deleted.                                           *)
THEOREM WaitsOnce == Spec => []OneWait
<1>1. IInv => OneWait
  <2> SUFFICES ASSUME IInv PROVE OneWait
    OBVIOUS
  <2> DEFINE waits == Queues \X {"send", "receive"}
             suspended == {x \in Tasks : IsSuspended(x) /\ \E c \in Suspends : c[2] = x}
             on(t) == {w \in waits : t \in ToSet(blocked[w[1]][w[2]])}
  <2>1. Typed /\ Placing
    BY DEF IInv
  <2>2. ASSUME NEW t \in Tasks, NEW w \in on(t)
        PROVE  /\ Entered(t, w[1], w[2]) /\ home[t] \in Waiting
               /\ t \notin ToSet(pendingReady) /\ OnAList(t)
    BY <2>1 DEF Placing, Sides, OnAList
  <2>3. ASSUME NEW t \in Tasks PROVE Cardinality(on(t)) <= 1
    <3>1. CASE on(t) = {}
      BY <3>1, FS_EmptySet
    <3>2. CASE on(t) # {}
      <4>1. PICK w \in waits : w \in on(t)
        BY <3>2
      <4>2. ASSUME NEW v \in on(t) PROVE v = w
        <5>1. v \in waits /\ v[1] = w[1] /\ v[2] = w[2]
          BY <2>2, <4>1 DEF Entered
        <5> QED
          BY <5>1
      <4>3. on(t) = {w}
        BY <4>1, <4>2
      <4> HIDE DEF on
      <4> QED
        BY <4>3, FS_Singleton
    <3> QED
      BY <3>1, <3>2
  <2>4. ASSUME NEW t \in Tasks, on(t) # {}
        PROVE  /\ home[t] < 0 /\ ~Gone(t) /\ t \notin ToSet(pendingReady)
               /\ pc[t] \in Sections \cup {"try"}
    <3>1. PICK w \in waits : w \in on(t)
      BY <2>4
    <3>2. pc[t] \in Sections \cup {"try"}
      BY <2>2, <3>1 DEF Entered, Blocking, Sections
    <3>3. home[t] \in Waiting /\ t \notin ToSet(pendingReady)
      BY <2>2, <3>1
    <3> QED
      BY <3>2, <3>3 DEF Waiting, Gone, Delayed, Suspended, Terminated, Freed
  <2>5. ASSUME NEW t \in Tasks, on(t) = {}, home[t] < 0, ~Gone(t)
        PROVE  t \in ToSet(pendingReady) \cup suspended
    <3>1. home[t] \in Places
      BY <2>1 DEF Typed
    <3>2. home[t] \in Waiting
      BY <2>5, <3>1 DEF Places, Levels, Waiting, Gone
    <3>3. ~OnAList(t)
      <4>1. ASSUME NEW q \in Queues, NEW s \in Sides, t \in ToSet(blocked[q][s])
            PROVE  <<q, s>> \in on(t)
        BY <4>1 DEF Sides
      <4> QED
        BY <2>5, <4>1 DEF OnAList
    <3>4. \/ t \in ToSet(pendingReady)
          \/ home[t] = Suspended /\ \E c \in Suspends : c[2] = t
      BY <2>1, <3>2, <3>3 DEF Placing
    <3> QED
      BY <3>3, <3>4 DEF IsSuspended, OnAList, Sides
  <2>6. \A w \in waits : IsInjective(blocked[w[1]][w[2]])
    BY <2>1 DEF Placing, Sides
  <2>7. IsInjective(pendingReady)
    BY <2>1 DEF Placing
  <2>8. ASSUME NEW t \in Tasks, home[t] >= 0 PROVE t \notin ToSet(pendingReady)
    BY <2>1, <2>8 DEF Placing, Waiting, Delayed, Suspended
  <2>9. TypeOK
    BY <2>1, TypedImplies
  <2> HIDE DEF on, suspended, waits
  <2>10. \A t \in Tasks :
           /\ Cardinality(on(t)) <= 1
           /\ on(t) # {} => home[t] < 0 /\ ~Gone(t) /\ t \notin ToSet(pendingReady)
           /\ on(t) = {} /\ home[t] < 0 /\ ~Gone(t) =>
                t \in ToSet(pendingReady) \cup suspended
           /\ \A w \in waits : IsInjective(blocked[w[1]][w[2]])
           /\ IsInjective(pendingReady)
           /\ on(t) # {} => pc[t] \in Sections \cup {"try"}
           /\ home[t] >= 0 => t \notin ToSet(pendingReady)
    BY <2>3, <2>4, <2>5, <2>6, <2>7, <2>8, Zenon
  <2> QED
    BY <2>9, <2>10, Zenon DEF OneWait, on, suspended, waits
<1> QED
  BY <1>1, Invariance, PTL

(* An inherited priority lasts while a mutex is held, and no longer: then   *)
(* the task is ready, and will wait, at its own.                            *)
THEOREM PriorityRestored == Spec => []Restored
<1>1. IInv => Restored
  BY DEF IInv
<1> QED
  BY <1>1, Invariance, PTL


-----------------------------------------------------------------------------
(* No lost wakeups.                                                         *)

(* What there is for the tasks that wait on one side of q, items or room,   *)
(* less what prvUnlockQueue will yet wake tasks for.                        *)
Supply(q, s) == IF s = "send" THEN Capacity[q] - queue[q].count ELSE queue[q].count
Replays(q, s) == Locked(IF s = "send" THEN queue[q].rxLock ELSE queue[q].txLock)
Due(q, s) == Supply(q, s) - Replays(q, s)
Covered(q, s) == blocked[q][s] # <<>> => Due(q, s) <= Cardinality(EnRoute(q, s))
AllCovered == \A q \in Queues, s \in Sides : Covered(q, s)

(* What a task that will wait has seen stays so: its queue is locked, and   *)
(* what interrupts bring meanwhile is counted.                              *)
NoticedAt(t) ==
  /\ pc[t] \in {"check", "test", "inherit", "place", "unlockTx"} =>
       /\ queue[loc[t].queue].rxLock # Unlocked
       /\ queue[loc[t].queue].txLock # Unlocked
  /\ pc[t] \in {"inherit", "place"} => Due(loc[t].queue, Side(loc[t].op)) <= 0
Noticed == \A t \in Tasks : NoticedAt(t)

(* EnRoute, but for the event lists.                                        *)
OnRoute(t, q, s) ==
  /\ loc[t].timed /\ loc[t].queue = q /\ Side(loc[t].op) = s
  /\ \/ pc[t] = "try"
     \/ pc[t] \in {"unlockTx", "unlockRx", "resume"} /\ loc[t].then # "fail"
  /\ ~Gone(t)

LEMMA EnRouteTasks ==
  ASSUME NEW q, NEW s
  PROVE  /\ EnRoute(q, s) = {t \in Tasks : OnRoute(t, q, s) /\ t \notin ToSet(blocked[q][s])}
         /\ IsFiniteSet(EnRoute(q, s)) /\ Cardinality(EnRoute(q, s)) \in Nat
<1>1. EnRoute(q, s) = {t \in Tasks : OnRoute(t, q, s) /\ t \notin ToSet(blocked[q][s])}
  BY DEF EnRoute, OnRoute
<1>2. IsFiniteSet(Tasks) /\ EnRoute(q, s) \subseteq Tasks
  BY <1>1, QueueAssumption
<1>3. IsFiniteSet(EnRoute(q, s))
  BY <1>2, FS_Subset
<1> QED
  BY <1>1, <1>3, FS_CardinalityType

(* A task that waits will be on its way when it is taken off the list.      *)
LEMMA WaitersRoute ==
  ASSUME Placing, NEW q \in Queues, NEW s \in Sides, NEW t \in ToSet(blocked[q][s])
  PROVE  OnRoute(t, q, s)
<1>1. Entered(t, q, s) /\ home[t] \in Waiting
  BY DEF Placing
<1> QED
  BY <1>1 DEF Entered, Blocking, OnRoute, Gone, Waiting, Delayed, Suspended,
     Terminated, Freed

LEMMA DueTyped ==
  ASSUME Typed, NEW q \in Queues, NEW s
  PROVE  /\ Supply(q, s) \in Nat /\ Replays(q, s) \in Nat /\ Due(q, s) \in Int
         /\ Due(q, s) <= Supply(q, s)
<1>1. RecordOK(q, queue[q]) /\ Capacity[q] \in Nat /\ MaxLock \in Nat
  BY ConstantsTyped DEF Typed, QueuesTyped
<1>2. /\ queue[q].count \in 0 .. Capacity[q]
      /\ queue[q].rxLock \in Unlocked .. MaxLock /\ queue[q].txLock \in Unlocked .. MaxLock
  BY <1>1 DEF RecordOK
<1>3. Supply(q, s) \in Nat
  BY <1>1, <1>2 DEF Supply
<1>4. Replays(q, s) \in Nat
  BY <1>1, <1>2 DEF Replays, Locked, Unlocked
<1> QED
  BY <1>3, <1>4 DEF Due

LEMMA DueTypedNext ==
  ASSUME Typed', NEW q \in Queues, NEW s
  PROVE  Due(q, s)' \in Int
<1>1. queue'[q] \in QueueRecords /\ Capacity[q] \in Int
  BY ConstantsTyped DEF Typed, QueuesTyped, RecordOK
<1>2. queue'[q].count \in Int /\ queue'[q].rxLock \in Int /\ queue'[q].txLock \in Int
  BY <1>1 DEF QueueRecords
<1>3. Supply(q, s)' \in Int /\ Replays(q, s)' \in Int
  BY <1>1, <1>2 DEF Supply, Replays, Locked
<1> QED
  BY <1>3 DEF Due

(* Nothing due covers those who wait.                                       *)
LEMMA NothingDue ==
  ASSUME NEW q, NEW s, Due(q, s)' <= 0, Due(q, s)' \in Int
  PROVE  Covered(q, s)'
<1>1. EnRoute(q, s)' \subseteq Tasks
  BY DEF EnRoute
<1>2. Cardinality(EnRoute(q, s)') \in Nat
  BY <1>1, QueueAssumption, FS_Subset, FS_CardinalityType
<1> QED
  BY <1>2 DEF Covered

(* Those woken are on their way for what has come, and one that was on its  *)
(* way may have taken one.                                                  *)
LEMMA CoverMoves ==
  ASSUME Typed, Typed', Placing, NEW q \in Queues, NEW s \in Sides, Covered(q, s),
         NEW off, off \subseteq ToSet(blocked[q][s]), NEW X, IsFiniteSet(X),
         X \cap ToSet(blocked[q][s]) = {},
         ToSet(blocked'[q][s]) \subseteq ToSet(blocked[q][s]) \ off,
         \A x \in Tasks \ X : OnRoute(x, q, s) => \/ OnRoute(x, q, s)'
                                                  \/ x \in ToSet(blocked[q][s]) \ off,
         Due(q, s)' <= Due(q, s) + Cardinality(off) - Cardinality(X)
  PROVE  Covered(q, s)'
<1> SUFFICES ASSUME blocked'[q][s] # <<>>, NEW F, F = EnRoute(q, s)'
             PROVE  Due(q, s)' <= Cardinality(F)
  BY DEF Covered
<1> DEFINE E == EnRoute(q, s)
<1>1. /\ E = {t \in Tasks : OnRoute(t, q, s) /\ t \notin ToSet(blocked[q][s])}
      /\ IsFiniteSet(E) /\ Cardinality(E) \in Nat
  BY EnRouteTasks
<1>2. /\ F = {t \in Tasks : OnRoute(t, q, s)' /\ t \notin ToSet(blocked'[q][s])}
      /\ IsFiniteSet(F) /\ Cardinality(F) \in Nat
  <2>1. F = {t \in Tasks : OnRoute(t, q, s)' /\ t \notin ToSet(blocked'[q][s])}
    BY DEF EnRoute, OnRoute
  <2>2. F \subseteq Tasks
    BY <2>1
  <2> QED
    BY <2>1, <2>2, QueueAssumption, FS_Subset, FS_CardinalityType
<1>3. blocked[q][s] \in Seq(Tasks) /\ blocked'[q][s] \in Seq(Tasks)
  BY DEF Typed, ListsTyped
<1>4. Due(q, s) <= Cardinality(E)
  <2>1. ToSet(blocked'[q][s]) # {}
    BY <1>3, NoEntries
  <2>2. blocked[q][s] # <<>>
    BY <1>3, <2>1, NoEntries
  <2> QED
    BY <2>2 DEF Covered
<1>5. off \subseteq Tasks /\ off \cap E = {} /\ IsFiniteSet(off)
  <2>1. off \subseteq Tasks
    BY <1>3, EntriesOf
  <2> QED
    BY <1>1, <2>1, QueueAssumption, FS_Subset
<1>6. (E \cup off) \subseteq F \cup X
  BY <1>1, <1>2, <1>5, WaitersRoute
<1> HIDE DEF E
<1>7. Cardinality(E \cup off) = Cardinality(E) + Cardinality(off) /\ Cardinality(off) \in Nat
  <2>1. Cardinality(off) \in Nat
    BY <1>5, FS_CardinalityType
  <2>2. Cardinality(E \cup off) = Cardinality(E) + Cardinality(off) - Cardinality(E \cap off)
    BY <1>1, <1>5, FS_Union
  <2>3. Cardinality(E \cap off) = 0
    <3>1. E \cap off = {}
      BY <1>5
    <3> QED
      BY <3>1, FS_EmptySet
  <2> QED
    BY <1>1, <2>1, <2>2, <2>3
<1>8. Cardinality(E \cup off) <= Cardinality(F \cup X) /\ IsFiniteSet(F \cup X)
  BY <1>2, <1>6, FS_Union, FS_Subset
<1>9. Cardinality(F \cup X) <= Cardinality(F) + Cardinality(X)
  <2>1. /\ Cardinality(F \cup X) = Cardinality(F) + Cardinality(X) - Cardinality(F \cap X)
        /\ Cardinality(F \cap X) \in Nat /\ Cardinality(X) \in Nat
    BY <1>2, FS_Union, FS_Intersection, FS_CardinalityType
  <2> QED
    BY <1>2, <2>1
<1>10. Due(q, s) \in Int /\ Due(q, s)' \in Int
  BY DueTyped, DueTypedNext
<1>11. /\ Cardinality(X) \in Nat /\ Cardinality(F \cup X) \in Nat
       /\ Cardinality(E \cup off) \in Nat
  BY <1>1, <1>7, <1>8, FS_CardinalityType
<1> DEFINE due == Due(q, s)
           due2 == Due(q, s)'
           e == Cardinality(E)
           f == Cardinality(F)
           o == Cardinality(off)
           c == Cardinality(X)
           u == Cardinality(E \cup off)
           v == Cardinality(F \cup X)
<1>12. /\ due \in Int /\ due2 \in Int /\ e \in Nat /\ f \in Nat /\ o \in Nat
       /\ c \in Nat /\ u \in Nat /\ v \in Nat
       /\ due <= e /\ due2 <= due + o - c /\ u = e + o /\ u <= v /\ v <= f + c
  BY <1>1, <1>2, <1>4, <1>7, <1>8, <1>9, <1>10, <1>11
<1> HIDE DEF due, due2, e, f, o, c, u, v
<1>13. due2 <= f
  BY <1>12
<1> QED
  BY <1>13 DEF due2, f


RoutesKept(X, q, s) == \A x \in Tasks \ X : OnRoute(x, q, s) => OnRoute(x, q, s)'

LEMMA CoverStays ==
  ASSUME Typed, Typed', Placing, NEW q \in Queues, NEW s \in Sides, Covered(q, s),
         ToSet(blocked'[q][s]) \subseteq ToSet(blocked[q][s]),
         RoutesKept({}, q, s), Due(q, s)' <= Due(q, s)
  PROVE  Covered(q, s)'
<1>1. IsFiniteSet({}) /\ Cardinality({}) = 0
  BY FS_EmptySet
<1>2. Due(q, s)' <= Due(q, s) + Cardinality({}) - Cardinality({})
  BY <1>1, DueTyped, DueTypedNext
<1>3. \A x \in Tasks \ {} : OnRoute(x, q, s) => \/ OnRoute(x, q, s)'
                                                \/ x \in ToSet(blocked[q][s]) \ {}
  BY DEF RoutesKept
<1> QED
  BY <1>1, <1>2, <1>3, CoverMoves

(* The first task on the list is woken, for one more that came, and one     *)
(* task at most leaves the way with what it takes.                          *)
LEMMA CoverWakes ==
  ASSUME Typed, Typed', Placing, NEW q \in Queues, NEW s \in Sides, Covered(q, s),
         NEW p \in Queues, NEW e \in Sides, NEW hm \in [Tasks -> Places],
         NEW pr \in [Tasks -> Levels], WakeFirst(p, e, hm, pr),
         NEW X, IsFiniteSet(X), X \cap ToSet(blocked[q][s]) = {},
         RoutesKept(X, q, s),
         Due(q, s)' <= Due(q, s) + (IF q = p /\ s = e THEN 1 ELSE 0) - Cardinality(X)
  PROVE  Covered(q, s)'
<1>1. PICK off \in SUBSET Tasks :
        /\ off \subseteq ToSet(blocked[p][e]) /\ Woken(off, hm, pr)
        /\ \/ blocked[p][e] = <<>> /\ off = {} /\ UNCHANGED blocked
           \/ blocked[p][e] # <<>> /\ off = {Head(blocked[p][e])}
  BY WakeEffect
<1>2. ToSet(blocked'[q][s]) = ToSet(blocked[q][s]) \ off
  BY <1>1 DEF Woken, LeftLists
<1>3. CASE q = p /\ s = e /\ blocked[p][e] = <<>>
  BY <1>1, <1>3 DEF Covered
<1>4. CASE q = p /\ s = e /\ blocked[p][e] # <<>>
  <2>1. off \subseteq ToSet(blocked[q][s]) /\ Cardinality(off) = 1
    BY <1>1, <1>4, FS_Singleton
  <2>2. Due(q, s)' <= Due(q, s) + Cardinality(off) - Cardinality(X)
    BY <1>4, <2>1
  <2>3. \A x \in Tasks \ X : OnRoute(x, q, s) => \/ OnRoute(x, q, s)'
                                                 \/ x \in ToSet(blocked[q][s]) \ off
    BY DEF RoutesKept
  <2> QED
    BY <1>2, <2>1, <2>2, <2>3, CoverMoves
<1>5. CASE q # p \/ s # e
  <2>1. Cardinality({}) = 0
    BY FS_EmptySet
  <2>2. Due(q, s)' <= Due(q, s) + Cardinality({}) - Cardinality(X)
    BY <1>5, <2>1
  <2>3. ToSet(blocked'[q][s]) \subseteq ToSet(blocked[q][s]) \ {}
    BY <1>2
  <2>4. \A x \in Tasks \ X : OnRoute(x, q, s) => \/ OnRoute(x, q, s)'
                                                 \/ x \in ToSet(blocked[q][s]) \ {}
    BY DEF RoutesKept
  <2> QED
    BY <2>2, <2>3, <2>4, CoverMoves
<1> QED
  BY <1>3, <1>4, <1>5

(* Nobody is deleted but by vTaskDelete.                                    *)
Alive == \A x \in Tasks : Gone(x)' => Gone(x)

LEMMA StaysAlive ==
  ASSUME Typed, \A x \in Tasks : home'[x] = home[x] \/ home'[x] \in Levels \cup Waiting
  PROVE  Alive
<1>1. Terminated \notin Levels \cup Waiting /\ Freed \notin Levels \cup Waiting
  BY ConstantsTyped DEF Levels, Waiting, Terminated, Freed, Delayed, Suspended
<1> QED
  BY <1>1 DEF Alive, Gone

LEMMA RouteStays ==
  ASSUME NEW x, NEW q, NEW s, pc'[x] = pc[x], loc'[x].timed = loc[x].timed,
         loc'[x].queue = loc[x].queue, loc'[x].op = loc[x].op,
         loc'[x].then = loc[x].then, Gone(x)' => Gone(x)
  PROVE  OnRoute(x, q, s) => OnRoute(x, q, s)'
BY DEF OnRoute, Side, Sends

(* Where one task goes, the others stay on their ways.                      *)
LEMMA RoutesElsewhere ==
  ASSUME Alive, NEW t \in Tasks, NEW l, Goes(t, l), NEW q, NEW s
  PROVE  /\ RoutesKept({t}, q, s)
         /\ (OnRoute(t, q, s) => OnRoute(t, q, s)') => RoutesKept({}, q, s)
<1>1. ASSUME NEW x \in Tasks \ {t} PROVE OnRoute(x, q, s) => OnRoute(x, q, s)'
  BY RouteStays DEF Goes, Alive
<1> QED
  BY <1>1 DEF RoutesKept

LEMMA RoutesLately ==
  ASSUME Typed, Alive, NEW late, UNCHANGED pc, loc' = Lately(late) \/ loc' = loc, NEW q, NEW s
  PROVE  RoutesKept({}, q, s)
<1>1. ASSUME NEW x \in Tasks PROVE OnRoute(x, q, s) => OnRoute(x, q, s)'
  BY LatelyFields, RouteStays DEF Alive
<1> QED
  BY <1>1 DEF RoutesKept


LEMMA AliveKept ==
  ASSUME Typed, Typed', Placing, Next
  PROVE  Alive \/ \E t, x \in Tasks : vTaskDelete(t, x)
<1> USE DEF core, sched
<1> DEFINE Live == Levels \cup Waiting
<1>1. /\ home \in [Tasks -> Places] /\ priority \in [Tasks -> Levels]
      /\ priority' \in [Tasks -> Levels]
  BY DEF Typed, PriosTyped
<1>2. ASSUME \A x \in Tasks : home'[x] = home[x] \/ home'[x] \in Live PROVE Alive
  BY <1>2, StaysAlive
<1>3. ASSUME NEW q \in Queues, NEW s \in Sides, NEW hm \in [Tasks -> Places],
             NEW pr \in [Tasks -> Levels], WakeFirst(q, s, hm, pr),
             \A x \in Tasks : hm[x] = home[x] \/ hm[x] \in Live
      PROVE  Alive
  <2>1. PICK off \in SUBSET Tasks : Woken(off, hm, pr)
    BY <1>3, WakeEffect
  <2>2. \A x \in Tasks : home'[x] = hm[x] \/ home'[x] \in Live
    BY <2>1 DEF Woken
  <2> QED
    BY <1>2, <1>3, <2>2
<1>4. ASSUME NEW q \in Queues, NEW s \in Sides, WakeFirst(q, s, home, priority)
      PROVE  Alive
  BY <1>1, <1>3, <1>4
<1>5. ASSUME NEW t \in Tasks, CallStep(t) \/ TakeCounted(t) \/ TryStep(t) PROVE Alive
  <2>1. PICK q \in Queues : q = loc[t].queue
    BY LocalsOf
  <2>2. CASE CallStep(t) \/ TakeCounted(t) \/ TryLater(t)
    BY <1>2, <2>2, CallApart
  <2>3. CASE TryReceive(t)
    BY <1>4, <2>1, <2>3 DEF TryReceive, Sides
  <2>4. CASE TryPeek(t)
    BY <1>4, <2>1, <2>4 DEF TryPeek, Sides
  <2>5. CASE TrySend(t)
    <3>1. PICK h : h = queue[q].holder
      OBVIOUS
    <3> DEFINE hm == IF h # NoTask /\ priority'[h] # priority[h]
                     THEN [home EXCEPT ![h] = priority'[h]] ELSE home
    <3>2. WakeFirst(q, "receive", hm, priority')
      BY <2>1, <2>5, <3>1 DEF TrySend
    <3>3. h \in Tasks \cup {NoTask}
      BY <2>1, <3>1, LocalsOf DEF RecordOK, QueueRecords
    <3>4. hm \in [Tasks -> Places] /\ \A x \in Tasks : hm[x] = home[x] \/ hm[x] \in Live
      BY <1>1, <3>3, LevelsTyped
    <3> HIDE DEF hm
    <3> QED
      BY <1>1, <1>3, <3>2, <3>4 DEF Sides
  <2> QED
    BY <1>5, <2>2, <2>3, <2>4, <2>5 DEF TryStep
<1>6. ASSUME NEW t \in Tasks PROVE Away(t) \in Live
  BY DEF Away, Waiting
<1>7. ASSUME NEW level, NEW late, NEW ticked, NEW anyway,
             ResumeAll(level, late, ticked, anyway)
      PROVE  Alive
  <2> DEFINE hm == [x \in Tasks |-> IF x \in ToSet(pendingReady) THEN priority[x]
                                                                 ELSE home[x]]
  <2>1. home' = [x \in Tasks |-> IF x \in late THEN priority[x] ELSE hm[x]]
    BY <1>7 DEF ResumeAll
  <2>2. \A x \in Tasks : home'[x] = home[x] \/ home'[x] \in Live
    BY <1>1, <2>1
  <2> QED
    BY <1>2, <2>2
<1>8. ASSUME NEW t \in Tasks, WaitStep(t) PROVE Alive
  <2>1. CASE vTaskPriorityInherit(t)
    <3>1. \E h : home' = HomeInherited(h, t)
      BY <2>1 DEF vTaskPriorityInherit
    <3>2. \A x \in Tasks : home'[x] = home[x] \/ home'[x] \in Live
      BY <1>1, <3>1 DEF HomeInherited
    <3> QED
      BY <1>2, <3>2
  <2>2. CASE vTaskPlaceOnEventList(t)
    <3>1. home' = [home EXCEPT ![t] = Away(t)]
      BY <2>2 DEF vTaskPlaceOnEventList
    <3> HIDE DEF Live
    <3> QED
      BY <1>1, <1>2, <1>6, <3>1
  <2>3. CASE xTaskResumeAll(t)
    BY <1>7, <2>3 DEF xTaskResumeAll
  <2>4. CASE \/ vTaskSuspendAll(t) \/ prvLockQueue(t) \/ xTaskCheckForTimeOut(t)
             \/ TestQueue(t) \/ UnlockTx(t) \/ UnlockRx(t)
    <3>1. UNCHANGED home
      BY <2>4 DEF vTaskSuspendAll, prvLockQueue, xTaskCheckForTimeOut, TestQueue,
         UnlockTx, UnlockRx, Replay
    <3> QED
      BY <1>2, <3>1
  <2> QED
    BY <1>8, <2>1, <2>2, <2>3, <2>4 DEF WaitStep
<1>9. ASSUME NEW t \in Tasks, AltStep(t) PROVE Alive
  <2>1. CASE UNCHANGED home
    BY <1>2, <2>1
  <2>2. CASE \E h : home' = [IF WaitsForMutex(t) THEN HomeInherited(h, t) ELSE home
                               EXCEPT ![t] = Away(t)]
    <3>1. PICK h : home' = [IF WaitsForMutex(t) THEN HomeInherited(h, t) ELSE home
                               EXCEPT ![t] = Away(t)]
      BY <2>2
    <3> DEFINE hm == IF WaitsForMutex(t) THEN HomeInherited(h, t) ELSE home
    <3>2. hm \in [Tasks -> Places] /\ \A x \in Tasks : hm[x] = home[x] \/ hm[x] \in Live
      BY <1>1, InheritMoves DEF HomeInherited
    <3>3. home' = [hm EXCEPT ![t] = Away(t)]
      BY <3>1
    <3> HIDE DEF hm, Live
    <3> QED
      BY <1>2, <1>6, <3>2, <3>3
  <2> QED
    BY <1>9, <2>1, <2>2 DEF AltStep, AltExpired, AltBlock
<1>10. ASSUME NEW t \in Tasks, OtherStep(t)
       PROVE  Alive \/ \E x \in Tasks : vTaskDelete(t, x)
  <2>1. ASSUME NEW x \in Tasks, NEW p \in Levels, vTaskPrioritySet(t, x, p) PROVE Alive
    <3>1. home' = home \/ home' = [home EXCEPT ![x] = priority'[x]]
      BY <1>1, <2>1 DEF vTaskPrioritySet
    <3> QED
      BY <1>1, <1>2, <3>1
  <2>2. ASSUME NEW x \in Tasks, vTaskSuspend(t, x) \/ vTaskResume(t, x) PROVE Alive
    <3>1. home' = [home EXCEPT ![x] = Suspended] \/ home' = [home EXCEPT ![x] = priority[x]]
      BY <2>2 DEF vTaskSuspend, vTaskResume
    <3> QED
      BY <1>1, <1>2, <3>1 DEF Waiting
  <2> QED
    BY <1>10, <2>1, <2>2, Zenon DEF OtherStep
<1>11. ASSUME IdleStep PROVE Alive
  <2>1. CASE CheckTermination
    BY <1>2, <2>1 DEF CheckTermination
  <2>2. CASE CheckedTermination
    BY <1>7, <2>2 DEF CheckedTermination
  <2>3. CASE prvDeleteTCB
    BY <1>1, <2>3 DEF prvDeleteTCB, Dead, Alive, Gone
  <2> QED
    BY <1>11, <2>1, <2>2, <2>3 DEF IdleStep
<1>12. ASSUME IsrStep PROVE Alive
  <2>1. ASSUME NEW q \in Queues, NEW x, NEW op, xQueueGenericSendFromISR(q, x, op)
        PROVE  Alive
    BY <1>2, <1>4, <2>1 DEF xQueueGenericSendFromISR, Sides
  <2>2. ASSUME NEW q \in Queues, xQueueReceiveFromISR(q) PROVE Alive
    BY <1>2, <1>4, <2>2 DEF xQueueReceiveFromISR, Sides
  <2>3. ASSUME NEW x \in Tasks, xTaskResumeFromISR(x) PROVE Alive
    <3>1. home' = home \/ home' = [home EXCEPT ![x] = priority[x]]
      BY <2>3 DEF xTaskResumeFromISR
    <3> QED
      BY <1>1, <1>2, <3>1
  <2> QED
    BY <1>12, <2>1, <2>2, <2>3 DEF IsrStep
<1>13. CASE vTaskSwitchContext
  BY <1>2, <1>13 DEF vTaskSwitchContext
<1> QED
  BY <1>5, <1>8, <1>9, <1>10, <1>11, <1>12, <1>13, NextCases


(* What came and went while the queues' locks stay.                         *)
LEMMA DueMoves ==
  ASSUME Typed, NEW q \in Queues, NEW count \in Int, NEW holder, NEW calls,
         Becomes(q, count, holder, calls, queue[q].rxLock, queue[q].txLock)
  PROVE  /\ Due(q, "send")' = Due(q, "send") - (count - queue[q].count)
         /\ Due(q, "receive")' = Due(q, "receive") + (count - queue[q].count)
         /\ \A p \in Queues \ {q}, s \in Sides : Due(p, s)' = Due(p, s)
<1>1. queue[q] \in QueueRecords /\ Capacity[q] \in Int
  BY ConstantsTyped DEF Typed, QueuesTyped
<1>2. queue[q].count \in Int /\ queue[q].rxLock \in Int /\ queue[q].txLock \in Int
  BY <1>1 DEF QueueRecords
<1>3. /\ queue'[q].count = count /\ queue'[q].rxLock = queue[q].rxLock
      /\ queue'[q].txLock = queue[q].txLock
      /\ \A p \in Queues \ {q} : queue'[p] = queue[p]
  BY DEF Becomes
<1>4. Replays(q, "send") \in Int /\ Replays(q, "receive") \in Int
  BY <1>2 DEF Replays, Locked
<1>5. \A s \in Sides : Replays(q, s)' = Replays(q, s)
  BY <1>3 DEF Replays
<1>6. /\ Supply(q, "send")' = Capacity[q] - count /\ Supply(q, "receive")' = count
      /\ Supply(q, "send") = Capacity[q] - queue[q].count
      /\ Supply(q, "receive") = queue[q].count
  BY <1>3 DEF Supply
<1>7. \A p \in Queues \ {q}, s \in Sides : Due(p, s)' = Due(p, s)
  BY <1>3 DEF Due, Supply, Replays
<1> QED
  BY <1>1, <1>2, <1>4, <1>5, <1>6, <1>7 DEF Due, Sides

(* Steps after which nothing more is due, for which nobody waits that did   *)
(* not before.                                                              *)
LEMMA CoverQuiet ==
  ASSUME Typed, Typed', Placing, AllCovered,
         \A q \in Queues, s \in Sides :
           /\ Due(q, s)' <= Due(q, s) /\ RoutesKept({}, q, s)
           /\ ToSet(blocked'[q][s]) \subseteq ToSet(blocked[q][s])
  PROVE  AllCovered'
BY CoverStays DEF AllCovered

LEMMA SameDue ==
  ASSUME Typed, UNCHANGED queue
  PROVE  \A q \in Queues, s \in Sides : Due(q, s)' = Due(q, s) /\ Due(q, s)' <= Due(q, s)
BY DueTyped DEF Due, Supply, Replays

(* A task that must wait sees nothing.                                      *)
LEMMA NotReady ==
  ASSUME Typed, NEW t \in Tasks, ~Ready(loc[t].op, loc[t].queue)
  PROVE  Due(loc[t].queue, Side(loc[t].op)) <= 0
<1>1. PICK q \in Queues : q = loc[t].queue
  BY LocalsOf
<1>2. RecordOK(q, queue[q]) /\ Capacity[q] \in Nat
  BY ConstantsTyped DEF Typed, QueuesTyped
<1>3. Supply(q, Side(loc[t].op)) <= 0
  <2>1. queue[q].count \in Nat
    BY <1>2 DEF RecordOK
  <2>2. CASE Sends(loc[t].op)
    <3>1. Side(loc[t].op) = "send" /\ ~(queue[q].count < Capacity[q])
      BY <1>1, <2>2 DEF Side, Ready, HasRoom
    <3> QED
      BY <1>2, <2>1, <3>1 DEF Supply
  <2>3. CASE ~Sends(loc[t].op)
    <3>1. Side(loc[t].op) = "receive" /\ ~(queue[q].count > 0)
      BY <1>1, <2>3 DEF Side, Ready, HasItem
    <3> QED
      BY <2>1, <3>1 DEF Supply
  <2> QED
    BY <2>2, <2>3
<1>4. /\ Due(q, Side(loc[t].op)) <= Supply(q, Side(loc[t].op))
      /\ Due(q, Side(loc[t].op)) \in Int /\ Supply(q, Side(loc[t].op)) \in Int
  BY DueTyped
<1> QED
  BY <1>1, <1>3, <1>4

(* At a label off the way.                                                  *)
LEMMA OffRoute ==
  ASSUME NEW t, pc[t] \notin {"try", "unlockTx", "unlockRx", "resume"}, NEW q, NEW s
  PROVE  ~OnRoute(t, q, s)
BY DEF OnRoute

LEMMA CoverCall ==
  ASSUME Typed, Typed', Placing, Alive, AllCovered, NEW t \in Tasks,
         CallStep(t) \/ TakeCounted(t) \/ AltExpired(t)
  PROVE  AllCovered'
<1>1. (UNCHANGED <<pc, loc>>) \/ \E l \in Labels : Goes(t, l)
  BY TaskGoes DEF AltStep
<1>2. pc[t] \in {"run", "count", "wait"} /\ UNCHANGED blocked
  BY DEF CallStep, Call, TakeRecursive, GiveRecursive, TakeCounted, AltExpired, At
<1>3. ASSUME NEW q \in Queues, NEW s \in Sides PROVE RoutesKept({}, q, s)
  <2>1. CASE UNCHANGED <<pc, loc>>
    BY <2>1, RoutesLately
  <2>2. ASSUME NEW l \in Labels, Goes(t, l) PROVE RoutesKept({}, q, s)
    BY <1>2, <2>2, OffRoute, RoutesElsewhere
  <2> QED
    BY <1>1, <2>1, <2>2
<1>4. \A q \in Queues : queue[q].count \in Int
  BY DEF Typed, QueuesTyped, QueueRecords
<1>5. UNCHANGED queue \/ \E q \in Queues, n \in Int : queue' = [queue EXCEPT ![q].calls = n]
  <2>1. ASSUME NEW op, NEW q \in Queues, NEW w, TakeRecursive(t, q, w) \/ GiveRecursive(t, q)
        PROVE  UNCHANGED queue \/ \E n \in Int : queue' = [queue EXCEPT ![q].calls = n]
    <3>1. queue[q].calls \in Int
      BY DEF Typed, QueuesTyped, QueueRecords
    <3> QED
      BY <2>1, <3>1 DEF TakeRecursive, GiveRecursive
  <2>2. CASE TakeCounted(t)
    <3>1. PICK q \in Queues : q = loc[t].queue
      BY LocalsOf
    <3>2. queue[q].calls + 1 \in Int
      BY DEF Typed, QueuesTyped, QueueRecords
    <3>3. queue' = [queue EXCEPT ![q].calls = queue[q].calls + 1]
      BY <2>2, <3>1 DEF TakeCounted
    <3> QED
      BY <3>2, <3>3
  <2>3. CASE CallStep(t)
    <3>1. PICK op \in Operations, q \in Queues, w \in Waits :
            Call(t, op, q, w) \/ TakeRecursive(t, q, w) \/ GiveRecursive(t, q)
      BY <2>3, Zenon DEF CallStep
    <3>2. CASE Call(t, op, q, w)
      BY <3>2 DEF Call
    <3> QED
      BY <2>1, <3>1, <3>2, Zenon
  <2>4. CASE AltExpired(t)
    BY <2>4 DEF AltExpired
  <2> QED
    BY <2>2, <2>3, <2>4
<1>6. \A q \in Queues, s \in Sides : Due(q, s)' <= Due(q, s)
  <2>1. CASE UNCHANGED queue
    BY <2>1, SameDue
  <2>2. ASSUME NEW p \in Queues, NEW n \in Int, queue' = [queue EXCEPT ![p].calls = n],
               NEW q \in Queues, NEW s \in Sides
        PROVE  Due(q, s)' <= Due(q, s)
    <3>1. queue \in [Queues -> QueueRecords] /\ queue[p] \in QueueRecords
      BY DEF Typed, QueuesTyped
    <3>2. /\ queue'[q].count = queue[q].count /\ queue'[q].rxLock = queue[q].rxLock
          /\ queue'[q].txLock = queue[q].txLock
      BY <2>2, <3>1 DEF QueueRecords
    <3>3. Due(q, s)' = Due(q, s)
      BY <3>2 DEF Due, Supply, Replays
    <3> QED
      BY <3>3, DueTyped
  <2> QED
    BY <1>5, <2>1, <2>2
<1> QED
  BY <1>2, <1>3, <1>6, CoverQuiet


(* What a task finds to take, it takes; and it may wake one for what that   *)
(* makes.                                                                   *)
LEMMA CoverTaken ==
  ASSUME Typed, Typed', Placing, Alive, AllCovered, NEW t \in Tasks, At(t, "try"),
         NEW l, Goes(t, l), NEW q \in Queues, q = loc[t].queue,
         NEW e \in Sides, NEW hm \in [Tasks -> Places], NEW pr \in [Tasks -> Levels],
         WakeFirst(q, e, hm, pr),
         \A p \in Queues, s \in Sides :
           Due(p, s)' <= Due(p, s) + (IF p = q /\ s = e THEN 1 ELSE 0)
                                   - (IF p = q /\ s = Side(loc[t].op) THEN 1 ELSE 0)
  PROVE  AllCovered'
<1>1. ASSUME NEW p \in Queues, NEW s \in Sides PROVE Covered(p, s)'
  <2>1. Covered(p, s)
    BY DEF AllCovered
  <2>2. t \notin ToSet(blocked[p][s])
    BY RunsReady DEF At, Blocking, OnAList
  <2>3. CASE p = q /\ s = Side(loc[t].op)
    <3>1. IsFiniteSet({t}) /\ Cardinality({t}) = 1 /\ {t} \cap ToSet(blocked[p][s]) = {}
      BY <2>2, FS_Singleton
    <3>2. RoutesKept({t}, p, s)
      BY RoutesElsewhere
    <3>3. Due(p, s)' <= Due(p, s) + (IF p = q /\ s = e THEN 1 ELSE 0) - Cardinality({t})
      BY <2>3, <3>1
    <3> QED
      BY <2>1, <3>1, <3>2, <3>3, CoverWakes
  <2>4. CASE p # q \/ s # Side(loc[t].op)
    <3>1. IsFiniteSet({}) /\ Cardinality({}) = 0 /\ {} \cap ToSet(blocked[p][s]) = {}
      BY FS_EmptySet
    <3>2. ~OnRoute(t, p, s)
      BY <2>4 DEF OnRoute
    <3>3. RoutesKept({}, p, s)
      BY <3>2, RoutesElsewhere
    <3>4. Due(p, s)' <= Due(p, s) + (IF p = q /\ s = e THEN 1 ELSE 0) - 0
      BY <2>4
    <3>5. Due(p, s)' <= Due(p, s) + (IF p = q /\ s = e THEN 1 ELSE 0) - Cardinality({})
      BY <3>1, <3>4
    <3> QED
      BY <2>1, <3>1, <3>3, <3>5, CoverWakes
  <2> QED
    BY <2>3, <2>4
<1> QED
  BY <1>1 DEF AllCovered

LEMMA CoverTry ==
  ASSUME Typed, Typed', Called, Placing, Alive, AllCovered, NEW t \in Tasks, TryStep(t)
  PROVE  AllCovered'
<1>1. PICK q \in Queues : q = loc[t].queue
  BY LocalsOf
<1>2. /\ home \in [Tasks -> Places] /\ priority \in [Tasks -> Levels]
      /\ priority' \in [Tasks -> Levels] /\ queue[q].count \in Int
  BY DEF Typed, PriosTyped, QueuesTyped, QueueRecords
<1>3. At(t, "try")
  BY DEF TryStep, TrySend, TryReceive, TryPeek, TryLater
<1>4. PICK l \in Labels : Goes(t, l)
  <2>1. ASSUME Return(t) PROVE \E l \in Labels : Goes(t, l)
    BY <2>1, ReturnGoes DEF Labels
  <2>2. ASSUME UNCHANGED loc, NEW l \in {"count"}, Goto(t, l)
        PROVE  \E k \in Labels : Goes(t, k)
    BY <2>2, GotoGoes DEF Labels
  <2>3. ASSUME loc' = [loc EXCEPT ![t].timed = TRUE], NEW l \in {"wait", "suspend"}, Goto(t, l)
        PROVE  \E k \in Labels : Goes(t, k)
    BY <2>3, TimedGoes DEF Labels
  <2> QED
    BY <2>1, <2>2, <2>3 DEF TryStep, TrySend, TryReceive, TryPeek, TryLater
<1>5. \A p \in Queues, s \in Sides : Due(p, s) \in Int /\ Due(p, s)' \in Int
  BY DueTyped, DueTypedNext
<1>6. CASE TrySend(t)
  <2>1. PICK h : h = queue[q].holder
    OBVIOUS
  <2> DEFINE hm == IF h # NoTask /\ priority'[h] # priority[h]
                   THEN [home EXCEPT ![h] = priority'[h]] ELSE home
  <2>2. WakeFirst(q, "receive", hm, priority') /\ Side(loc[t].op) = "send"
    BY <1>1, <1>6, <2>1 DEF TrySend, Side
  <2>3. h \in Tasks \cup {NoTask}
    BY <1>1, <2>1, LocalsOf DEF RecordOK, QueueRecords
  <2>4. hm \in [Tasks -> Places]
    BY <1>2, <2>3, LevelsTyped
  <2>5. /\ Due(q, "send")' = Due(q, "send") - 1
        /\ Due(q, "receive")' = Due(q, "receive") + 1
        /\ \A p \in Queues \ {q}, s \in Sides : Due(p, s)' = Due(p, s)
    <3>1. Becomes(q, queue[q].count + 1, NoTask, queue[q].calls, queue[q].rxLock,
                  queue[q].txLock)
      BY <1>1, <1>6, TrySendQueue
    <3>2. queue[q].count + 1 \in Int /\ (queue[q].count + 1) - queue[q].count = 1
      BY <1>2
    <3> QED
      BY <3>1, <3>2, DueMoves
  <2> HIDE DEF hm
  <2>6. ASSUME NEW p \in Queues, NEW s \in Sides
        PROVE  Due(p, s)' <= Due(p, s) + (IF p = q /\ s = "receive" THEN 1 ELSE 0)
                                       - (IF p = q /\ s = "send" THEN 1 ELSE 0)
    BY <1>5, <2>5 DEF Sides
  <2> QED
    BY <1>1, <1>2, <1>3, <1>4, <2>2, <2>4, <2>6, CoverTaken DEF Sides
<1>7. CASE TryReceive(t)
  <2>1. WakeFirst(q, "send", home, priority) /\ Side(loc[t].op) = "receive"
    BY <1>1, <1>7 DEF TryReceive, Side, Sends
  <2>2. /\ Due(q, "send")' = Due(q, "send") + 1
        /\ Due(q, "receive")' = Due(q, "receive") - 1
        /\ \A p \in Queues \ {q}, s \in Sides : Due(p, s)' = Due(p, s)
    <3>1. \E holder : Becomes(q, queue[q].count - 1, holder, queue[q].calls,
                              queue[q].rxLock, queue[q].txLock)
      BY <1>1, <1>7, TryReceiveQueue
    <3>2. queue[q].count - 1 \in Int /\ (queue[q].count - 1) - queue[q].count = -1
      BY <1>2
    <3> QED
      <4>1. /\ Due(q, "send")' = Due(q, "send") - (-1)
            /\ Due(q, "receive")' = Due(q, "receive") + -1
            /\ \A p \in Queues \ {q}, s \in Sides : Due(p, s)' = Due(p, s)
        BY <3>1, <3>2, DueMoves
      <4>2. Due(q, "send") \in Int /\ Due(q, "receive") \in Int
        BY DueTyped
      <4> QED
        BY <4>1, <4>2
  <2>3. ASSUME NEW p \in Queues, NEW s \in Sides
        PROVE  Due(p, s)' <= Due(p, s) + (IF p = q /\ s = "send" THEN 1 ELSE 0)
                                       - (IF p = q /\ s = "receive" THEN 1 ELSE 0)
    BY <1>5, <2>2 DEF Sides
  <2> QED
    BY <1>1, <1>2, <1>3, <1>4, <2>1, <2>3, CoverTaken DEF Sides
<1>8. CASE TryPeek(t)
  <2>1. /\ WakeFirst(q, "receive", home, priority) /\ Side(loc[t].op) = "receive"
        /\ UNCHANGED queue
    BY <1>1, <1>8 DEF TryPeek, Side, Sends
  <2>2. ASSUME NEW p \in Queues, NEW s \in Sides
        PROVE  Due(p, s)' <= Due(p, s) + (IF p = q /\ s = "receive" THEN 1 ELSE 0)
                                       - (IF p = q /\ s = "receive" THEN 1 ELSE 0)
    <3>1. Due(p, s)' = Due(p, s)
      BY <2>1, SameDue
    <3> QED
      BY <1>5, <3>1
  <2> QED
    BY <1>1, <1>2, <1>3, <1>4, <2>1, <2>2, CoverTaken DEF Sides
<1>9. CASE TryLater(t)
  <2>1. UNCHANGED <<queue, blocked>> /\ ~Ready(loc[t].op, q)
    BY <1>1, <1>9 DEF TryLater
  <2>2. Due(q, Side(loc[t].op)) <= 0
    BY <1>1, <2>1, NotReady
  <2>3. ASSUME NEW p \in Queues, NEW s \in Sides PROVE Covered(p, s)'
    <3>1. Due(p, s)' = Due(p, s)
      BY <2>1, SameDue
    <3>2. CASE p = q /\ s = Side(loc[t].op)
      BY <1>5, <2>2, <3>1, <3>2, NothingDue
    <3>3. CASE p # q \/ s # Side(loc[t].op)
      <4>1. ~OnRoute(t, p, s)
        BY <1>1, <3>3 DEF OnRoute
      <4>2. RoutesKept({}, p, s)
        BY <1>4, <4>1, RoutesElsewhere
      <4>3. Covered(p, s) /\ Due(p, s)' <= Due(p, s)
        BY <1>5, <3>1 DEF AllCovered
      <4> QED
        BY <2>1, <4>2, <4>3, CoverStays
    <3> QED
      BY <3>2, <3>3
  <2> QED
    BY <2>3 DEF AllCovered
<1> QED
  BY <1>6, <1>7, <1>8, <1>9 DEF TryStep


(* The tasks that prvUnlockQueue wakes are as many as things came or went,  *)
(* or nobody waits any more.                                                *)
LEMMA CoverReplay ==
  ASSUME Typed, Typed', Placing, Alive, AllCovered, NEW t \in Tasks, suspendAll # 0,
         NEW e \in Sides, NEW count \in Int, Replay(t, count, e),
         NEW q \in Queues, q = loc[t].queue,
         pc[t] \in {"unlockTx", "unlockRx"}, NEW l \in {"unlockRx", "resume"}, Goto(t, l),
         \A p \in Queues, s \in Sides :
           Due(p, s)' <= Due(p, s) + (IF p = q /\ s = e THEN IF count < 0 THEN 0 ELSE count
                                                        ELSE 0)
  PROVE  AllCovered'
<1>1. Goes(t, l) /\ loc'[t] = loc[t] /\ UNCHANGED loc
  BY GotoGoes DEF Labels, Sections, Replay
<1>2. PICK off \in SUBSET Tasks :
        /\ off \subseteq ToSet(blocked[q][e]) /\ Woken(off, home, priority)
        /\ IsFiniteSet(off)
        /\ blocked'[q][e] # <<>> => Cardinality(off) = IF count < 0 THEN 0 ELSE count
  BY ReplayEffect
<1>3. ASSUME NEW p \in Queues, NEW s \in Sides
      PROVE  /\ RoutesKept({}, p, s)
             /\ ToSet(blocked'[p][s]) = ToSet(blocked[p][s]) \ off
             /\ Covered(p, s)
  <2>1. OnRoute(t, p, s) => OnRoute(t, p, s)'
    <3>1. pc'[t] \in {"unlockRx", "resume"} /\ (Gone(t)' => Gone(t))
      BY <1>1 DEF Goes, Alive
    <3>2. pc[t] # "try"
      OBVIOUS
    <3> QED
      BY <1>1, <3>1, <3>2 DEF OnRoute
  <2> QED
    BY <1>1, <1>2, <2>1, RoutesElsewhere DEF Woken, LeftLists, AllCovered
<1>4. ASSUME NEW p \in Queues, NEW s \in Sides PROVE Covered(p, s)'
  <2>1. CASE blocked'[p][s] = <<>>
    BY <2>1 DEF Covered
  <2>2. CASE p = q /\ s = e /\ blocked'[p][s] # <<>>
    <3>1. off \subseteq ToSet(blocked[p][s])
      BY <1>2, <2>2
    <3>2. Cardinality(off) = IF count < 0 THEN 0 ELSE count
      BY <1>2, <2>2
    <3>3. IsFiniteSet({}) /\ Cardinality({}) = 0 /\ {} \cap ToSet(blocked[p][s]) = {}
      BY FS_EmptySet
    <3>4. Due(p, s)' <= Due(p, s) + Cardinality(off) - Cardinality({})
      <4>1. Due(p, s)' <= Due(p, s) + Cardinality(off) /\ Cardinality(off) \in Int
        BY <2>2, <3>2
      <4>2. Due(p, s) \in Int /\ Due(p, s)' \in Int
        BY DueTyped, DueTypedNext
      <4> QED
        BY <3>3, <4>1, <4>2
    <3>5. \A x \in Tasks \ {} : OnRoute(x, p, s) => \/ OnRoute(x, p, s)'
                                                    \/ x \in ToSet(blocked[p][s]) \ off
      BY <1>3 DEF RoutesKept
    <3> QED
      BY <1>3, <3>1, <3>3, <3>4, <3>5, CoverMoves
  <2>3. CASE p # q \/ s # e
    <3>1. Due(p, s)' <= Due(p, s)
      <4>1. Due(p, s)' <= Due(p, s) + 0
        BY <2>3
      <4>2. Due(p, s) \in Int /\ Due(p, s)' \in Int
        BY DueTyped, DueTypedNext
      <4> QED
        BY <4>1, <4>2
    <3>2. ToSet(blocked'[p][s]) \subseteq ToSet(blocked[p][s])
      BY <1>3
    <3> QED
      BY <1>3, <3>1, <3>2, CoverStays
  <2> QED
    BY <2>1, <2>2, <2>3
<1> QED
  BY <1>4 DEF AllCovered

LEMMA CoverUnlock ==
  ASSUME Typed, Typed', Locking, Placing, Alive, AllCovered, NEW t \in Tasks,
         UnlockTx(t) \/ UnlockRx(t)
  PROVE  AllCovered'
<1>1. PICK q \in Queues : q = loc[t].queue
  BY LocalsOf
<1>2. suspendAll # 0
  BY InCall DEF UnlockTx, UnlockRx, At, Sections
<1>3. /\ queue[q].txLock \in Unlocked .. MaxLock /\ queue[q].rxLock \in Unlocked .. MaxLock
      /\ queue[q].txLock \in Int /\ queue[q].rxLock \in Int
  <2>1. RecordOK(q, queue[q]) /\ MaxLock \in Int
    BY ConstantsTyped DEF Typed, QueuesTyped
  <2> QED
    BY <2>1 DEF RecordOK, Unlocked
<1>4. \A p \in Queues, s \in Sides : Due(p, s) \in Int /\ Due(p, s)' \in Int
  BY DueTyped, DueTypedNext
<1>5. \A k \in Unlocked .. MaxLock : /\ Locked(k) = (IF k < 0 THEN 0 ELSE k)
                                     /\ Locked(k) \in Int
  BY ConstantsTyped DEF Locked, Unlocked
<1>6. Locked(Unlocked) = 0
  BY DEF Locked
<1>7. \A s \in Sides : Supply(q, s) \in Int
  BY DueTyped
<1>8. CASE UnlockTx(t)
  <2>1. /\ Replay(t, queue[q].txLock, "receive") /\ pc[t] = "unlockTx"
        /\ Goto(t, "unlockRx")
    BY <1>1, <1>8 DEF UnlockTx, At
  <2>2. /\ queue'[q].count = queue[q].count /\ queue'[q].rxLock = queue[q].rxLock
        /\ queue'[q].txLock = Unlocked /\ \A p \in Queues \ {q} : queue'[p] = queue[p]
    BY <1>1, <1>8, UnlockTxQueue DEF Becomes
  <2>3. /\ Due(q, "receive")' = Due(q, "receive") + Locked(queue[q].txLock)
        /\ Due(q, "send")' = Due(q, "send")
    <3>1. Supply(q, "receive")' = Supply(q, "receive") /\ Supply(q, "send")' = Supply(q, "send")
      BY <2>2 DEF Supply
    <3>2. /\ Replays(q, "receive")' = 0 /\ Replays(q, "send")' = Replays(q, "send")
          /\ Replays(q, "receive") = Locked(queue[q].txLock)
      BY <1>6, <2>2 DEF Replays
    <3>3. Supply(q, "receive") \in Int /\ Locked(queue[q].txLock) \in Int
      BY <1>3, <1>5, <1>7 DEF Sides
    <3> QED
      BY <3>1, <3>2, <3>3 DEF Due
  <2>4. \A p \in Queues \ {q}, s \in Sides : Due(p, s)' = Due(p, s)
    BY <2>2 DEF Due, Supply, Replays
  <2> DEFINE k == queue[q].txLock
  <2>5. Locked(k) = (IF k < 0 THEN 0 ELSE k) /\ k \in Int
    BY <1>3, <1>5
  <2> HIDE DEF k
  <2>6. ASSUME NEW p \in Queues, NEW s \in Sides
        PROVE  Due(p, s)' <= Due(p, s) + (IF p = q /\ s = "receive"
                                          THEN IF k < 0 THEN 0 ELSE k ELSE 0)
    BY <1>4, <2>3, <2>4, <2>5 DEF Sides, k
  <2> QED
    BY <1>1, <1>2, <2>1, <2>5, <2>6, CoverReplay DEF Sides, k
<1>9. CASE UnlockRx(t)
  <2>1. /\ Replay(t, queue[q].rxLock, "send") /\ pc[t] = "unlockRx"
        /\ Goto(t, "resume")
    BY <1>1, <1>9 DEF UnlockRx, At
  <2>2. /\ queue'[q].count = queue[q].count /\ queue'[q].txLock = queue[q].txLock
        /\ queue'[q].rxLock = Unlocked /\ \A p \in Queues \ {q} : queue'[p] = queue[p]
    BY <1>1, <1>9, UnlockRxQueue DEF Becomes
  <2>3. /\ Due(q, "send")' = Due(q, "send") + Locked(queue[q].rxLock)
        /\ Due(q, "receive")' = Due(q, "receive")
    <3>1. Supply(q, "receive")' = Supply(q, "receive") /\ Supply(q, "send")' = Supply(q, "send")
      BY <2>2 DEF Supply
    <3>2. /\ Replays(q, "send")' = 0 /\ Replays(q, "receive")' = Replays(q, "receive")
          /\ Replays(q, "send") = Locked(queue[q].rxLock)
      BY <1>6, <2>2 DEF Replays
    <3>3. Supply(q, "send") \in Int /\ Locked(queue[q].rxLock) \in Int
      BY <1>3, <1>5, <1>7 DEF Sides
    <3> QED
      BY <3>1, <3>2, <3>3 DEF Due
  <2>4. \A p \in Queues \ {q}, s \in Sides : Due(p, s)' = Due(p, s)
    BY <2>2 DEF Due, Supply, Replays
  <2> DEFINE k == queue[q].rxLock
  <2>5. Locked(k) = (IF k < 0 THEN 0 ELSE k) /\ k \in Int
    BY <1>3, <1>5
  <2> HIDE DEF k
  <2>6. ASSUME NEW p \in Queues, NEW s \in Sides
        PROVE  Due(p, s)' <= Due(p, s) + (IF p = q /\ s = "send"
                                          THEN IF k < 0 THEN 0 ELSE k ELSE 0)
    BY <1>4, <2>3, <2>4, <2>5 DEF Sides, k
  <2> QED
    BY <1>1, <1>2, <2>1, <2>5, <2>6, CoverReplay DEF Sides, k
<1> QED
  BY <1>8, <1>9


(* A task joins an event list for which nothing is due.                     *)
LEMMA CoverPlaced ==
  ASSUME Typed, Typed', Placing, Alive, AllCovered, NEW t \in Tasks, ~OnAList(t),
         pc[t] \in {"place", "wait"}, Placed(t), NEW l, Goes(t, l), UNCHANGED queue,
         Due(loc[t].queue, Side(loc[t].op)) <= 0
  PROVE  AllCovered'
<1>1. PICK q \in Queues, e \in Sides : q = loc[t].queue /\ e = Side(loc[t].op)
  BY LocalsOf
<1>2. ASSUME NEW p \in Queues, NEW s \in Sides PROVE Covered(p, s)'
  <2>1. Due(p, s)' = Due(p, s) /\ Due(p, s) \in Int /\ Due(p, s)' \in Int /\ Covered(p, s)
    BY SameDue, DueTyped, DueTypedNext DEF AllCovered
  <2>2. CASE p = q /\ s = e
    BY <1>1, <2>1, <2>2, NothingDue
  <2>3. CASE p # q \/ s # e
    <3>1. blocked'[p][s] = blocked[p][s]
      BY <1>1, <2>3, PlaceEffect
    <3>2. RoutesKept({}, p, s)
      BY OffRoute, RoutesElsewhere
    <3>3. Due(p, s)' <= Due(p, s)
      BY <2>1
    <3> QED
      BY <2>1, <3>1, <3>2, <3>3, CoverStays
  <2> QED
    BY <2>2, <2>3
<1> QED
  BY <1>2 DEF AllCovered

(* The tasks whose time is over leave the event lists, to try again.        *)
LEMMA CoverResumed ==
  ASSUME Typed, Typed', Placing, Alive, AllCovered, UNCHANGED queue, NEW late,
         blocked' = Released(late),
         \A q \in Queues, s \in Sides : RoutesKept({}, q, s)
  PROVE  AllCovered'
<1>1. \A q \in Queues, s \in Sides : ToSet(blocked'[q][s]) \subseteq ToSet(blocked[q][s])
  BY ReleaseEffect DEF LeftLists
<1> QED
  BY <1>1, SameDue, CoverQuiet

LEMMA CoverWait ==
  ASSUME Typed, Typed', Called, Locking, Placing, Alive, AllCovered, Noticed,
         NEW t \in Tasks, WaitStep(t)
  PROVE  AllCovered'
<1> USE DEF At, core, sched
<1>1. PICK q \in Queues : q = loc[t].queue
  BY LocalsOf
(* On to the next label, with the queues as they are.                       *)
<1>2. ASSUME NEW l, Goes(t, l), pc[t] \notin {"try", "unlockTx", "unlockRx", "resume"},
             UNCHANGED blocked, \A p \in Queues, s \in Sides : Due(p, s)' <= Due(p, s)
      PROVE  AllCovered'
  BY <1>2, OffRoute, RoutesElsewhere, CoverQuiet
<1>3. ASSUME NEW l, Goes(t, l), pc[t] \notin {"try", "unlockTx", "unlockRx", "resume"},
             UNCHANGED <<blocked, queue>>
      PROVE  AllCovered'
  BY <1>2, <1>3, SameDue
<1>4. ASSUME ~xTaskResumeAll(t) PROVE \E l \in Labels : Goes(t, l)
  BY <1>4, WaitGoes
<1>5. CASE \/ vTaskSuspendAll(t) \/ xTaskCheckForTimeOut(t) \/ TestQueue(t)
           \/ vTaskPriorityInherit(t)
  <2>1. /\ UNCHANGED <<blocked, queue>> /\ ~xTaskResumeAll(t)
        /\ pc[t] \notin {"try", "unlockTx", "unlockRx", "resume"}
    BY <1>5 DEF vTaskSuspendAll, xTaskCheckForTimeOut, TestQueue, vTaskPriorityInherit,
       xTaskResumeAll
  <2> QED
    BY <1>3, <1>4, <2>1
<1>6. CASE prvLockQueue(t)
  <2>1. UNCHANGED blocked /\ ~xTaskResumeAll(t) /\ pc[t] = "lock"
    BY <1>6 DEF prvLockQueue, xTaskResumeAll
  <2>2. /\ queue'[q].count = queue[q].count
        /\ queue'[q].rxLock = Locked(queue[q].rxLock)
        /\ queue'[q].txLock = Locked(queue[q].txLock)
        /\ \A p \in Queues \ {q} : queue'[p] = queue[p]
    BY <1>1, <1>6, LockQueue DEF Becomes
  <2>3. \A k : Locked(Locked(k)) = Locked(k)
    BY DEF Locked, Unlocked
  <2>4. ASSUME NEW p \in Queues, NEW s \in Sides PROVE Due(p, s)' <= Due(p, s)
    <3>1. Due(p, s)' = Due(p, s)
      <4>1. CASE p = q
        <5>1. Replays(q, s)' = Replays(q, s) /\ Supply(q, s)' = Supply(q, s)
          BY <2>2, <2>3 DEF Replays, Supply
        <5> QED
          BY <4>1, <5>1 DEF Due
      <4>2. CASE p # q
        BY <2>2, <4>2 DEF Due, Supply, Replays
      <4> QED
        BY <4>1, <4>2
    <3> QED
      BY <3>1, DueTyped
  <2> QED
    BY <1>2, <1>4, <2>1, <2>4
<1>7. CASE vTaskPlaceOnEventList(t)
  <2>1. /\ running = t /\ ~yield /\ pc[t] = "place" /\ Placed(t) /\ UNCHANGED queue
        /\ Leave(t, "block", FALSE)
    BY <1>7 DEF vTaskPlaceOnEventList
  <2>2. ~OnAList(t) /\ Goes(t, "unlockTx")
    BY <2>1, RunsReady, LeaveGoes DEF Blocking
  <2>3. Due(loc[t].queue, Side(loc[t].op)) <= 0
    BY <2>1 DEF Noticed, NoticedAt
  <2> QED
    BY <2>1, <2>2, <2>3, CoverPlaced
<1>8. CASE UnlockTx(t) \/ UnlockRx(t)
  BY <1>8, CoverUnlock
<1>9. CASE xTaskResumeAll(t)
  <2>1. PICK late \in SUBSET {x \in Tasks : home[x] = Delayed}, ticked \in BOOLEAN :
          /\ ResumeAll(priority[t], late, ticked, loc[t].then = "block")
          /\ IF loc[t].then = "fail"
             THEN Goto(t, "run") /\ loc' = [Lately(late) EXCEPT ![t] = NoLocals]
             ELSE Goto(t, "try") /\ loc' = Lately(late)
    BY <1>9 DEF xTaskResumeAll
  <2>2. pc[t] = "resume" /\ UNCHANGED queue /\ blocked' = Released(late)
    BY <1>9, <2>1 DEF xTaskResumeAll, ResumeAll
  <2> DEFINE f == Lately(late)
  <2>3. /\ pc \in [Tasks -> Labels] /\ f \in [Tasks -> Locals]
        /\ \A x \in Tasks : /\ f[x].op = loc[x].op /\ f[x].queue = loc[x].queue
                            /\ f[x].timed = loc[x].timed /\ f[x].then = loc[x].then
    BY LatelyFields DEF Typed, CallsTyped
  <2> HIDE DEF f
  <2>4. \A x \in Tasks \ {t} : pc'[x] = pc[x] /\ loc'[x] = f[x]
    BY <2>1, <2>3 DEF Goto, f
  <2>5. loc[t].then # "fail" => pc'[t] = "try" /\ loc'[t] = f[t]
    BY <2>1, <2>3 DEF Goto, f
  <2>6. ASSUME NEW p \in Queues, NEW s \in Sides, NEW x \in Tasks, OnRoute(x, p, s)
        PROVE  OnRoute(x, p, s)'
    <3>1. CASE x = t
      <4>1. loc[t].then # "fail"
        BY <2>2, <2>6, <3>1 DEF OnRoute
      <4> QED
        BY <2>3, <2>5, <2>6, <3>1, <4>1 DEF OnRoute, Alive, Side, Sends
    <3>2. CASE x # t
      BY <2>3, <2>4, <2>6, <3>2, RouteStays DEF Alive
    <3> QED
      BY <3>1, <3>2
  <2> QED
    BY <2>2, <2>6, CoverResumed DEF RoutesKept
<1> QED
  BY <1>5, <1>6, <1>7, <1>8, <1>9 DEF WaitStep

LEMMA CoverAlt ==
  ASSUME Typed, Typed', Placing, Alive, AllCovered, NEW t \in Tasks, AltBlock(t)
  PROVE  AllCovered'
<1> USE DEF At
<1>1. /\ running = t /\ ~yield /\ pc[t] = "wait" /\ UNCHANGED <<queue, loc>>
      /\ Goto(t, "try")
  BY DEF AltBlock
<1>2. Goes(t, "try") /\ ~OnAList(t)
  BY <1>1, GotoGoes, RunsReady DEF Labels, Blocking
<1>3. CASE Ready(loc[t].op, loc[t].queue)
  <2>1. UNCHANGED blocked
    BY <1>3 DEF AltBlock
  <2> QED
    BY <1>1, <1>2, <2>1, OffRoute, RoutesElsewhere, SameDue, CoverQuiet
<1>4. CASE ~Ready(loc[t].op, loc[t].queue)
  <2>1. Placed(t)
    BY <1>4 DEF AltBlock
  <2> QED
    BY <1>1, <1>2, <1>4, <2>1, NotReady, CoverPlaced
<1> QED
  BY <1>3, <1>4


(* The task deleted was on its way to nothing.                              *)
LEMMA CoverDelete ==
  ASSUME Typed, Typed', Locking, Placing, AllCovered, NEW t \in Tasks, NEW x \in Tasks,
         vTaskDelete(t, x)
  PROVE  AllCovered'
<1>1. /\ running = t /\ pc[t] = "run" /\ Deletable(x) /\ UNCHANGED <<queue, pc, loc>>
      /\ home' = [home EXCEPT ![x] = Terminated] /\ blocked' = Released({x})
  BY DEF vTaskDelete, At
<1>2. pc[x] \notin Sections
  BY <1>1, InCall DEF Sections
<1>3. home \in [Tasks -> Places]
  BY DEF Typed
<1>4. ASSUME NEW p \in Queues, NEW s \in Sides PROVE Covered(p, s)'
  <2>1. ASSUME NEW y \in Tasks, OnRoute(y, p, s)
        PROVE  OnRoute(y, p, s)' \/ y \in ToSet(blocked[p][s])
    <3>1. CASE y = x
      <4>1. loc[x].timed /\ pc[x] = "try"
        BY <1>2, <2>1, <3>1 DEF OnRoute, Sections
      <4>2. PICK q \in Queues, e \in Sides : x \in ToSet(blocked[q][e])
        BY <1>1, <4>1 DEF Deletable, Sides
      <4>3. q = p /\ e = s
        BY <2>1, <3>1, <4>2 DEF Placing, Entered, OnRoute
      <4> QED
        BY <3>1, <4>2, <4>3
    <3>2. CASE y # x
      <4>1. Gone(y)' => Gone(y)
        BY <1>1, <1>3, <3>2 DEF Gone
      <4> QED
        BY <1>1, <2>1, <4>1, RouteStays
    <3> QED
      BY <3>1, <3>2
  <2>2. \A y \in Tasks \ {} : OnRoute(y, p, s) => \/ OnRoute(y, p, s)'
                                                  \/ y \in ToSet(blocked[p][s]) \ {}
    BY <2>1
  <2>3. ToSet(blocked'[p][s]) \subseteq ToSet(blocked[p][s]) \ {}
    <3>1. LeftLists({x})
      BY <1>1, ReleaseEffect
    <3>2. ToSet(blocked'[p][s]) \subseteq ToSet(blocked[p][s])
      BY <3>1 DEF LeftLists
    <3> QED
      BY <3>2
  <2>4. IsFiniteSet({}) /\ Cardinality({}) = 0
    BY FS_EmptySet
  <2>5. Due(p, s)' = Due(p, s) /\ Due(p, s) \in Int
    BY <1>1, SameDue, DueTyped
  <2>6. Due(p, s)' <= Due(p, s) + Cardinality({}) - Cardinality({})
    BY <2>4, <2>5
  <2>7. Covered(p, s)
    BY DEF AllCovered
  <2> QED
    BY <2>2, <2>3, <2>4, <2>6, <2>7, CoverMoves
<1> QED
  BY <1>4 DEF AllCovered

LEMMA CoverOther ==
  ASSUME Typed, Typed', Locking, Placing, AllCovered, NEW t \in Tasks, OtherStep(t),
         Alive \/ \E u, x \in Tasks : vTaskDelete(u, x)
  PROVE  AllCovered'
<1>1. CASE \E u, x \in Tasks : vTaskDelete(u, x)
  BY <1>1, CoverDelete
<1>2. CASE Alive /\ ~\E u, x \in Tasks : vTaskDelete(u, x)
  <2>1. UNCHANGED <<queue, pc, loc>> /\ (UNCHANGED blocked \/ \E x : blocked' = Released({x}))
    BY <1>2 DEF OtherStep, vTaskPrioritySet, vTaskSuspend, vTaskResume
  <2>2. \A q \in Queues, s \in Sides : RoutesKept({}, q, s)
    BY <1>2, <2>1, RoutesLately
  <2>3. CASE UNCHANGED blocked
    BY <2>1, <2>2, <2>3, SameDue, CoverQuiet
  <2>4. CASE \E x : blocked' = Released({x})
    BY <1>2, <2>1, <2>2, <2>4, CoverResumed
  <2> QED
    BY <2>1, <2>3, <2>4
<1> QED
  BY <1>1, <1>2

LEMMA CoverIdle ==
  ASSUME Typed, Typed', Placing, Alive, AllCovered, IdleStep \/ vTaskSwitchContext
  PROVE  AllCovered'
<1>1. CASE CheckedTermination
  <2>1. PICK late : blocked' = Released(late) /\ loc' = Lately(late)
    BY <1>1 DEF CheckedTermination, ResumeAll
  <2>2. UNCHANGED <<queue, pc>>
    BY <1>1 DEF CheckedTermination
  <2>3. \A q \in Queues, s \in Sides : RoutesKept({}, q, s)
    BY <2>1, <2>2, RoutesLately
  <2> QED
    BY <2>1, <2>2, <2>3, CoverResumed
<1>2. CASE CheckTermination \/ prvDeleteTCB \/ vTaskSwitchContext
  <2>1. UNCHANGED <<queue, blocked, pc, loc>>
    BY <1>2 DEF CheckTermination, prvDeleteTCB, vTaskSwitchContext
  <2>2. \A q \in Queues, s \in Sides : RoutesKept({}, q, s)
    BY <2>1, RoutesLately
  <2> QED
    BY <2>1, <2>2, SameDue, CoverQuiet
<1> QED
  BY <1>1, <1>2 DEF IdleStep

(* What an interrupt brings to a queue: it wakes a task for it, or counts   *)
(* it in the lock.                                                          *)
LEMMA CoverBrought ==
  ASSUME Typed, Typed', Placing, Alive, AllCovered, UNCHANGED <<pc, loc>>,
         NEW q \in Queues, NEW e \in Sides,
         \/ /\ WakeFirst(q, e, home, priority)
            /\ \A p \in Queues, s \in Sides :
                 Due(p, s)' <= Due(p, s) + (IF p = q /\ s = e THEN 1 ELSE 0)
         \/ /\ UNCHANGED blocked
            /\ \A p \in Queues, s \in Sides : Due(p, s)' <= Due(p, s)
  PROVE  AllCovered'
<1>1. \A p \in Queues, s \in Sides : RoutesKept({}, p, s)
  BY RoutesLately
<1>2. CASE /\ WakeFirst(q, e, home, priority)
           /\ \A p \in Queues, s \in Sides :
                Due(p, s)' <= Due(p, s) + (IF p = q /\ s = e THEN 1 ELSE 0)
  <2>1. home \in [Tasks -> Places] /\ priority \in [Tasks -> Levels]
    BY DEF Typed, PriosTyped
  <2>2. ASSUME NEW p \in Queues, NEW s \in Sides PROVE Covered(p, s)'
    <3>1. IsFiniteSet({}) /\ Cardinality({}) = 0 /\ {} \cap ToSet(blocked[p][s]) = {}
      BY FS_EmptySet
    <3>2. Due(p, s)' \in Int /\ Due(p, s) \in Int
      BY DueTyped, DueTypedNext
    <3>3. Due(p, s)' <= Due(p, s) + (IF p = q /\ s = e THEN 1 ELSE 0) - Cardinality({})
      BY <1>2, <3>1, <3>2
    <3>4. Covered(p, s)
      BY DEF AllCovered
    <3> QED
      BY <1>1, <1>2, <2>1, <3>1, <3>3, <3>4, CoverWakes
  <2> QED
    BY <2>2 DEF AllCovered
<1>3. CASE /\ UNCHANGED blocked
           /\ \A p \in Queues, s \in Sides : Due(p, s)' <= Due(p, s)
  BY <1>1, <1>3, CoverQuiet
<1> QED
  BY <1>2, <1>3


LEMMA ReplaysCounted ==
  ASSUME NEW k \in Int
  PROVE  /\ k = Unlocked => Counted(k) = Unlocked
         /\ k # Unlocked /\ k >= 0 =>
              Counted(k) # Unlocked /\ Locked(Counted(k)) = Locked(k) + 1
BY DEF Counted, Locked, Unlocked

(* An item that an interrupt sends or takes: what it makes due on one side  *)
(* if the queue is not locked, it takes away on the other.                  *)
LEMMA DueCounted ==
  ASSUME Typed, NEW q \in Queues, NEW k \in Int, NEW u \in Sides, NEW v \in Sides,
         \A p \in Queues \ {q} : queue'[p] = queue[p],
         k = Unlocked \/ k >= 0, u # v,
         Supply(q, v)' = Supply(q, v) - 1, Replays(q, v)' = Replays(q, v),
         Supply(q, u)' = Supply(q, u) + 1, Replays(q, u) = Locked(k),
         Replays(q, u)' = Locked(Counted(k))
  PROVE  /\ \A p \in Queues \ {q}, s \in Sides : Due(p, s)' = Due(p, s)
         /\ Due(q, v)' = Due(q, v) - 1
         /\ Due(q, u)' = Due(q, u) + (IF k = Unlocked THEN 1 ELSE 0)
         /\ \A p \in Queues, s \in Sides :
              Due(p, s)' <= Due(p, s) + (IF p = q /\ s = u /\ k = Unlocked THEN 1 ELSE 0)
<1>1. \A p \in Queues \ {q}, s \in Sides : Due(p, s)' = Due(p, s)
  BY DEF Due, Supply, Replays
<1>2. \A s \in Sides : Supply(q, s) \in Int /\ Replays(q, s) \in Int
  BY DueTyped
<1>3. Due(q, v)' = Due(q, v) - 1
  BY <1>2 DEF Due
<1>4. Due(q, u)' = Due(q, u) + (IF k = Unlocked THEN 1 ELSE 0)
  <2>1. CASE k = Unlocked
    <3>1. Replays(q, u)' = Replays(q, u)
      BY <2>1, ReplaysCounted
    <3> QED
      BY <1>2, <2>1, <3>1 DEF Due
  <2>2. CASE k # Unlocked
    <3>1. Replays(q, u)' = Replays(q, u) + 1
      BY <2>2, ReplaysCounted
    <3> QED
      BY <1>2, <2>2, <3>1 DEF Due
  <2> QED
    BY <2>1, <2>2
<1>5. ASSUME NEW p \in Queues, NEW s \in Sides
      PROVE  Due(p, s)' <= Due(p, s) + (IF p = q /\ s = u /\ k = Unlocked THEN 1 ELSE 0)
  <2>1. Due(p, s) \in Int
    BY DueTyped
  <2>2. s = u \/ s = v
    BY DEF Sides
  <2> QED
    BY <1>1, <1>3, <1>4, <2>1, <2>2
<1> QED
  BY <1>1, <1>3, <1>4, <1>5

LEMMA DueSent ==
  ASSUME Typed, NEW q \in Queues, NEW x \in Items, NEW op, xQueueGenericSendFromISR(q, x, op)
  PROVE  LET k == queue[q].txLock
         IN  /\ \A p \in Queues \ {q}, s \in Sides : Due(p, s)' = Due(p, s)
             /\ Due(q, "send")' = Due(q, "send") - 1
             /\ Due(q, "receive")' = Due(q, "receive") + (IF k = Unlocked THEN 1 ELSE 0)
             /\ \A p \in Queues, s \in Sides :
                  Due(p, s)' <= Due(p, s)
                    + (IF p = q /\ s = "receive" /\ k = Unlocked THEN 1 ELSE 0)
<1> DEFINE k == queue[q].txLock
<1>1. /\ queue'[q].count = queue[q].count + 1 /\ queue'[q].rxLock = queue[q].rxLock
      /\ queue'[q].txLock = Counted(k) /\ \A p \in Queues \ {q} : queue'[p] = queue[p]
  BY SendFromISRQueue DEF Becomes
<1>2. RecordOK(q, queue[q]) /\ Capacity[q] \in Int /\ MaxLock \in Int
  BY ConstantsTyped DEF Typed, QueuesTyped
<1>3. queue[q].count \in Int /\ k \in Int /\ (k = Unlocked \/ k >= 0)
  <2>1. queue[q].count \in Int /\ k \in Unlocked .. MaxLock
    BY <1>2 DEF RecordOK
  <2> QED
    BY <1>2, <2>1 DEF Unlocked
<1>4. Supply(q, "send")' = Supply(q, "send") - 1 /\ Supply(q, "receive")' = Supply(q, "receive") + 1
  BY <1>1, <1>2, <1>3 DEF Supply
<1>5. /\ Replays(q, "send")' = Replays(q, "send") /\ Replays(q, "receive") = Locked(k)
      /\ Replays(q, "receive")' = Locked(Counted(k))
  BY <1>1 DEF Replays
<1> HIDE DEF k
<1> QED
  BY <1>1, <1>3, <1>4, <1>5, DueCounted DEF Sides, k

LEMMA DueTaken ==
  ASSUME Typed, NEW q \in Queues, xQueueReceiveFromISR(q)
  PROVE  LET k == queue[q].rxLock
         IN  /\ \A p \in Queues \ {q}, s \in Sides : Due(p, s)' = Due(p, s)
             /\ Due(q, "receive")' = Due(q, "receive") - 1
             /\ Due(q, "send")' = Due(q, "send") + (IF k = Unlocked THEN 1 ELSE 0)
             /\ \A p \in Queues, s \in Sides :
                  Due(p, s)' <= Due(p, s)
                    + (IF p = q /\ s = "send" /\ k = Unlocked THEN 1 ELSE 0)
<1> DEFINE k == queue[q].rxLock
<1>1. /\ queue'[q].count = queue[q].count - 1 /\ queue'[q].txLock = queue[q].txLock
      /\ queue'[q].rxLock = Counted(k) /\ \A p \in Queues \ {q} : queue'[p] = queue[p]
  BY ReceiveFromISRQueue DEF Becomes
<1>2. RecordOK(q, queue[q]) /\ Capacity[q] \in Int /\ MaxLock \in Int
  BY ConstantsTyped DEF Typed, QueuesTyped
<1>3. queue[q].count \in Int /\ k \in Int /\ (k = Unlocked \/ k >= 0)
  <2>1. queue[q].count \in Int /\ k \in Unlocked .. MaxLock
    BY <1>2 DEF RecordOK
  <2> QED
    BY <1>2, <2>1 DEF Unlocked
<1>4. Supply(q, "receive")' = Supply(q, "receive") - 1 /\ Supply(q, "send")' = Supply(q, "send") + 1
  BY <1>1, <1>2, <1>3 DEF Supply
<1>5. /\ Replays(q, "receive")' = Replays(q, "receive") /\ Replays(q, "send") = Locked(k)
      /\ Replays(q, "send")' = Locked(Counted(k))
  BY <1>1 DEF Replays
<1> HIDE DEF k
<1> QED
  BY <1>1, <1>3, <1>4, <1>5, DueCounted DEF Sides, k

LEMMA CoverIsr ==
  ASSUME Typed, Typed', Placing, Alive, AllCovered, IsrStep
  PROVE  AllCovered'
<1> USE DEF core, sched
<1>1. ASSUME NEW q \in Queues, NEW x \in Items, NEW op, xQueueGenericSendFromISR(q, x, op)
      PROVE  AllCovered'
  <2>1. UNCHANGED <<pc, loc>>
    BY <1>1 DEF xQueueGenericSendFromISR
  <2>2. CASE queue[q].txLock = Unlocked
    <3>1. WakeFirst(q, "receive", home, priority)
      BY <1>1, <2>2 DEF xQueueGenericSendFromISR
    <3>2. \A p \in Queues, s \in Sides :
            Due(p, s)' <= Due(p, s) + (IF p = q /\ s = "receive" THEN 1 ELSE 0)
      BY <1>1, <2>2, DueSent
    <3> QED
      BY <2>1, <3>1, <3>2, CoverBrought DEF Sides
  <2>3. CASE queue[q].txLock # Unlocked
    <3>1. UNCHANGED blocked
      BY <1>1, <2>3 DEF xQueueGenericSendFromISR
    <3>2. ASSUME NEW p \in Queues, NEW s \in Sides PROVE Due(p, s)' <= Due(p, s)
      <4>1. Due(p, s)' <= Due(p, s) + 0 /\ Due(p, s) \in Int
        BY <1>1, <2>3, DueSent, DueTyped
      <4> QED
        BY <4>1
    <3> QED
      BY <2>1, <3>1, <3>2, CoverBrought DEF Sides
  <2> QED
    BY <2>2, <2>3
<1>2. ASSUME NEW q \in Queues, xQueueReceiveFromISR(q) PROVE AllCovered'
  <2>1. UNCHANGED <<pc, loc>>
    BY <1>2 DEF xQueueReceiveFromISR
  <2>2. CASE queue[q].rxLock = Unlocked
    <3>1. WakeFirst(q, "send", home, priority)
      BY <1>2, <2>2 DEF xQueueReceiveFromISR
    <3>2. \A p \in Queues, s \in Sides :
            Due(p, s)' <= Due(p, s) + (IF p = q /\ s = "send" THEN 1 ELSE 0)
      BY <1>2, <2>2, DueTaken
    <3> QED
      BY <2>1, <3>1, <3>2, CoverBrought DEF Sides
  <2>3. CASE queue[q].rxLock # Unlocked
    <3>1. UNCHANGED blocked
      BY <1>2, <2>3 DEF xQueueReceiveFromISR
    <3>2. ASSUME NEW p \in Queues, NEW s \in Sides PROVE Due(p, s)' <= Due(p, s)
      <4>1. Due(p, s)' <= Due(p, s) + 0 /\ Due(p, s) \in Int
        BY <1>2, <2>3, DueTaken, DueTyped
      <4> QED
        BY <4>1
    <3> QED
      BY <2>1, <3>1, <3>2, CoverBrought DEF Sides
  <2> QED
    BY <2>2, <2>3
<1>3. ASSUME NEW x, xTaskResumeFromISR(x) PROVE AllCovered'
  <2>1. UNCHANGED <<queue, blocked, pc, loc>>
    BY <1>3 DEF xTaskResumeFromISR
  <2>2. \A q \in Queues, s \in Sides : RoutesKept({}, q, s)
    BY <2>1, RoutesLately
  <2> QED
    BY <2>1, <2>2, SameDue, CoverQuiet
<1> QED
  BY <1>1, <1>2, <1>3 DEF IsrStep

LEMMA CoverKept ==
  ASSUME IInv, Typed', AllCovered, Noticed, Next
  PROVE  AllCovered'
<1>1. /\ Typed /\ Called /\ Locking /\ Placing
      /\ Alive \/ \E t, x \in Tasks : vTaskDelete(t, x)
  BY AliveKept DEF IInv
<1>2. CASE \E t, x \in Tasks : vTaskDelete(t, x)
  BY <1>1, <1>2, CoverDelete
<1>3. CASE Alive
  BY <1>1, <1>3, CoverCall, CoverTry, CoverWait, CoverAlt, CoverOther, CoverIdle, CoverIsr,
     NextCases DEF AltStep
<1> QED
  BY <1>1, <1>2, <1>3

-----------------------------------------------------------------------------
(* What was noticed stays true.                                             *)

LEMMA NoticedOutside ==
  ASSUME NEW t, pc'[t] \notin Sections
  PROVE  NoticedAt(t)'
BY DEF NoticedAt, Sections

(* The tasks that wait have the core to themselves.                         *)
LEMMA NoticedAlone ==
  ASSUME Typed, Locking, NEW t \in Tasks, running = t, NEW l, Goes(t, l), NoticedAt(t)'
  PROVE  Noticed'
<1>1. ASSUME NEW x \in Tasks, x # t PROVE NoticedAt(x)'
  <2>1. pc[x] \notin Sections
    BY <1>1, InCall
  <2>2. pc'[x] = pc[x]
    BY <1>1 DEF Goes
  <2> QED
    BY <2>1, <2>2, NoticedOutside
<1> QED
  BY <1>1 DEF Noticed

(* Nothing changes for the task, and nothing more is due.                   *)
LEMMA NoticedStays ==
  ASSUME Typed, Typed', NEW t \in Tasks, NoticedAt(t), NEW q \in Queues, q = loc[t].queue,
         pc'[t] = pc[t], loc'[t].queue = q, loc'[t].op = loc[t].op,
         queue[q].rxLock # Unlocked => queue'[q].rxLock # Unlocked,
         queue[q].txLock # Unlocked => queue'[q].txLock # Unlocked,
         queue[q].rxLock # Unlocked /\ queue[q].txLock # Unlocked =>
           \A s \in Sides : Due(q, s)' <= Due(q, s)
  PROVE  NoticedAt(t)'
<1>1. CASE pc[t] \in {"check", "test", "inherit", "place", "unlockTx"}
  <2>1. queue[q].rxLock # Unlocked /\ queue[q].txLock # Unlocked
    BY <1>1 DEF NoticedAt
  <2>2. queue'[q].rxLock # Unlocked /\ queue'[q].txLock # Unlocked
    BY <2>1
  <2>3. PICK s \in Sides : s = Side(loc[t].op) /\ s = Side(loc'[t].op)
    BY DEF Side, Sends, Sides
  <2>4. Due(q, s) \in Int /\ Due(q, s)' \in Int /\ Due(q, s)' <= Due(q, s)
    BY <2>1, DueTyped, DueTypedNext
  <2>5. pc[t] \in {"inherit", "place"} => Due(q, s) <= 0
    BY <2>3 DEF NoticedAt
  <2>6. pc[t] \in {"inherit", "place"} => Due(q, s)' <= 0
    BY <2>4, <2>5
  <2> QED
    BY <2>2, <2>3, <2>6 DEF NoticedAt
<1>2. CASE pc[t] \notin {"check", "test", "inherit", "place", "unlockTx"}
  BY <1>2 DEF NoticedAt
<1> QED
  BY <1>1, <1>2

(* No task moves, and the queues stay as they are.                          *)
LEMMA NoticedLately ==
  ASSUME Typed, Typed', Noticed, UNCHANGED <<queue, pc>>,
         UNCHANGED loc \/ \E late : loc' = Lately(late)
  PROVE  Noticed'
<1>1. ASSUME NEW t \in Tasks PROVE NoticedAt(t)'
  <2>1. loc'[t].queue = loc[t].queue /\ loc'[t].op = loc[t].op
    BY LatelyFields
  <2>2. PICK q \in Queues : q = loc[t].queue
    BY LocalsOf
  <2>3. \A s \in Sides : Due(q, s)' <= Due(q, s)
    BY SameDue
  <2> QED
    BY <2>1, <2>2, <2>3, NoticedStays DEF Noticed
<1> QED
  BY <1>1 DEF Noticed

(* From a label where the queue is locked to another.                       *)
LEMMA NoticedOn ==
  ASSUME Typed, Typed', Locking, Noticed, NEW t \in Tasks, running = t, NEW l, Goes(t, l),
         SameCall(t), UNCHANGED queue,
         pc[t] \in {"check", "test", "inherit", "place", "unlockTx"},
         l \in {"inherit", "place"} => Due(loc[t].queue, Side(loc[t].op)) <= 0
  PROVE  Noticed'
<1>1. PICK q \in Queues, s \in Sides : q = loc[t].queue /\ s = Side(loc[t].op)
  BY LocalsOf
<1>2. q = loc'[t].queue /\ s = Side(loc'[t].op) /\ pc'[t] = l
  BY <1>1 DEF SameCall, Goes
<1>3. queue'[q].rxLock # Unlocked /\ queue'[q].txLock # Unlocked
  BY <1>1 DEF Noticed, NoticedAt
<1>4. Due(q, s)' = Due(q, s)
  BY SameDue
<1>5. l \in {"inherit", "place"} => Due(q, s)' <= 0
  BY <1>1, <1>4
<1>6. NoticedAt(t)'
  BY <1>2, <1>3, <1>5 DEF NoticedAt
<1> QED
  BY <1>6, NoticedAlone

LEMMA NoticedWait ==
  ASSUME Typed, Typed', Locking, Noticed, NEW t \in Tasks, WaitStep(t)
  PROVE  Noticed'
<1> USE DEF At
<1>1. running = t
  BY DEF WaitStep, vTaskSuspendAll, prvLockQueue, xTaskCheckForTimeOut, TestQueue,
     vTaskPriorityInherit, vTaskPlaceOnEventList, UnlockTx, UnlockRx, xTaskResumeAll
<1>2. ASSUME NEW l \in Labels, Goto(t, l), UNCHANGED loc PROVE Goes(t, l) /\ SameCall(t)
  BY <1>2, GotoGoes DEF SameCall
<1>3. ASSUME NEW then \in {"fail", "retry", "block"}, NEW late \in BOOLEAN,
             Leave(t, then, late)
      PROVE  Goes(t, "unlockTx") /\ SameCall(t)
  BY <1>3, LeaveGoes
<1>4. ASSUME NEW l, Goes(t, l), l \notin {"check", "test", "inherit", "place", "unlockTx"}
      PROVE  Noticed'
  <2>1. NoticedAt(t)'
    BY <1>4 DEF NoticedAt, Goes
  <2> QED
    BY <1>1, <1>4, <2>1, NoticedAlone
<1>5. CASE vTaskSuspendAll(t)
  BY <1>2, <1>4, <1>5 DEF vTaskSuspendAll, Labels, Sections
<1>6. CASE prvLockQueue(t)
  <2>1. PICK q \in Queues : q = loc[t].queue
    BY LocalsOf
  <2>2. queue'[q].rxLock = Locked(queue[q].rxLock) /\ queue'[q].txLock = Locked(queue[q].txLock)
    BY <1>6, <2>1, LockQueue DEF Becomes
  <2>3. \A k : Locked(k) # Unlocked
    BY DEF Locked, Unlocked
  <2>4. Goes(t, "check") /\ SameCall(t)
    BY <1>2, <1>6 DEF prvLockQueue, Labels, Sections
  <2>5. NoticedAt(t)'
    BY <2>1, <2>2, <2>3, <2>4 DEF NoticedAt, Goes, SameCall
  <2> QED
    BY <1>1, <2>4, <2>5, NoticedAlone
<1>7. CASE xTaskCheckForTimeOut(t)
  <2>1. pc[t] = "check" /\ UNCHANGED queue
    BY <1>7 DEF xTaskCheckForTimeOut
  <2>2. \E l \in {"test", "unlockTx"} : Goes(t, l) /\ SameCall(t)
    BY <1>2, <1>3, <1>7 DEF xTaskCheckForTimeOut, Labels, Sections
  <2> QED
    BY <1>1, <2>1, <2>2, NoticedOn
<1>8. CASE TestQueue(t)
  <2>1. pc[t] = "test" /\ UNCHANGED queue
    BY <1>8 DEF TestQueue
  <2>2. CASE Ready(loc[t].op, loc[t].queue)
    <3>1. Goes(t, "unlockTx") /\ SameCall(t)
      BY <1>3, <1>8, <2>2 DEF TestQueue
    <3> QED
      BY <1>1, <2>1, <3>1, NoticedOn
  <2>3. CASE ~Ready(loc[t].op, loc[t].queue)
    <3>1. \E l \in {"inherit", "place"} : Goes(t, l) /\ SameCall(t)
      BY <1>2, <1>8, <2>3 DEF TestQueue, Labels, Sections
    <3>2. Due(loc[t].queue, Side(loc[t].op)) <= 0
      BY <2>3, NotReady
    <3> QED
      BY <1>1, <2>1, <3>1, <3>2, NoticedOn
  <2> QED
    BY <2>2, <2>3
<1>9. CASE vTaskPriorityInherit(t)
  <2>1. pc[t] = "inherit" /\ UNCHANGED queue /\ Goes(t, "place") /\ SameCall(t)
    BY <1>2, <1>9 DEF vTaskPriorityInherit, Labels, Sections
  <2>2. Due(loc[t].queue, Side(loc[t].op)) <= 0
    BY <2>1 DEF Noticed, NoticedAt
  <2> QED
    BY <1>1, <2>1, <2>2, NoticedOn
<1>10. CASE vTaskPlaceOnEventList(t)
  <2>1. pc[t] = "place" /\ UNCHANGED queue /\ Leave(t, "block", FALSE)
    BY <1>10, Zenon DEF vTaskPlaceOnEventList
  <2>2. Goes(t, "unlockTx") /\ SameCall(t)
    BY <1>3, <2>1
  <2> QED
    BY <1>1, <2>1, <2>2, NoticedOn
<1>11. CASE UnlockTx(t) \/ UnlockRx(t)
  <2>1. \E l \in {"unlockRx", "resume"} : Goto(t, l) /\ UNCHANGED loc
    BY <1>11, Zenon DEF UnlockTx, UnlockRx, Replay
  <2>2. \E l \in {"unlockRx", "resume"} : Goes(t, l)
    BY <1>2, <2>1 DEF Labels, Sections
  <2> QED
    BY <1>4, <2>2
<1>12. CASE xTaskResumeAll(t)
  <2>1. pc \in [Tasks -> Labels] /\ pc[t] = "resume"
    BY <1>12 DEF xTaskResumeAll, Typed, CallsTyped
  <2>2. \A x \in Tasks \ {t} : pc'[x] = pc[x]
    BY <1>12, <2>1 DEF xTaskResumeAll, Goto
  <2>3. pc'[t] \in {"run", "try"}
    BY <1>12, <2>1 DEF xTaskResumeAll, Goto
  <2>4. \A x \in Tasks : pc'[x] \notin Sections
    BY <1>1, <2>2, <2>3, InCall DEF Sections
  <2> QED
    BY <2>4, NoticedOutside DEF Noticed
<1> QED
  BY <1>5, <1>6, <1>7, <1>8, <1>9, <1>10, <1>11, <1>12 DEF WaitStep

LEMMA NoticedIsr ==
  ASSUME Typed, Typed', Noticed, IsrStep
  PROVE  Noticed'
<1> USE DEF core, sched
<1>1. ASSUME NEW p \in Queues, UNCHANGED <<pc, loc>>,
             queue[p].rxLock # Unlocked => queue'[p].rxLock # Unlocked,
             queue[p].txLock # Unlocked => queue'[p].txLock # Unlocked,
             \A q \in Queues \ {p} : queue'[q] = queue[q],
             \A q \in Queues, s \in Sides :
                queue[q].rxLock # Unlocked /\ queue[q].txLock # Unlocked =>
                   Due(q, s)' <= Due(q, s)
      PROVE  Noticed'
  <2>1. ASSUME NEW t \in Tasks PROVE NoticedAt(t)'
    <3>1. PICK q \in Queues : q = loc[t].queue
      BY LocalsOf
    <3>2. /\ queue[q].rxLock # Unlocked => queue'[q].rxLock # Unlocked
          /\ queue[q].txLock # Unlocked => queue'[q].txLock # Unlocked
      BY <1>1
    <3>3. queue[q].rxLock # Unlocked /\ queue[q].txLock # Unlocked =>
            \A s \in Sides : Due(q, s)' <= Due(q, s)
      BY <1>1
    <3>4. /\ NoticedAt(t) /\ pc'[t] = pc[t] /\ loc'[t].queue = q
          /\ loc'[t].op = loc[t].op
      BY <1>1, <3>1 DEF Noticed
    <3> QED
      BY <3>1, <3>2, <3>3, <3>4, NoticedStays
  <2> QED
    BY <2>1 DEF Noticed
<1>2. ASSUME NEW q \in Queues, NEW x \in Items, NEW op, xQueueGenericSendFromISR(q, x, op)
      PROVE  Noticed'
  <2>1. UNCHANGED <<pc, loc>>
    BY <1>2 DEF xQueueGenericSendFromISR
  <2>2. /\ queue'[q].rxLock = queue[q].rxLock /\ queue'[q].txLock = Counted(queue[q].txLock)
        /\ \A p \in Queues \ {q} : queue'[p] = queue[p]
    BY <1>2, SendFromISRQueue DEF Becomes
  <2>3. queue[q].txLock # Unlocked => queue'[q].txLock # Unlocked
    <3>1. queue[q].txLock \in Int /\ (queue[q].txLock = Unlocked \/ queue[q].txLock >= 0)
      <4>1. queue[q].txLock \in Unlocked .. MaxLock
        BY DEF Typed, QueuesTyped, RecordOK
      <4> QED
        BY <4>1, ConstantsTyped DEF Unlocked
    <3> QED
      BY <2>2, <3>1, ReplaysCounted
  <2>4. ASSUME NEW p \in Queues, NEW s \in Sides,
               queue[p].rxLock # Unlocked /\ queue[p].txLock # Unlocked
        PROVE  Due(p, s)' <= Due(p, s)
    <3>1. /\ Due(p, s) \in Int
          /\ Due(p, s)' <= Due(p, s)
               + (IF p = q /\ s = "receive" /\ queue[q].txLock = Unlocked THEN 1 ELSE 0)
      BY <1>2, DueSent, DueTyped
    <3>2. ~(p = q /\ s = "receive" /\ queue[q].txLock = Unlocked)
      BY <2>4
    <3> QED
      BY <3>1, <3>2
  <2> QED
    BY <1>1, <2>1, <2>2, <2>3, <2>4
<1>3. ASSUME NEW q \in Queues, xQueueReceiveFromISR(q) PROVE Noticed'
  <2>1. UNCHANGED <<pc, loc>>
    BY <1>3 DEF xQueueReceiveFromISR
  <2>2. /\ queue'[q].txLock = queue[q].txLock /\ queue'[q].rxLock = Counted(queue[q].rxLock)
        /\ \A p \in Queues \ {q} : queue'[p] = queue[p]
    BY <1>3, ReceiveFromISRQueue DEF Becomes
  <2>3. queue[q].rxLock # Unlocked => queue'[q].rxLock # Unlocked
    <3>1. queue[q].rxLock \in Int /\ (queue[q].rxLock = Unlocked \/ queue[q].rxLock >= 0)
      <4>1. queue[q].rxLock \in Unlocked .. MaxLock
        BY DEF Typed, QueuesTyped, RecordOK
      <4> QED
        BY <4>1, ConstantsTyped DEF Unlocked
    <3> QED
      BY <2>2, <3>1, ReplaysCounted
  <2>4. ASSUME NEW p \in Queues, NEW s \in Sides,
               queue[p].rxLock # Unlocked /\ queue[p].txLock # Unlocked
        PROVE  Due(p, s)' <= Due(p, s)
    <3>1. /\ Due(p, s) \in Int
          /\ Due(p, s)' <= Due(p, s)
               + (IF p = q /\ s = "send" /\ queue[q].rxLock = Unlocked THEN 1 ELSE 0)
      BY <1>3, DueTaken, DueTyped
    <3>2. ~(p = q /\ s = "send" /\ queue[q].rxLock = Unlocked)
      BY <2>4
    <3> QED
      BY <3>1, <3>2
  <2> QED
    BY <1>1, <2>1, <2>2, <2>3, <2>4
<1>4. ASSUME NEW x, xTaskResumeFromISR(x) PROVE Noticed'
  BY <1>4, NoticedLately DEF xTaskResumeFromISR
<1> QED
  BY <1>2, <1>3, <1>4 DEF IsrStep

LEMMA NoticedKept ==
  ASSUME IInv, Typed', Noticed, Next
  PROVE  Noticed'
<1> USE DEF At, core
<1>1. Typed /\ Locking
  BY DEF IInv
<1>2. ASSUME NEW t \in Tasks, CallStep(t) \/ TakeCounted(t) \/ TryStep(t) \/ AltStep(t)
      PROVE  Noticed'
  <2>1. running = t /\ pc[t] \notin Sections
    BY <1>2 DEF CallStep, Call, TakeRecursive, GiveRecursive, TakeCounted, TryStep, TrySend,
       TryReceive, TryPeek, TryLater, AltStep, AltExpired, AltBlock, Sections
  <2>2. ASSUME NEW x \in Tasks PROVE pc'[x] \notin Sections
    <3>1. CASE UNCHANGED <<pc, loc>>
      BY <1>1, <2>1, <3>1, InCall
    <3>2. ASSUME NEW l \in Labels, l \notin Sections, Goes(t, l) PROVE pc'[x] \notin Sections
      <4>1. x # t => pc'[x] = pc[x] /\ pc[x] \notin Sections
        BY <1>1, <2>1, <3>2, InCall DEF Goes
      <4> QED
        BY <3>2, <4>1 DEF Goes
    <3> QED
      BY <1>1, <1>2, <3>1, <3>2, TaskGoes
  <2> QED
    BY <2>2, NoticedOutside DEF Noticed
<1>3. ASSUME NEW t \in Tasks, OtherStep(t) PROVE Noticed'
  <2>1. UNCHANGED <<queue, pc, loc>>
    BY <1>3 DEF OtherStep, vTaskPrioritySet, vTaskSuspend, vTaskResume, vTaskDelete
  <2> QED
    BY <1>1, <2>1, NoticedLately
<1>4. CASE IdleStep \/ vTaskSwitchContext
  <2>1. /\ UNCHANGED <<queue, pc>>
        /\ UNCHANGED loc \/ \E late : loc' = Lately(late)
    BY <1>4 DEF IdleStep, CheckTermination, CheckedTermination, prvDeleteTCB,
       vTaskSwitchContext
  <2> QED
    BY <1>1, <2>1, NoticedLately
<1> QED
  BY <1>1, <1>2, <1>3, <1>4, NoticedWait, NoticedIsr, NextCases

-----------------------------------------------------------------------------
(* At first nobody waits, nor holds a lock.                                 *)
LEMMA InitCovered ==
  ASSUME Init
  PROVE  AllCovered /\ Noticed
<1>1. \A q \in Queues, s \in Sides : blocked[q][s] = <<>>
  BY DEF Init, Sides
<1>2. \A t \in Tasks : pc[t] = "run"
  BY DEF Init
<1>3. AllCovered
  BY <1>1 DEF AllCovered, Covered
<1>4. Noticed
  BY <1>2 DEF Noticed, NoticedAt
<1> QED
  BY <1>3, <1>4

LEMMA CoveredStutters ==
  ASSUME AllCovered, Noticed, UNCHANGED vars
  PROVE  AllCovered' /\ Noticed'
<1>1. UNCHANGED <<queue, blocked, home, pc, loc>>
  BY Zenon DEF vars, core, prios, sched
<1>2. \A q, s : EnRoute(q, s)' = EnRoute(q, s) /\ Due(q, s)' = Due(q, s)
  BY <1>1 DEF EnRoute, Due, Supply, Replays, Gone
<1>3. AllCovered'
  BY <1>1, <1>2 DEF AllCovered, Covered
<1>4. Noticed'
  BY <1>1, <1>2 DEF Noticed, NoticedAt
<1> QED
  BY <1>3, <1>4

LEMMA CoveredSuffices ==
  ASSUME Typed, AllCovered
  PROVE  NoLostWakeup
<1>1. ASSUME NEW q \in Queues
      PROVE  /\ blocked[q]["receive"] # <<>> =>
                  queue[q].count <= Cardinality(EnRoute(q, "receive")) + Locked(queue[q].txLock)
             /\ blocked[q]["send"] # <<>> =>
                  Capacity[q] - queue[q].count <=
                     Cardinality(EnRoute(q, "send")) + Locked(queue[q].rxLock)
  <2>1. \A s \in Sides : Covered(q, s)
    BY DEF AllCovered
  <2>2. /\ Supply(q, "receive") = queue[q].count
        /\ Replays(q, "receive") = Locked(queue[q].txLock)
        /\ Supply(q, "send") = Capacity[q] - queue[q].count
        /\ Replays(q, "send") = Locked(queue[q].rxLock)
    BY DEF Supply, Replays
  <2>3. \A s \in Sides : /\ Supply(q, s) \in Int /\ Replays(q, s) \in Int
                         /\ Cardinality(EnRoute(q, s)) \in Int
    BY DueTyped, EnRouteTasks
  <2>4. ASSUME NEW s \in Sides
        PROVE  blocked[q][s] # <<>> =>
                 Supply(q, s) <= Cardinality(EnRoute(q, s)) + Replays(q, s)
    <3> DEFINE n == Cardinality(EnRoute(q, s))
    <3>1. n \in Int /\ Supply(q, s) \in Int /\ Replays(q, s) \in Int
      BY <2>3
    <3>2. blocked[q][s] # <<>> => Supply(q, s) - Replays(q, s) <= n
      BY <2>1 DEF Covered, Due
    <3> HIDE DEF n
    <3>3. blocked[q][s] # <<>> => Supply(q, s) <= n + Replays(q, s)
      BY <3>1, <3>2
    <3> QED
      BY <3>3 DEF n
  <2>5. "send" \in Sides /\ "receive" \in Sides
    BY DEF Sides
  <2> QED
    BY <2>2, <2>4, <2>5
<1> QED
  BY <1>1 DEF NoLostWakeup

(* No wakeup is lost between a task's look at the queue and its wait,       *)
(* whatever interrupts and other tasks do in between.                       *)
THEOREM NoWakeupLost == Spec => []NoLostWakeup
<1>1. Init => AllCovered /\ Noticed
  BY InitCovered
<1>2. IInv /\ IInv' /\ AllCovered /\ Noticed /\ [Next]_vars => AllCovered' /\ Noticed'
  <2>1. IInv' => Typed'
    BY DEF IInv
  <2> QED
    BY <2>1, CoverKept, NoticedKept, CoveredStutters
<1>3. IInv /\ AllCovered => NoLostWakeup
  BY CoveredSuffices DEF IInv
<1> QED
  BY <1>1, <1>2, <1>3, Invariance, PTL DEF Spec


-----------------------------------------------------------------------------
(* The ring of a queue holds a bounded sequence of messages.                *)

Contents(r, n) == [k \in 1 .. r.count |-> r.store[(r.readFrom + k) % n]]

(* pcWriteTo is behind the last message.                                    *)
RingOK(r, n) == r.writeTo = (r.readFrom + r.count + 1) % n
Rings == \A q \in Fifos : RingOK(queue[q], Capacity[q])

LEMMA RingPlace ==
  ASSUME NEW n \in Nat \ {0}, NEW i \in 0 .. 2 * n
  PROVE  i % n = IF i < n THEN i ELSE IF i < 2 * n THEN i - n ELSE 0
<1>1. CASE i < n
  <2>1. (n * 0 + i) % n = i
    BY <1>1, Remainder
  <2> QED
    BY <1>1, <2>1
<1>2. CASE i >= n /\ i < 2 * n
  <2>1. (n * 1 + (i - n)) % n = i - n
    <3>1. i - n \in 0 .. n - 1
      BY <1>2
    <3> QED
      BY <3>1, Remainder
  <2>2. n * 1 + (i - n) = i
    OBVIOUS
  <2> QED
    BY <1>2, <2>1, <2>2
<1>3. CASE i = 2 * n
  <2>1. (n * 2 + 0) % n = 0
    BY Remainder
  <2>2. n * 2 + 0 = i
    BY <1>3
  <2> QED
    BY <1>3, <2>1, <2>2
<1> QED
  BY <1>1, <1>2, <1>3

(* Where c messages behind place f of the ring are, and what becomes of     *)
(* their places when one is sent to the back, to the front, or received.    *)
Shifts(n, f, c, w, g) ==
  /\ w \in 0 .. n - 1 /\ g \in 0 .. n - 1
  /\ \A k \in 1 .. c : (f + k) % n # w /\ (f + k) % n # f
  /\ (w + 1) % n = (f + (c + 1) + 1) % n
  /\ (g + 1) % n = f
  /\ \A k \in 1 .. c : (g + (k + 1)) % n = (f + k) % n
  /\ (g + (c + 1) + 1) % n = w
LEMMA RingSends ==
  ASSUME NEW n \in Nat \ {0}, NEW f \in 0 .. n - 1, NEW c \in 0 .. n - 1,
         NEW w, w = (f + c + 1) % n, NEW g, g = (f + n - 1) % n
  PROVE  Shifts(n, f, c, w, g)
<1> DEFINE R(i) == IF i < n THEN i ELSE IF i < 2 * n THEN i - n ELSE 0
<1>1. \A i \in 0 .. 2 * n : i % n = R(i)
  BY RingPlace
<1>2. /\ f + c + 1 \in 0 .. 2 * n /\ f + n - 1 \in 0 .. 2 * n
      /\ f + (c + 1) + 1 \in 0 .. 2 * n
      /\ \A k \in 1 .. c : f + k \in 0 .. 2 * n
  OBVIOUS
<1>3. w = R(f + c + 1) /\ g = R(f + n - 1)
  BY <1>1, <1>2
<1>4. \A k \in 1 .. c : (f + k) % n = R(f + k)
  BY <1>1, <1>2
<1>5. (f + (c + 1) + 1) % n = R(f + (c + 1) + 1)
  BY <1>1, <1>2
<1>6. w \in 0 .. n - 1 /\ g \in 0 .. n - 1
  BY <1>3
<1>7. /\ w + 1 \in 0 .. 2 * n /\ g + 1 \in 0 .. 2 * n /\ g + (c + 1) + 1 \in 0 .. 2 * n
      /\ \A k \in 1 .. c : g + (k + 1) \in 0 .. 2 * n
  BY <1>6
<1>8. /\ (w + 1) % n = R(w + 1) /\ (g + 1) % n = R(g + 1)
      /\ (g + (c + 1) + 1) % n = R(g + (c + 1) + 1)
      /\ \A k \in 1 .. c : (g + (k + 1)) % n = R(g + (k + 1))
  BY <1>1, <1>7
<1>9. \A k \in 1 .. c : R(f + k) # w /\ R(f + k) # f
  BY <1>3
<1>10. R(w + 1) = R(f + (c + 1) + 1) /\ R(g + 1) = f /\ R(g + (c + 1) + 1) = w
  BY <1>3
<1>11. \A k \in 1 .. c : R(g + (k + 1)) = R(f + k)
  BY <1>3
<1> HIDE DEF R
<1>12. \A k \in 1 .. c : (f + k) % n # w /\ (f + k) % n # f
  BY <1>4, <1>9
<1>13. /\ (w + 1) % n = (f + (c + 1) + 1) % n
       /\ (g + 1) % n = f /\ (g + (c + 1) + 1) % n = w
  BY <1>5, <1>8, <1>10
<1>14. \A k \in 1 .. c : (g + (k + 1)) % n = (f + k) % n
  BY <1>4, <1>8, <1>11
<1> QED
  BY <1>6, <1>12, <1>13, <1>14, Zenon DEF Shifts

Advances(n, f, c, h) ==
  /\ \A k \in 1 .. c - 1 : (h + k) % n = (f + (k + 1)) % n
  /\ (h + (c - 1) + 1) % n = (f + c + 1) % n
  /\ \A k \in 1 .. c : (f + k) % n \in 0 .. n - 1
LEMMA RingReceives ==
  ASSUME NEW n \in Nat \ {0}, NEW f \in 0 .. n - 1, NEW c \in 1 .. n,
         NEW h, h = (f + 1) % n
  PROVE  Advances(n, f, c, h)
<1> DEFINE R(i) == IF i < n THEN i ELSE IF i < 2 * n THEN i - n ELSE 0
<1>1. \A i \in 0 .. 2 * n : i % n = R(i)
  BY RingPlace
<1>2. /\ f + 1 \in 0 .. 2 * n /\ f + c + 1 \in 0 .. 2 * n
      /\ \A k \in 1 .. c - 1 : f + (k + 1) \in 0 .. 2 * n
      /\ \A k \in 1 .. c : f + k \in 0 .. 2 * n
  OBVIOUS
<1>3. h = R(f + 1) /\ (f + c + 1) % n = R(f + c + 1)
  BY <1>1, <1>2
<1>4. /\ \A k \in 1 .. c - 1 : (f + (k + 1)) % n = R(f + (k + 1))
      /\ \A k \in 1 .. c : (f + k) % n = R(f + k)
  BY <1>1, <1>2
<1>5. h \in 0 .. n - 1
  BY <1>3
<1>6. /\ h + (c - 1) + 1 \in 0 .. 2 * n
      /\ \A k \in 1 .. c - 1 : h + k \in 0 .. 2 * n
  BY <1>5
<1>7. /\ (h + (c - 1) + 1) % n = R(h + (c - 1) + 1)
      /\ \A k \in 1 .. c - 1 : (h + k) % n = R(h + k)
  BY <1>1, <1>6
<1>8. R(h + (c - 1) + 1) = R(f + c + 1) /\ \A k \in 1 .. c : R(f + k) \in 0 .. n - 1
  BY <1>3
<1>9. \A k \in 1 .. c - 1 : R(h + k) = R(f + (k + 1))
  BY <1>3
<1>10. \A k \in 1 .. c : (f + k) % n \in 0 .. n - 1
  BY <1>4, <1>8
<1> HIDE DEF R
<1>11. (h + (c - 1) + 1) % n = (f + c + 1) % n
  BY <1>3, <1>7, <1>8
<1>12. \A k \in 1 .. c - 1 : (h + k) % n = (f + (k + 1)) % n
  BY <1>4, <1>7, <1>9
<1> QED
  BY <1>10, <1>11, <1>12, Zenon DEF Advances


SameData(u, r) ==
  /\ u.count = r.count /\ u.store = r.store
  /\ u.readFrom = r.readFrom /\ u.writeTo = r.writeTo

LEMMA SameContents ==
  ASSUME NEW u, NEW r, NEW n, SameData(u, r)
  PROVE  Contents(u, n) = Contents(r, n) /\ (RingOK(r, n) => RingOK(u, n))
BY DEF SameData, Contents, RingOK

LEMMA ContentsTyped ==
  ASSUME NEW q \in Queues, NEW r, RecordOK(q, r)
  PROVE  /\ Contents(r, Capacity[q]) \in Seq(Items)
         /\ Len(Contents(r, Capacity[q])) = r.count
<1> DEFINE n == Capacity[q]
<1>1. /\ n \in Nat \ {0} /\ r.count \in 0 .. n /\ r.readFrom \in 0 .. n - 1
      /\ r.store \in [0 .. n - 1 -> Items]
  BY ConstantsTyped DEF RecordOK
<1>2. ASSUME NEW k \in 1 .. r.count PROVE r.store[(r.readFrom + k) % n] \in Items
  <2>1. r.count \in 1 .. n
    BY <1>1
  <2>2. Advances(n, r.readFrom, r.count, (r.readFrom + 1) % n)
    BY <1>1, <2>1, RingReceives
  <2>3. (r.readFrom + k) % n \in 0 .. n - 1
    BY <2>2 DEF Advances
  <2> QED
    BY <1>1, <2>3
<1>3. r.count \in Nat
  BY <1>1
<1> QED
  BY <1>2, <1>3 DEF Contents

(* Two sequences are the same if they have the same entries.                *)
LEMMA SameEntries ==
  ASSUME NEW S, NEW a \in Seq(S), NEW b \in Seq(S), Len(a) = Len(b),
         \A k \in 1 .. Len(a) : a[k] = b[k]
  PROVE  a = b
OBVIOUS

LEMMA SentBack ==
  ASSUME NEW q \in Queues, Kind[q] = "queue", NEW r, RecordOK(q, r),
         r.count < Capacity[q], RingOK(r, Capacity[q]), NEW x \in Items,
         NEW op, op # "front"
  PROVE  LET n == Capacity[q]
             c == CopiedIn(r, q, x, op)
         IN  RingOK(c, n) /\ Contents(c, n) = Append(Contents(r, n), x)
<1> DEFINE n == Capacity[q]
           c == CopiedIn(r, q, x, op)
           f == r.readFrom
           w == r.writeTo
           a == Contents(c, n)
           b == Contents(r, n)
<1>0. PICK g : g = (f + n - 1) % n
  OBVIOUS
<1>1. /\ n \in Nat \ {0} /\ r.count \in 0 .. n - 1 /\ f \in 0 .. n - 1
      /\ w \in 0 .. n - 1 /\ r.store \in [0 .. n - 1 -> Items]
      /\ r \in QueueRecords /\ w = (f + r.count + 1) % n
  BY ConstantsTyped DEF RecordOK, RingOK
<1> Shifts(n, f, r.count, w, g)
  BY <1>0, <1>1, RingSends
<1>2. /\ c.count = r.count + 1 /\ c.readFrom = f /\ c.writeTo = (w + 1) % n
      /\ c.store = [r.store EXCEPT ![w] = x]
  BY <1>0, <1>1 DEF CopiedIn, QueueRecords
<1>3. RecordOK(q, c)
  BY CopiedFields
<1>4. a \in Seq(Items) /\ Len(a) = r.count + 1 /\ b \in Seq(Items) /\ Len(b) = r.count
  BY <1>2, <1>3, ContentsTyped
<1>5. /\ \A k \in 1 .. r.count + 1 : a[k] = c.store[(f + k) % n]
      /\ \A k \in 1 .. r.count : b[k] = r.store[(f + k) % n]
  BY <1>2 DEF Contents
<1>6. (w + 1) % n = (f + (r.count + 1) + 1) % n
  BY DEF Shifts
<1>7. ASSUME NEW k \in 1 .. r.count PROVE a[k] = b[k]
  <2>1. (f + k) % n # w
    BY DEF Shifts
  <2>2. (f + k) % n \in 0 .. n - 1
    <3>1. r.count \in 1 .. n
      BY <1>1
    <3>2. Advances(n, f, r.count, (f + 1) % n)
      BY <1>1, <3>1, RingReceives
    <3> QED
      BY <3>2 DEF Advances
  <2>3. c.store[(f + k) % n] = r.store[(f + k) % n]
    BY <1>1, <1>2, <2>1, <2>2
  <2> QED
    BY <1>1, <1>5, <2>3
<1>8. a[r.count + 1] = x
  <2>1. a[r.count + 1] = c.store[(f + (r.count + 1)) % n]
    <3>1. r.count + 1 \in 1 .. r.count + 1
      <4>1. r.count \in Nat
        BY <1>1
      <4> QED
        BY <4>1
    <3> HIDE DEF a, c
    <3> QED
      BY <1>5, <3>1
  <2>2. f + (r.count + 1) = f + r.count + 1
    BY <1>1
  <2>3. a[r.count + 1] = c.store[w]
    BY <1>1, <2>1, <2>2
  <2> QED
    BY <1>1, <1>2, <2>3
<1>9. RingOK(c, n)
  BY <1>2, <1>6 DEF RingOK
<1> HIDE DEF a, b, c, n
<1>10. Append(b, x) \in Seq(Items) /\ Len(Append(b, x)) = r.count + 1
  BY <1>4
<1>11. ASSUME NEW k \in 1 .. Len(a) PROVE a[k] = Append(b, x)[k]
  <2>1. r.count \in Nat
    BY <1>1
  <2>2. CASE k <= r.count
    <3>1. k \in 1 .. r.count
      BY <1>4, <2>1, <2>2
    <3>2. Append(b, x)[k] = b[k]
      BY <1>4, <3>1
    <3> QED
      BY <1>7, <3>1, <3>2
  <2>3. CASE ~(k <= r.count)
    <3>1. k = r.count + 1
      BY <1>4, <2>1, <2>3
    <3>2. Append(b, x)[k] = x
      BY <1>4, <3>1
    <3> QED
      BY <1>8, <3>1, <3>2
  <2> QED
    BY <2>2, <2>3
<1>12. a = Append(b, x)
  BY <1>4, <1>10, <1>11, SameEntries
<1> QED
  BY <1>9, <1>12 DEF a, b, c, n

LEMMA SentFront ==
  ASSUME NEW q \in Queues, Kind[q] = "queue", NEW r, RecordOK(q, r),
         r.count < Capacity[q], RingOK(r, Capacity[q]), NEW x \in Items
  PROVE  LET n == Capacity[q]
             c == CopiedIn(r, q, x, "front")
         IN  RingOK(c, n) /\ Contents(c, n) = <<x>> \o Contents(r, n)
<1> DEFINE n == Capacity[q]
           c == CopiedIn(r, q, x, "front")
           f == r.readFrom
           w == r.writeTo
           a == Contents(c, n)
           b == Contents(r, n)
<1>0. PICK g : g = (f + n - 1) % n
  OBVIOUS
<1>1. /\ n \in Nat \ {0} /\ r.count \in 0 .. n - 1 /\ f \in 0 .. n - 1
      /\ w \in 0 .. n - 1 /\ r.store \in [0 .. n - 1 -> Items]
      /\ r \in QueueRecords /\ w = (f + r.count + 1) % n
  BY ConstantsTyped DEF RecordOK, RingOK
<1> Shifts(n, f, r.count, w, g)
  BY <1>0, <1>1, RingSends
<1>2. /\ c.count = r.count + 1 /\ c.readFrom = g /\ c.writeTo = w
      /\ c.store = [r.store EXCEPT ![f] = x]
  BY <1>0, <1>1 DEF CopiedIn, QueueRecords
<1>3. RecordOK(q, c)
  BY CopiedFields
<1>4. a \in Seq(Items) /\ Len(a) = r.count + 1 /\ b \in Seq(Items) /\ Len(b) = r.count
  BY <1>2, <1>3, ContentsTyped
<1>5. /\ \A k \in 1 .. r.count + 1 : a[k] = c.store[(g + k) % n]
      /\ \A k \in 1 .. r.count : b[k] = r.store[(f + k) % n]
  BY <1>2 DEF Contents
<1>6. (g + (r.count + 1) + 1) % n = w /\ (g + 1) % n = f
  BY DEF Shifts
<1>7. ASSUME NEW k \in 1 .. r.count PROVE a[k + 1] = b[k]
  <2>1. (f + k) % n # f /\ (g + (k + 1)) % n = (f + k) % n
    BY DEF Shifts
  <2>2. (f + k) % n \in 0 .. n - 1
    <3>1. r.count \in 1 .. n
      BY <1>1
    <3>2. Advances(n, f, r.count, (f + 1) % n)
      BY <1>1, <3>1, RingReceives
    <3> QED
      BY <3>2 DEF Advances
  <2>3. c.store[(f + k) % n] = r.store[(f + k) % n]
    BY <1>1, <1>2, <2>1, <2>2
  <2>4. a[k + 1] = c.store[(g + (k + 1)) % n]
    <3>1. k + 1 \in 1 .. r.count + 1
      BY <1>1
    <3> HIDE DEF a, c
    <3> QED
      BY <1>5, <3>1
  <2> QED
    BY <1>5, <2>1, <2>3, <2>4, Zenon
<1>8. a[1] = x
  <2>1. a[1] = c.store[(g + 1) % n]
    <3>1. 1 \in 1 .. r.count + 1
      BY <1>1
    <3> QED
      BY <1>5, <3>1
  <2>2. a[1] = c.store[f]
    BY <1>6, <2>1, Zenon
  <2> QED
    BY <1>1, <1>2, <2>2
<1>9. RingOK(c, n)
  BY <1>2, <1>6 DEF RingOK
<1> HIDE DEF a, b, c, n
<1>10. /\ <<x>> \o b \in Seq(Items) /\ Len(<<x>> \o b) = r.count + 1
       /\ (<<x>> \o b)[1] = x
       /\ \A k \in 1 .. r.count : (<<x>> \o b)[k + 1] = b[k]
  <2>1. r.count \in Nat /\ <<x>> \in Seq(Items) /\ Len(<<x>>) = 1 /\ <<x>>[1] = x
    BY <1>1
  <2>2. <<x>> \o b \in Seq(Items) /\ Len(<<x>> \o b) = r.count + 1
    BY <1>4, <2>1
  <2>3. (<<x>> \o b)[1] = x
    BY <1>4, <2>1
  <2>4. ASSUME NEW k \in 1 .. r.count PROVE (<<x>> \o b)[k + 1] = b[k]
    BY <1>4, <2>1
  <2> QED
    BY <2>2, <2>3, <2>4
<1>11. ASSUME NEW k \in 1 .. Len(a) PROVE a[k] = (<<x>> \o b)[k]
  <2>1. r.count \in Nat
    BY <1>1
  <2>2. CASE k = 1
    BY <1>8, <1>10, <2>2
  <2>3. CASE k # 1
    <3>1. k - 1 \in 1 .. r.count /\ (k - 1) + 1 = k
      BY <1>4, <2>1, <2>3
    <3> QED
      BY <1>7, <1>10, <3>1
  <2> QED
    BY <2>2, <2>3
<1>12. a = <<x>> \o b
  BY <1>4, <1>10, <1>11, SameEntries
<1> QED
  BY <1>9, <1>12 DEF a, b, c, n


LEMMA ReceivedHead ==
  ASSUME QueuesTyped, NEW q \in Queues, Kind[q] = "queue", queue[q].count > 0,
         RingOK(queue[q], Capacity[q])
  PROVE  LET n == Capacity[q]
             c == Removed(queue[q], q)
             b == Contents(queue[q], n)
         IN  /\ RingOK(c, n) /\ Contents(c, n) = Tail(b)
             /\ b # <<>> /\ Head(b) = queue[q].store[NextOut(q)]
<1> DEFINE n == Capacity[q]
           r == queue[q]
           c == Removed(r, q)
           f == r.readFrom
           h == (f + 1) % n
           a == Contents(c, n)
           b == Contents(r, n)
<1>1. RecordOK(q, r) /\ RecordOK(q, c)
  BY RemovedFields DEF QueuesTyped
<1>2. /\ n \in Nat \ {0} /\ r.count \in 1 .. n /\ f \in 0 .. n - 1
      /\ r \in QueueRecords /\ r.writeTo = (f + r.count + 1) % n
  BY <1>1, ConstantsTyped DEF RecordOK, RingOK
<1>3. /\ c.count = r.count - 1 /\ c.readFrom = h /\ c.writeTo = r.writeTo
      /\ c.store = r.store
  BY <1>2 DEF Removed, QueueRecords, NextOut
<1>4. a \in Seq(Items) /\ Len(a) = r.count - 1 /\ b \in Seq(Items) /\ Len(b) = r.count
  BY <1>1, <1>3, ContentsTyped
<1>5. /\ \A k \in 1 .. r.count - 1 : a[k] = r.store[(h + k) % n]
      /\ \A k \in 1 .. r.count : b[k] = r.store[(f + k) % n]
  BY <1>3 DEF Contents
<1>6. NextOut(q) = h
  BY DEF NextOut
<1> HIDE DEF r, n
<1>7. PICK g : g = h
  OBVIOUS
<1>8. Advances(n, f, r.count, g)
  BY <1>2, <1>7, RingReceives
<1> HIDE DEF a, b, c, h, f
<1>9. RingOK(c, n)
  BY <1>2, <1>3, <1>7, <1>8, Zenon DEF RingOK, Advances
<1>10. r.count \in Nat \ {0}
  BY <1>2
<1>11. b # <<>> /\ Head(b) = r.store[h]
  <2>1. 1 \in 1 .. r.count
    BY <1>10
  <2>2. b[1] = r.store[(f + 1) % n]
    BY <1>5, <2>1
  <2>3. b # <<>> /\ Head(b) = b[1]
    BY <1>4, <1>10
  <2> QED
    BY <2>2, <2>3, Zenon DEF h
<1>12. /\ Tail(b) \in Seq(Items) /\ Len(Tail(b)) = r.count - 1
       /\ \A k \in 1 .. r.count - 1 : Tail(b)[k] = b[k + 1]
  BY <1>4, <1>10
<1>13. ASSUME NEW k \in 1 .. r.count - 1 PROVE a[k] = Tail(b)[k]
  <2>1. k + 1 \in 1 .. r.count
    BY <1>10
  <2>2. b[k + 1] = r.store[(f + (k + 1)) % n]
    BY <1>5, <2>1
  <2>3. (h + k) % n = (f + (k + 1)) % n
    BY <1>7, <1>8, Zenon DEF Advances
  <2> QED
    BY <1>5, <1>12, <2>2, <2>3, Zenon
<1>14. a = Tail(b)
  BY <1>4, <1>12, <1>13, SameEntries
<1> QED
  BY <1>6, <1>9, <1>11, <1>14, Zenon DEF a, b, c, r, n

(* What a step does to the messages: nothing, or one of FromaQueueSpec's    *)
(* operations on one queue.                                                 *)
Else(q) == \A p \in Queues \ {q} : SameData(queue'[p], queue[p])
Idles == (\A p \in Queues : SameData(queue'[p], queue[p])) /\ UNCHANGED got
SendsItem(q, x, op) ==
  /\ queue[q].count < Capacity[q]
  /\ SameData(queue'[q], CopiedIn(queue[q], q, x, op))
  /\ Else(q) /\ UNCHANGED got
Receives(q) ==
  /\ queue[q].count > 0
  /\ SameData(queue'[q], Removed(queue[q], q))
  /\ Else(q) /\ CopyOut(q)
Peeks(q) == queue[q].count > 0 /\ UNCHANGED queue /\ CopyOut(q)
OnRing == \/ Idles
          \/ \E q \in Queues : \/ \E x \in Items : \E op : SendsItem(q, x, op)
                               \/ Receives(q) \/ Peeks(q)


LEMMA DataKept ==
  ASSUME QueuesTyped, NEW q \in Queues, NEW r, RecordOK(q, r),
         queue' = [queue EXCEPT ![q] = r]
  PROVE  SameData(queue'[q], r) /\ Else(q)
BY DEF QueuesTyped, SameData, Else

LEMMA NoneMoved ==
  ASSUME QueuesTyped, NEW q \in Queues, SameData(queue'[q], queue[q]), Else(q),
         UNCHANGED got
  PROVE  OnRing
<1>1. \A p \in Queues : SameData(queue'[p], queue[p])
  BY DEF Else
<1> QED
  BY <1>1 DEF OnRing, Idles

LEMMA NoneTouched ==
  ASSUME UNCHANGED <<queue, got>>
  PROVE  OnRing
BY DEF OnRing, Idles, SameData

LEMMA CountMoves ==
  ASSUME QueuesTyped, NEW q \in Queues, NEW n, UNCHANGED got,
         queue' = [queue EXCEPT ![q].calls = n]
  PROVE  OnRing
<1>1. SameData(queue'[q], queue[q]) /\ Else(q)
  BY DEF QueuesTyped, QueueRecords, SameData, Else
<1> QED
  BY <1>1, NoneMoved

LEMMA TryOnRing ==
  ASSUME Typed, NEW t \in Tasks, TryStep(t)
  PROVE  OnRing
<1> DEFINE q == loc[t].queue
<1>1. q \in Queues /\ loc[t].item \in Items /\ RecordOK(q, queue[q]) /\ QueuesTyped
  BY LocalsOf DEF Typed
<1>2. queue \in [Queues -> QueueRecords] /\ queue[q] \in QueueRecords
  BY <1>1 DEF QueuesTyped
<1>3. CASE TrySend(t)
  <2> DEFINE r == CopiedIn(queue[q], q, loc[t].item, loc[t].op)
  <2>1. queue[q].count < Capacity[q] /\ queue' = [queue EXCEPT ![q] = r] /\ UNCHANGED got
    BY <1>3 DEF TrySend, HasRoom
  <2>2. RecordOK(q, r)
    BY <1>1, <2>1, CopiedFields
  <2>3. SameData(queue'[q], r) /\ Else(q)
    BY <1>1, <2>1, <2>2, DataKept
  <2>4. SendsItem(q, loc[t].item, loc[t].op)
    BY <2>1, <2>3 DEF SendsItem
  <2> QED
    BY <1>1, <2>4 DEF OnRing
<1>4. CASE TryReceive(t)
  <2> DEFINE r == Removed(queue[q], q)
             h == IF Kind[q] = "mutex" THEN t ELSE queue[q].holder
             u == [r EXCEPT !.holder = h]
  <2>1. queue[q].count > 0 /\ queue' = [queue EXCEPT ![q] = u] /\ CopyOut(q)
    BY <1>4 DEF TryReceive, HasItem
  <2>2. RecordOK(q, r)
    BY <1>1, <2>1, RemovedFields
  <2>3. h \in Tasks \cup {NoTask}
    BY <1>2 DEF QueueRecords
  <2> HIDE DEF r, h, q
  <2>4. RecordOK(q, u) /\ SameData(u, r)
    <3>1. SameData(u, r)
      BY <2>2 DEF RecordOK, QueueRecords, SameData
    <3> QED
      BY <1>1, <2>2, <2>3, <3>1, FieldUpdates
  <2> HIDE DEF u
  <2>5. SameData(queue'[q], u) /\ Else(q)
    BY <1>1, <2>1, <2>4, DataKept
  <2>6. SameData(queue'[q], r)
    BY <2>4, <2>5 DEF SameData
  <2>7. Receives(q)
    BY <2>1, <2>5, <2>6 DEF Receives, r
  <2> QED
    BY <1>1, <2>7 DEF OnRing
<1>5. CASE TryPeek(t)
  <2>1. Peeks(q)
    BY <1>5 DEF TryPeek, HasItem, Peeks
  <2> QED
    BY <1>1, <2>1 DEF OnRing
<1>6. CASE TryLater(t)
  BY <1>6, NoneTouched DEF TryLater
<1> QED
  BY <1>3, <1>4, <1>5, <1>6 DEF TryStep

LEMMA IsrOnRing ==
  ASSUME Typed, IsrStep
  PROVE  OnRing
<1>1. ASSUME NEW x \in Tasks, xTaskResumeFromISR(x) PROVE OnRing
  BY <1>1, NoneTouched DEF xTaskResumeFromISR
<1>2. ASSUME NEW q \in Queues, NEW x \in Items, NEW op, xQueueGenericSendFromISR(q, x, op)
      PROVE  OnRing
  <2> DEFINE r == CopiedIn(queue[q], q, x, op)
             k == Counted(queue[q].txLock)
             u == [r EXCEPT !.txLock = k]
  <2>1. RecordOK(q, queue[q]) /\ QueuesTyped
    BY DEF Typed, QueuesTyped
  <2>2. /\ queue[q].count < Capacity[q] /\ queue[q].txLock < MaxLock
        /\ queue' = [queue EXCEPT ![q] = u] /\ UNCHANGED got
    BY <1>2, Zenon DEF xQueueGenericSendFromISR, HasRoom
  <2>3. RecordOK(q, r)
    BY <2>1, <2>2, CopiedFields
  <2>4. k \in Unlocked .. MaxLock
    BY <2>1, <2>2, CountedTyped DEF RecordOK
  <2> HIDE DEF r, k
  <2>5. RecordOK(q, u) /\ SameData(u, r)
    <3>1. SameData(u, r)
      BY <2>3 DEF RecordOK, QueueRecords, SameData
    <3> QED
      BY <2>3, <2>4, <3>1, FieldUpdates
  <2> HIDE DEF u
  <2>6. SameData(queue'[q], u) /\ Else(q)
    BY <2>1, <2>2, <2>5, DataKept
  <2>7. SameData(queue'[q], r)
    BY <2>5, <2>6 DEF SameData
  <2>8. SendsItem(q, x, op)
    BY <2>2, <2>6, <2>7 DEF SendsItem, r
  <2> QED
    BY <2>8 DEF OnRing
<1>3. ASSUME NEW q \in Queues, xQueueReceiveFromISR(q) PROVE OnRing
  <2> DEFINE r == Removed(queue[q], q)
             k == Counted(queue[q].rxLock)
             u == [r EXCEPT !.rxLock = k]
  <2>1. RecordOK(q, queue[q]) /\ QueuesTyped
    BY DEF Typed, QueuesTyped
  <2>2. /\ queue[q].count > 0 /\ queue[q].rxLock < MaxLock
        /\ queue' = [queue EXCEPT ![q] = u] /\ CopyOut(q)
    BY <1>3, Zenon DEF xQueueReceiveFromISR, HasItem
  <2>3. RecordOK(q, r)
    BY <2>1, <2>2, RemovedFields
  <2>4. k \in Unlocked .. MaxLock
    BY <2>1, <2>2, CountedTyped DEF RecordOK
  <2> HIDE DEF r, k
  <2>5. RecordOK(q, u) /\ SameData(u, r)
    <3>1. SameData(u, r)
      BY <2>3 DEF RecordOK, QueueRecords, SameData
    <3> QED
      BY <2>3, <2>4, <3>1, FieldUpdates
  <2> HIDE DEF u
  <2>6. SameData(queue'[q], u) /\ Else(q)
    BY <2>1, <2>2, <2>5, DataKept
  <2>7. SameData(queue'[q], r)
    BY <2>5, <2>6 DEF SameData
  <2>8. Receives(q)
    BY <2>2, <2>6, <2>7 DEF Receives, r
  <2> QED
    BY <2>8 DEF OnRing
<1> QED
  BY <1>1, <1>2, <1>3 DEF IsrStep

LEMMA StepsOnRing ==
  ASSUME Typed, [Next]_vars
  PROVE  OnRing
<1> USE DEF core, sched
<1>1. QueuesTyped
  BY DEF Typed
<1>2. ASSUME NEW t \in Tasks, CallStep(t) PROVE OnRing
  <2>1. PICK op \in Operations, q \in Queues, w \in Waits :
          \/ Call(t, op, q, w)
          \/ op = "take" /\ TakeRecursive(t, q, w)
          \/ op = "give" /\ GiveRecursive(t, q)
    BY <1>2 DEF CallStep
  <2>2. CASE Call(t, op, q, w)
    BY <2>2, NoneTouched DEF Call
  <2>3. CASE TakeRecursive(t, q, w)
    BY <1>1, <2>3, NoneTouched, CountMoves DEF TakeRecursive
  <2>4. CASE GiveRecursive(t, q)
    BY <1>1, <2>4, CountMoves DEF GiveRecursive
  <2> QED
    BY <2>1, <2>2, <2>3, <2>4
<1>3. ASSUME NEW t \in Tasks, TakeCounted(t) PROVE OnRing
  <2>1. loc[t].queue \in Queues
    BY LocalsOf
  <2> QED
    BY <1>1, <1>3, <2>1, CountMoves DEF TakeCounted
<1>4. ASSUME NEW t \in Tasks, WaitStep(t) PROVE OnRing
  <2>1. loc[t].queue \in Queues
    BY LocalsOf
  <2>2. CASE prvLockQueue(t) \/ UnlockTx(t) \/ UnlockRx(t)
    <3> DEFINE q == loc[t].queue
    <3>1. CASE prvLockQueue(t)
      <4>1. /\ queue' = [queue EXCEPT ![q].rxLock = Locked(queue[q].rxLock),
                                      ![q].txLock = Locked(queue[q].txLock)]
            /\ UNCHANGED got
        <5>1. queue \in [Queues -> QueueRecords]
          BY <1>1 DEF QueuesTyped
        <5> QED
          BY <2>1, <3>1, <5>1 DEF prvLockQueue, QueueRecords
      <4>2. SameData(queue'[q], queue[q]) /\ Else(q)
        <5>1. queue \in [Queues -> QueueRecords]
          BY <1>1 DEF QueuesTyped
        <5> QED
          BY <2>1, <4>1, <5>1 DEF QueueRecords, SameData, Else
      <4> QED
        BY <1>1, <2>1, <4>1, <4>2, NoneMoved
    <3>2. CASE UnlockTx(t)
      <4>1. queue' = [queue EXCEPT ![q].txLock = Unlocked] /\ UNCHANGED got
        <5> DEFINE k == queue[q].txLock
        <5>3. Replay(t, k, "receive")
          BY <3>2 DEF UnlockTx
        <5> HIDE DEF k
        <5>1. UNCHANGED got
          BY <5>3, Zenon DEF Replay
        <5>2. queue' = [queue EXCEPT ![q].txLock = Unlocked]
          BY <3>2 DEF UnlockTx
        <5> QED
          BY <5>1, <5>2
      <4>2. SameData(queue'[q], queue[q]) /\ Else(q)
        <5>1. queue \in [Queues -> QueueRecords]
          BY <1>1 DEF QueuesTyped
        <5> QED
          BY <2>1, <4>1, <5>1 DEF QueueRecords, SameData, Else
      <4> QED
        BY <1>1, <2>1, <4>1, <4>2, NoneMoved
    <3>3. CASE UnlockRx(t)
      <4>1. queue' = [queue EXCEPT ![q].rxLock = Unlocked] /\ UNCHANGED got
        <5> DEFINE k == queue[q].rxLock
        <5>3. Replay(t, k, "send")
          BY <3>3 DEF UnlockRx
        <5> HIDE DEF k
        <5>1. UNCHANGED got
          BY <5>3, Zenon DEF Replay
        <5>2. queue' = [queue EXCEPT ![q].rxLock = Unlocked]
          BY <3>3 DEF UnlockRx
        <5> QED
          BY <5>1, <5>2
      <4>2. SameData(queue'[q], queue[q]) /\ Else(q)
        <5>1. queue \in [Queues -> QueueRecords]
          BY <1>1 DEF QueuesTyped
        <5> QED
          BY <2>1, <4>1, <5>1 DEF QueueRecords, SameData, Else
      <4> QED
        BY <1>1, <2>1, <4>1, <4>2, NoneMoved
    <3> QED
      BY <2>2, <3>1, <3>2, <3>3
  <2>3. CASE ~(prvLockQueue(t) \/ UnlockTx(t) \/ UnlockRx(t))
    BY <1>4, <2>3, NoneTouched DEF WaitStep, vTaskSuspendAll, xTaskCheckForTimeOut,
       TestQueue, vTaskPriorityInherit, vTaskPlaceOnEventList, xTaskResumeAll
  <2> QED
    BY <2>2, <2>3
<1>5. ASSUME NEW t \in Tasks, AltStep(t) \/ OtherStep(t) PROVE OnRing
  BY <1>5, NoneTouched DEF AltStep, OtherStep, AltExpired, AltBlock, vTaskPrioritySet,
     vTaskSuspend, vTaskResume, vTaskDelete
<1>6. ASSUME IdleStep \/ vTaskSwitchContext PROVE OnRing
  BY <1>6, NoneTouched DEF IdleStep, CheckTermination, CheckedTermination,
     prvDeleteTCB, vTaskSwitchContext
<1>7. CASE UNCHANGED vars
  BY <1>7, NoneTouched DEF vars
<1> QED
  BY <1>2, <1>3, <1>4, <1>5, <1>6, <1>7, TryOnRing, IsrOnRing, NextCases


LEMMA SameMessages ==
  ASSUME NEW q, Else(q), q \notin Fifos \/ SameData(queue'[q], queue[q])
  PROVE  Messages' = Messages
<1>1. ASSUME NEW p \in Fifos
      PROVE  Contents(queue'[p], Capacity[p]) = Contents(queue[p], Capacity[p])
  BY <1>1, SameContents DEF Else, Fifos
<1>2. /\ Messages = [p \in Fifos |-> Contents(queue[p], Capacity[p])]
      /\ Messages' = [p \in Fifos |-> Contents(queue'[p], Capacity[p])]
  BY DEF Messages, Contents
<1> QED
  BY <1>1, <1>2

LEMMA OneMoves ==
  ASSUME NEW q \in Fifos, Else(q), NEW r, SameData(queue'[q], r)
  PROVE  /\ Messages[q] = Contents(queue[q], Capacity[q])
         /\ Messages' = [Messages EXCEPT ![q] = Contents(r, Capacity[q])]
<1>1. ASSUME NEW p \in Fifos \ {q}
      PROVE  Contents(queue'[p], Capacity[p]) = Contents(queue[p], Capacity[p])
  BY <1>1, SameContents DEF Else, Fifos
<1>2. Contents(queue'[q], Capacity[q]) = Contents(r, Capacity[q])
  BY SameContents
<1>3. /\ Messages = [p \in Fifos |-> Contents(queue[p], Capacity[p])]
      /\ Messages' = [p \in Fifos |-> Contents(queue'[p], Capacity[p])]
  BY DEF Messages, Contents
<1> QED
  BY <1>1, <1>2, <1>3

LEMMA IdlesKept ==
  ASSUME \A p \in Queues : SameData(queue'[p], queue[p]), Rings
  PROVE  Rings' /\ Messages' = Messages
<1>1. ASSUME NEW p \in Fifos
      PROVE  /\ Contents(queue'[p], Capacity[p]) = Contents(queue[p], Capacity[p])
             /\ RingOK(queue'[p], Capacity[p])
  BY <1>1, SameContents DEF Rings, Fifos
<1>2. /\ Messages = [p \in Fifos |-> Contents(queue[p], Capacity[p])]
      /\ Messages' = [p \in Fifos |-> Contents(queue'[p], Capacity[p])]
  BY DEF Messages, Contents
<1> QED
  BY <1>1, <1>2 DEF Rings

LEMMA RingsElse ==
  ASSUME Rings, NEW q, Else(q), q \in Fifos => RingOK(queue'[q], Capacity[q])
  PROVE  Rings'
<1>1. ASSUME NEW p \in Fifos \ {q} PROVE RingOK(queue'[p], Capacity[p])
  BY <1>1, SameContents DEF Else, Fifos, Rings
<1> QED
  BY <1>1 DEF Rings

LEMMA SendPromise ==
  ASSUME Typed, Rings, NEW q \in Queues, NEW x \in Items, NEW op, SendsItem(q, x, op)
  PROVE  Rings' /\ [Promise!Next]_<<Messages, got>>
<1> DEFINE n == Capacity[q]
           r == CopiedIn(queue[q], q, x, op)
<1>1. /\ queue[q].count < n /\ SameData(queue'[q], r) /\ Else(q) /\ UNCHANGED got
      /\ RecordOK(q, queue[q])
  BY DEF SendsItem, Typed, QueuesTyped
<1>2. CASE q \notin Fifos
  BY <1>1, <1>2, SameMessages, RingsElse
<1>3. CASE q \in Fifos
  <2> DEFINE b == Contents(queue[q], n)
             a == Contents(r, n)
  <2>1. Kind[q] = "queue" /\ RingOK(queue[q], n)
    BY <1>3 DEF Fifos, Rings
  <2>2. RingOK(r, n) /\ a = IF op = "front" THEN <<x>> \o b ELSE Append(b, x)
    BY <1>1, <2>1, SentBack, SentFront
  <2>3. Len(b) = queue[q].count
    BY <1>1, ContentsTyped
  <2> HIDE DEF a, b, r
  <2>4. RingOK(queue'[q], n)
    BY <1>1, <2>2, SameContents
  <2>5. Messages[q] = b /\ Messages' = [Messages EXCEPT ![q] = a]
    BY <1>1, <1>3, OneMoves DEF a, b
  <2>6. Promise!Room(q)
    BY <1>1, <1>3, <2>3, <2>5 DEF Promise!Room
  <2>7. CASE op = "front"
    <3>1. Promise!ToFront(q, x)
      BY <1>1, <2>2, <2>5, <2>6, <2>7 DEF Promise!ToFront
    <3> QED
      BY <1>1, <1>3, <2>4, <3>1, RingsElse DEF Promise!Next
  <2>8. CASE op # "front"
    <3>1. Promise!ToBack(q, x)
      BY <1>1, <2>2, <2>5, <2>6, <2>8 DEF Promise!ToBack
    <3> QED
      BY <1>1, <1>3, <2>4, <3>1, RingsElse DEF Promise!Next
  <2> QED
    BY <2>7, <2>8
<1> QED
  BY <1>2, <1>3

LEMMA ReceivePromise ==
  ASSUME Typed, Rings, NEW q \in Queues, Receives(q) \/ Peeks(q)
  PROVE  Rings' /\ [Promise!Next]_<<Messages, got>>
<1> DEFINE n == Capacity[q]
           r == Removed(queue[q], q)
<1>1. queue[q].count > 0 /\ CopyOut(q) /\ QueuesTyped /\ Else(q)
  BY DEF Receives, Peeks, Typed, Else, SameData
<1>2. Receives(q) => SameData(queue'[q], r)
  BY DEF Receives
<1>3. Peeks(q) => SameData(queue'[q], queue[q])
  BY DEF Peeks, SameData
<1>4. CASE q \notin Fifos
  <2>1. UNCHANGED got
    BY <1>1, <1>4 DEF CopyOut, Fifos
  <2> QED
    BY <1>1, <1>4, <2>1, SameMessages, RingsElse
<1>5. CASE q \in Fifos
  <2> DEFINE b == Contents(queue[q], n)
             a == Contents(r, n)
  <2>1. Kind[q] = "queue" /\ RingOK(queue[q], n)
    BY <1>5 DEF Fifos, Rings
  <2>2. /\ RingOK(r, n) /\ a = Tail(b)
        /\ b # <<>> /\ got' = Head(b)
    BY <1>1, <2>1, ReceivedHead DEF CopyOut
  <2> HIDE DEF a, b, r
  <2>3. RingOK(queue'[q], n)
    BY <1>2, <1>3, <2>1, <2>2, SameContents
  <2>4. Rings'
    BY <1>1, <2>3, RingsElse
  <2>5. CASE Receives(q)
    <3>1. Messages[q] = b /\ Messages' = [Messages EXCEPT ![q] = a]
      BY <1>1, <1>2, <1>5, <2>5, OneMoves DEF a, b
    <3>2. Promise!Receive(q)
      BY <2>2, <3>1 DEF Promise!Receive
    <3> QED
      BY <1>5, <2>4, <3>2 DEF Promise!Next
  <2>6. CASE Peeks(q)
    <3>1. Messages[q] = b
      BY <1>5 DEF b, Messages, Contents
    <3>2. Messages' = Messages
      BY <1>1, <1>3, <2>6, SameMessages
    <3>3. Promise!Peek(q)
      BY <2>2, <3>1, <3>2 DEF Promise!Peek
    <3> QED
      BY <1>5, <2>4, <3>3 DEF Promise!Next
  <2> QED
    BY <2>5, <2>6
<1> QED
  BY <1>4, <1>5

LEMMA PromiseStep ==
  ASSUME Typed, Rings, [Next]_vars
  PROVE  Rings' /\ [Promise!Next]_<<Messages, got>>
<1>1. OnRing
  BY StepsOnRing
<1>2. CASE Idles
  BY <1>2, IdlesKept DEF Idles
<1> QED
  BY <1>1, <1>2, SendPromise, ReceivePromise DEF OnRing

LEMMA PromiseInit ==
  ASSUME Init
  PROVE  Rings /\ Promise!Init
<1>1. \A q \in Queues : queue[q] = Created(q)
  BY DEF Init
<1>2. ASSUME NEW q \in Fifos
      PROVE  /\ RingOK(queue[q], Capacity[q])
             /\ Contents(queue[q], Capacity[q]) = <<>>
  <2>1. q \in Queues /\ q \notin Mutexes /\ Kind[q] # "mutex"
    BY ConstantsTyped DEF Fifos
  <2> DEFINE r == Created(q)
  <2> r.count = 0 /\ r.readFrom = Capacity[q] - 1 /\ r.writeTo = 0
    BY <2>1 DEF Created
  <2> HIDE DEF r
  <2>2. queue[q].count = 0 /\ queue[q].readFrom = Capacity[q] - 1 /\ queue[q].writeTo = 0
    BY <1>1, <2>1 DEF r
  <2>3. Capacity[q] \in Nat \ {0}
    BY <2>1, ConstantsTyped
  <2>4. Capacity[q] % Capacity[q] = 0
    BY <2>3, RingPlace
  <2>5. Capacity[q] - 1 + 0 + 1 = Capacity[q]
    BY <2>3
  <2> QED
    BY <2>2, <2>4, <2>5 DEF RingOK, Contents
<1>3. Messages = [q \in Fifos |-> <<>>]
  BY <1>2 DEF Messages, Contents
<1>4. got \in Items
  BY ConstantsTyped DEF Init
<1> QED
  BY <1>2, <1>3, <1>4 DEF Rings, Promise!Init

(* The messages between pcReadFrom and pcWriteTo are a bounded sequence,    *)
(* whatever calls and interrupts send, receive and peek at, and whoever is  *)
(* woken, suspended, deleted or timed out meanwhile (prvCopyDataToQueue,    *)
(* prvCopyDataFromQueue and all that call them).                            *)
THEOREM QueueKeepsPromise == Spec => PromiseKept
<1>1. Init => Rings /\ Promise!Init
  BY PromiseInit
<1>2. IInv /\ Rings /\ [Next]_vars => Rings' /\ [Promise!Next]_<<Messages, got>>
  BY PromiseStep DEF IInv
<1> QED
  BY <1>1, <1>2, Invariance, PTL DEF Spec, PromiseKept, Promise!Spec


-----------------------------------------------------------------------------
(* With no mutex about, the task that runs is one of the most important.    *)

NoMutex == Mutexes = {}

LEMMA NoHolders ==
  ASSUME Holding, NoMutex, NEW q \in Queues
  PROVE  queue[q].holder = NoTask /\ Kind[q] # "mutex"
BY ConstantsTyped DEF Holding, NoMutex

(* The place of the task that runs, at a time when no yield is on its way.  *)
LEMMA RunsAtPriority ==
  ASSUME Typed, Placing, Restored, running # NoTask, suspendAll = 0 => ~yield,
         ~Blocking(running)
  PROVE  /\ running \in Tasks /\ home[running] >= 0
         /\ home[running] = priority[running]
<1>1. running \in Tasks /\ home[running] >= 0 /\ home[running] \in Places
  BY DEF Typed, CoreTyped, Placing
<1>2. home[running] \in Levels
  BY <1>1 DEF Places, Delayed, Suspended, Terminated, Freed
<1> QED
  BY <1>1, <1>2 DEF Restored

(* Places and priorities are numbers.                                       *)
LEMMA PlacesTyped ==
  ASSUME Typed, NEW x \in Tasks
  PROVE  home[x] \in Int /\ priority[x] \in Nat
BY ConstantsTyped DEF Typed, PriosTyped, Levels, Places, Delayed, Suspended,
   Terminated, Freed

(* A step that readies nobody.                                              *)
LEMMA ForemostStays ==
  ASSUME Foremost, UNCHANGED <<home, running>>,
         (suspendAll' = 0 => ~yield') => (suspendAll = 0 => ~yield),
         running # NoTask /\ Blocking(running) => Blocking(running)'
  PROVE  Foremost'
BY Zenon DEF Foremost

(* A task is readied, and there is a yield if it outranks the one that runs. *)
LEMMA ForemostReadies ==
  ASSUME Typed, Placing, Restored, Foremost, NEW h \in Tasks, home[h] \in Waiting,
         home' = [home EXCEPT ![h] = priority[h]], UNCHANGED running,
         suspendAll = 0, suspendAll' = 0,
         ~yield' => ~yield /\ ~(priority[h] >= PriorityIn(priority)),
         running # NoTask /\ Blocking(running) => Blocking(running)'
  PROVE  Foremost'
<1>1. CASE yield'
  BY <1>1 DEF Foremost
<1>2. CASE ~yield'
  <2>1. ~yield /\ ~(priority[h] >= PriorityIn(priority)) /\ home \in [Tasks -> Places]
    BY <1>2 DEF Typed
  <2>2. priority[h] \in Nat
    BY PlacesTyped
  <2>3. running # NoTask
    BY <2>1, <2>2 DEF PriorityIn, IdlePriority
  <2>4. CASE Blocking(running)
    BY <2>3, <2>4 DEF Foremost
  <2>5. CASE ~Blocking(running)
    <3>1. /\ running \in Tasks /\ home[running] >= 0
          /\ home[running] = priority[running]
      BY <2>1, <2>3, <2>5, RunsAtPriority
    <3>2. \A x \in Tasks : home[x] <= home[running]
      BY <2>1, <2>3, <2>5 DEF Foremost
    <3>3. ~(priority[h] >= home[running])
      BY <2>1, <2>3, <3>1 DEF PriorityIn
    <3>4. h # running
      BY <3>1 DEF Waiting, Delayed, Suspended
    <3>5. home'[running] = home[running] /\ home'[h] = priority[h]
      BY <2>1, <3>1, <3>4
    <3>6. ASSUME NEW x \in Tasks PROVE home'[x] <= home'[running]
      <4>1. home[running] \in Int
        BY <3>1, PlacesTyped
      <4>2. CASE x = h
        BY <2>2, <3>3, <3>5, <4>1, <4>2
      <4>3. CASE x # h
        <5>1. home'[x] = home[x]
          BY <2>1, <4>3
        <5> QED
          BY <3>2, <3>5, <5>1
      <4> QED
        BY <4>2, <4>3
    <3> QED
      BY <2>3, <3>6 DEF Foremost
  <2> QED
    BY <2>4, <2>5
<1> QED
  BY <1>1, <1>2

LEMMA ForemostWakes ==
  ASSUME Typed, Placing, Restored, Foremost, NEW q \in Queues, NEW s \in Sides,
         WakeFirst(q, s, home, priority), UNCHANGED <<running, suspendAll>>,
         ~yield' => ~yield /\ ~Outranks(q, s, priority),
         running # NoTask /\ Blocking(running) => Blocking(running)'
  PROVE  Foremost'
<1> DEFINE h == Head(blocked[q][s])
<1>1. CASE blocked[q][s] = <<>> \/ suspendAll # 0
  <2>1. home' = home
    BY <1>1 DEF WakeFirst
  <2> QED
    BY <2>1, ForemostStays
<1>2. CASE blocked[q][s] # <<>> /\ suspendAll = 0
  <2>1. home' = [home EXCEPT ![h] = priority[h]]
    BY <1>2 DEF WakeFirst
  <2>2. h \in Tasks /\ h \in ToSet(blocked[q][s])
    BY <1>2, EntriesOf DEF Typed, ListsTyped
  <2>3. home[h] \in Waiting
    BY <2>2 DEF Placing
  <2>4. ~yield' => ~yield /\ ~(priority[h] >= PriorityIn(priority))
    BY <1>2 DEF Outranks
  <2> QED
    BY <1>2, <2>1, <2>2, <2>3, <2>4, ForemostReadies
<1> QED
  BY <1>1, <1>2

LEMMA ForemostTry ==
  ASSUME Typed, Called, Locking, Placing, Holding, Restored, NoMutex, Foremost,
         NEW t \in Tasks,
         CallStep(t) \/ TakeCounted(t) \/ TryStep(t) \/ AltStep(t)
  PROVE  Foremost'
<1> USE DEF core, sched
<1>00. t # NoTask
  BY ConstantsTyped
<1>0. /\ running = t /\ ~yield /\ UNCHANGED <<running, suspendAll>>
      /\ pc[t] \in {"run", "count", "try", "wait"}
  BY DEF CallStep, Call, TakeRecursive, GiveRecursive, TakeCounted, TryStep, TrySend,
     TryReceive, TryPeek, TryLater, AltStep, AltExpired, AltBlock, At
<1>1. running = t /\ ~yield /\ UNCHANGED <<running, suspendAll>> /\ t # NoTask
  BY <1>00, <1>0
<1>2. ~Blocking(t)
  BY <1>0 DEF Blocking
<1>3. loc[t].queue \in Queues
  BY LocalsOf
<1>4. ASSUME UNCHANGED <<home, yield>> PROVE Foremost'
  BY <1>1, <1>2, <1>4, ForemostStays
<1>5. ASSUME NEW s \in Sides, WakeFirst(loc[t].queue, s, home, priority),
             yield' = Outranks(loc[t].queue, s, priority)
      PROVE  Foremost'
  <2>1. ~yield' => ~yield /\ ~Outranks(loc[t].queue, s, priority)
    BY <1>1, <1>5, Zenon
  <2> QED
    BY <1>1, <1>2, <1>3, <1>5, <2>1, ForemostWakes
<1>6. CASE TrySend(t)
  <2> DEFINE q == loc[t].queue
             h == queue[q].holder
             hm == IF h # NoTask /\ priority'[h] # priority[h]
                   THEN [home EXCEPT ![h] = priority'[h]] ELSE home
  <2>1. h = NoTask
    BY <1>3, NoHolders
  <2>2. vTaskPriorityDisinherit(h)
    BY <1>6 DEF TrySend
  <2>3. UNCHANGED priority /\ hm = home
    BY <2>1, <2>2 DEF vTaskPriorityDisinherit, prios
  <2>4. WakeFirst(q, "receive", hm, priority')
    BY <1>6, Zenon DEF TrySend
  <2>5. yield' = Outranks(q, "receive", priority')
    BY <1>6, Zenon DEF TrySend
  <2> HIDE DEF hm, q
  <2>6. WakeFirst(q, "receive", home, priority)
    BY <2>3, <2>4
  <2>7. yield' = Outranks(q, "receive", priority)
    BY <2>3, <2>5, Zenon
  <2> QED
    BY <1>5, <2>6, <2>7 DEF q, Sides
<1>7. CASE TryReceive(t)
  <2>1. WakeFirst(loc[t].queue, "send", home, priority)
    BY <1>7, Zenon DEF TryReceive
  <2>2. yield' = Outranks(loc[t].queue, "send", priority)
    BY <1>7, Zenon DEF TryReceive
  <2> QED
    BY <1>5, <2>1, <2>2 DEF Sides
<1>8. CASE TryPeek(t)
  <2>1. WakeFirst(loc[t].queue, "receive", home, priority)
    BY <1>8, Zenon DEF TryPeek
  <2>2. yield' = Outranks(loc[t].queue, "receive", priority)
    BY <1>8, Zenon DEF TryPeek
  <2> QED
    BY <1>5, <2>1, <2>2 DEF Sides
<1>9. CASE AltBlock(t)
  <2>1. CASE Ready(loc[t].op, loc[t].queue)
    BY <1>4, <1>9, <2>1 DEF AltBlock
  <2>2. CASE ~Ready(loc[t].op, loc[t].queue)
    <3>1. yield' = TRUE
      BY <1>9, <2>2, Zenon DEF AltBlock
    <3>2. suspendAll = 0
      BY <1>1, <1>9, InCall DEF AltBlock, At, Sections
    <3> QED
      BY <1>1, <3>1, <3>2 DEF Foremost
  <2> QED
    BY <2>1, <2>2
<1>10. CASE CallStep(t) \/ TakeCounted(t) \/ TryLater(t) \/ AltExpired(t)
  <2>1. CASE CallStep(t)
    BY <1>4, <2>1 DEF CallStep, Call, TakeRecursive, GiveRecursive
  <2>2. CASE TakeCounted(t)
    BY <1>4, <2>2 DEF TakeCounted
  <2>3. CASE TryLater(t)
    BY <1>4, <2>3 DEF TryLater
  <2>4. CASE AltExpired(t)
    BY <1>4, <2>4 DEF AltExpired
  <2> QED
    BY <1>10, <2>1, <2>2, <2>3, <2>4
<1> QED
  BY <1>6, <1>7, <1>8, <1>9, <1>10 DEF TryStep, AltStep

(* xTaskResumeAll readies whom it held pending, and if the tick has come    *)
(* any of the delayed tasks, but then it yields.                            *)
LEMMA ForemostResumes ==
  ASSUME Typed, Placing, Restored, NEW level, NEW late, NEW ticked \in BOOLEAN,
         NEW anyway \in BOOLEAN, ResumeAll(level, late, ticked, anyway), ~yield'
  PROVE  /\ ~anyway
         /\ \A x \in Tasks : \/ home'[x] = home[x] /\ x \notin ToSet(pendingReady)
                             \/ /\ x \in ToSet(pendingReady)
                                /\ home'[x] = priority[x] /\ ~(priority[x] >= level)
<1> DEFINE held == ToSet(pendingReady)
           hm == [x \in Tasks |-> IF x \in held THEN priority[x] ELSE home[x]]
<1>1. /\ late # {} => ticked
      /\ home' = [x \in Tasks |-> IF x \in late THEN priority[x] ELSE hm[x]]
  BY DEF ResumeAll
<1>2. yield' = (anyway \/ YieldDue(level, held, ticked))
  BY Zenon DEF ResumeAll
<1>3. ~anyway /\ ~YieldDue(level, held, ticked)
  BY <1>2, Zenon
<1>4. ~ticked /\ \A x \in held : ~(priority[x] >= level)
  BY <1>3 DEF YieldDue
<1>5. \A x \in Tasks : home'[x] = IF x \in held THEN priority[x] ELSE home[x]
  BY <1>1, <1>4
<1> HIDE DEF held, hm
<1> QED
  BY <1>3, <1>4, <1>5 DEF held

LEMMA ForemostWait ==
  ASSUME Typed, Called, Locking, Placing, Holding, Restored, NoMutex, Foremost,
         NEW t \in Tasks, WaitStep(t)
  PROVE  Foremost'
<1> USE DEF core, sched
<1>00. t # NoTask
  BY ConstantsTyped
<1>0. running = t /\ ~yield
  BY DEF WaitStep, vTaskSuspendAll, prvLockQueue, xTaskCheckForTimeOut,
     TestQueue, vTaskPriorityInherit, vTaskPlaceOnEventList, UnlockTx, UnlockRx,
     xTaskResumeAll, At
<1>01. UNCHANGED running
  <2>1. CASE UnlockTx(t) \/ UnlockRx(t)
    BY <2>1, Zenon DEF UnlockTx, UnlockRx, Replay
  <2>2. CASE xTaskResumeAll(t)
    BY <2>2 DEF xTaskResumeAll
  <2>3. CASE vTaskPriorityInherit(t)
    BY <2>3 DEF vTaskPriorityInherit
  <2> QED
    BY <2>1, <2>2, <2>3 DEF WaitStep, vTaskSuspendAll, prvLockQueue,
       xTaskCheckForTimeOut, TestQueue, vTaskPlaceOnEventList
<1>1. running = t /\ ~yield /\ UNCHANGED running /\ t # NoTask
  BY <1>00, <1>0, <1>01
<1>2. ASSUME UNCHANGED <<home, yield>>, Blocking(t) => Blocking(t)' PROVE Foremost'
  BY <1>1, <1>2, ForemostStays
<1>3. ASSUME pc[t] \notin {"unlockTx", "unlockRx", "resume"}, UNCHANGED <<home, yield>>
      PROVE  Foremost'
  BY <1>2, <1>3 DEF Blocking
<1>4. CASE \/ vTaskSuspendAll(t) \/ prvLockQueue(t) \/ xTaskCheckForTimeOut(t)
           \/ TestQueue(t)
  BY <1>3, <1>4 DEF vTaskSuspendAll, prvLockQueue, xTaskCheckForTimeOut, TestQueue, At
<1>5. CASE vTaskPriorityInherit(t)
  <2>1. queue[loc[t].queue].holder \in Tasks
    BY <1>5 DEF vTaskPriorityInherit, InheritBy
  <2> QED
    BY <2>1, LocalsOf, NoHolders, ConstantsTyped
<1>6. CASE vTaskPlaceOnEventList(t)
  <2>1. Leave(t, "block", FALSE)
    BY <1>6 DEF vTaskPlaceOnEventList
  <2>2. Blocking(t)'
    BY <2>1, LeaveGoes DEF Blocking, Goes
  <2> QED
    BY <1>1, <2>2 DEF Foremost
<1>7. CASE UnlockTx(t) \/ UnlockRx(t)
  <2>1. ASSUME NEW count, NEW s, NEW l \in {"unlockRx", "resume"},
               Replay(t, count, s), Goto(t, l)
        PROVE  Foremost'
    <3>1. UNCHANGED <<home, yield, loc>>
      BY <2>1, Zenon DEF Replay
    <3>2. pc'[t] = l
      BY <2>1 DEF Goto, Typed, CallsTyped
    <3> QED
      BY <1>2, <3>1, <3>2 DEF Blocking
  <2>2. CASE UnlockTx(t)
    <3>1. Replay(t, queue[loc[t].queue].txLock, "receive") /\ Goto(t, "unlockRx")
      BY <2>2, Zenon DEF UnlockTx
    <3> QED
      BY <2>1, <3>1
  <2>3. CASE UnlockRx(t)
    <3>1. Replay(t, queue[loc[t].queue].rxLock, "send") /\ Goto(t, "resume")
      BY <2>3, Zenon DEF UnlockRx
    <3> QED
      BY <2>1, <3>1
  <2> QED
    BY <1>7, <2>2, <2>3
<1>8. CASE xTaskResumeAll(t)
  <2>1. PICK late \in SUBSET {x \in Tasks : home[x] = Delayed}, ticked \in BOOLEAN :
          ResumeAll(priority[t], late, ticked, loc[t].then = "block")
    BY <1>8 DEF xTaskResumeAll
  <2>2. CASE yield'
    <3>1. suspendAll' = 0
      <4>1. pc[t] = "resume"
        BY <1>8 DEF xTaskResumeAll, At
      <4>2. suspendAll = 1
        BY <1>1, <4>1, InCall DEF Sections
      <4> QED
        BY <2>1, <4>2 DEF ResumeAll
    <3> QED
      BY <2>2, <3>1 DEF Foremost
  <2>3. CASE ~yield'
    <3> DEFINE anyway == loc[t].then = "block"
    <3>1. anyway \in BOOLEAN
      OBVIOUS
    <3> HIDE DEF anyway
    <3>2. ResumeAll(priority[t], late, ticked, anyway)
      BY <2>1, Zenon DEF anyway
    <3>3. /\ ~anyway
          /\ \A x \in Tasks : \/ home'[x] = home[x] /\ x \notin ToSet(pendingReady)
                              \/ /\ x \in ToSet(pendingReady)
                                 /\ home'[x] = priority[x] /\ ~(priority[x] >= priority[t])
      BY <2>3, <3>1, <3>2, ForemostResumes
    <3>4. ~Blocking(t)
      BY <3>3 DEF Blocking, anyway
    <3>5. home[t] >= 0 /\ home[t] = priority[t]
      BY <1>1, <3>4, RunsAtPriority
    <3>6. t \notin ToSet(pendingReady)
      BY <3>5 DEF Placing, Waiting, Delayed, Suspended
    <3>7. \A x \in Tasks : home[x] <= home[t]
      BY <1>1, <3>4 DEF Foremost
    <3>8. ASSUME NEW x \in Tasks PROVE home'[x] <= home'[t]
      <4>1. home'[t] = home[t]
        BY <3>3, <3>6
      <4>2. priority[x] \in Nat /\ priority[t] \in Nat
        BY PlacesTyped
      <4> QED
        BY <3>3, <3>5, <3>7, <4>1, <4>2
    <3> QED
      BY <1>1, <3>8 DEF Foremost
  <2> QED
    BY <2>2, <2>3
<1> QED
  BY <1>4, <1>5, <1>6, <1>7, <1>8 DEF WaitStep

(* The task that runs gets more important, or another less; or it is not    *)
(* ready any more, and yields.                                              *)
LEMMA ForemostOther ==
  ASSUME Typed, Locking, Placing, Holding, Restored, NoMutex, Foremost,
         NEW t \in Tasks, OtherStep(t)
  PROVE  Foremost'
<1> USE DEF core, sched
<1>1. /\ running = t /\ ~yield /\ pc[t] = "run"
      /\ UNCHANGED <<pc, loc, running, suspendAll>>
  BY DEF OtherStep, vTaskPrioritySet, vTaskSuspend, vTaskResume, vTaskDelete, At
<1>2. t # NoTask /\ suspendAll = 0 /\ ~Blocking(t)
  BY <1>1, InCall, ConstantsTyped DEF Sections, Blocking
<1>3. /\ home[t] >= 0 /\ home[t] = priority[t] /\ home \in [Tasks -> Places]
      /\ \A x \in Tasks : home[x] <= home[t] /\ home[x] \in Int
  BY <1>1, <1>2, RunsAtPriority, PlacesTyped DEF Foremost, Typed
<1>4. CASE yield'
  BY <1>1, <1>2, <1>4 DEF Foremost
<1>5. ASSUME \A x \in Tasks : home'[x] <= home'[t] PROVE Foremost'
  BY <1>1, <1>2, <1>5 DEF Foremost
<1>6. ASSUME NEW x \in Tasks, NEW p \in Levels, vTaskPrioritySet(t, x, p), ~yield'
      PROVE  Foremost'
  <2>1. /\ base[x] # p
        /\ priority' = [priority EXCEPT ![x] = IF @ = base[x] THEN p ELSE @]
        /\ home' = [home EXCEPT ![x] = IF @ = base[x] THEN priority'[x] ELSE @]
    BY <1>6 DEF vTaskPrioritySet
  <2>2. priority[x] = base[x] /\ priority[t] = base[t]
    BY NoHolders DEF Restored, Mutexes, NoMutex
  <2>3. IF p > base[x] THEN x = t ELSE x # t
    <3>1. yield' = IF p > base[x] THEN x # t ELSE x = t
      BY <1>6, Zenon DEF vTaskPrioritySet
    <3> QED
      BY <1>6, <3>1
  <2>4. priority'[x] = p
    BY <2>1, <2>2 DEF Typed, PriosTyped
  <2>5. p \in Int /\ base[x] \in Int
    BY <2>2, PlacesTyped, ConstantsTyped DEF Levels
  <2>6. /\ home'[x] = IF home[x] = base[x] THEN p ELSE home[x]
        /\ \A y \in Tasks \ {x} : home'[y] = home[y]
    BY <1>3, <2>1, <2>4
  <2>7. CASE x = t
    <3>1. home'[t] = p /\ p > home[t]
      BY <1>3, <2>2, <2>3, <2>6, <2>7
    <3>2. ASSUME NEW y \in Tasks PROVE home'[y] <= home'[t]
      BY <1>3, <2>5, <2>6, <2>7, <3>1
    <3> QED
      BY <1>5, <3>2
  <2>8. CASE x # t
    <3>1. home'[t] = home[t] /\ home'[x] <= home[x]
      BY <1>3, <2>1, <2>3, <2>5, <2>6, <2>8
    <3>2. ASSUME NEW y \in Tasks PROVE home'[y] <= home'[t]
      BY <1>3, <2>5, <2>6, <2>8, <3>1
    <3> QED
      BY <1>5, <3>2
  <2> QED
    BY <2>7, <2>8
<1>7. ASSUME NEW x \in Tasks, NEW p \in {Suspended, Terminated},
             home' = [home EXCEPT ![x] = p], yield' = (x = t), ~yield'
      PROVE  Foremost'
  <2>0. x # t
    BY <1>7, Zenon
  <2>1. x # t /\ p < 0 /\ p \in Int
    BY <2>0 DEF Suspended, Terminated
  <2>2. ASSUME NEW y \in Tasks PROVE home'[y] <= home'[t]
    BY <1>3, <1>7, <2>1
  <2> QED
    BY <1>5, <2>2
<1>8. ASSUME NEW x \in Tasks, vTaskSuspend(t, x) \/ vTaskDelete(t, x), ~yield'
      PROVE  Foremost'
  <2>1. yield' = (x = t)
    BY <1>8, Zenon DEF vTaskSuspend, vTaskDelete
  <2>2. \E p \in {Suspended, Terminated} : home' = [home EXCEPT ![x] = p]
    BY <1>8 DEF vTaskSuspend, vTaskDelete
  <2> QED
    BY <1>7, <1>8, <2>1, <2>2, Zenon
<1>9. ASSUME NEW x \in Tasks, vTaskResume(t, x), ~yield' PROVE Foremost'
  <2>1. home' = [home EXCEPT ![x] = priority[x]] /\ home[x] \in Waiting
    BY <1>9 DEF vTaskResume, IsSuspended, Waiting
  <2>2. yield' = (priority[x] >= priority[t])
    BY <1>9, Zenon DEF vTaskResume
  <2>3. ~(priority[x] >= PriorityIn(priority))
    BY <1>1, <1>2, <1>9, <2>2 DEF PriorityIn
  <2> QED
    BY <1>1, <1>2, <2>1, <2>3, ForemostReadies
<1> QED
  BY <1>4, <1>6, <1>8, <1>9 DEF OtherStep

(* The idle task runs while no task is ready, and leaves it so or yields.   *)
LEMMA ForemostIdle ==
  ASSUME Typed, Locking, Placing, Restored, Foremost, IdleStep
  PROVE  Foremost'
<1> USE DEF core, sched
<1>1. running = NoTask /\ ~yield /\ UNCHANGED running
  BY DEF IdleStep, CheckTermination, CheckedTermination, prvDeleteTCB, IdleAt
<1>2. \A x \in Tasks : home[x] < 0
  BY <1>1 DEF Foremost
<1>3. CASE CheckTermination
  BY <1>1, <1>3, ForemostStays DEF CheckTermination
<1>4. CASE CheckedTermination
  <2>1. PICK late \in SUBSET {x \in Tasks : home[x] = Delayed}, ticked \in BOOLEAN :
          ResumeAll(IdlePriority, late, ticked, FALSE)
    BY <1>4, Zenon DEF CheckedTermination
  <2>2. suspendAll' = 0
    BY <1>4, <2>1, Unlocks DEF ResumeAll, CheckedTermination, IdleAt, Locking
  <2>3. CASE yield'
    BY <2>2, <2>3 DEF Foremost
  <2>4. CASE ~yield'
    <3>1. \A x \in Tasks : home'[x] = home[x] \/ ~(priority[x] >= IdlePriority)
      BY <2>1, <2>4, ForemostResumes
    <3>2. \A x \in Tasks : priority[x] >= IdlePriority
      BY PlacesTyped DEF IdlePriority
    <3> QED
      BY <1>1, <1>2, <3>1, <3>2 DEF Foremost
  <2> QED
    BY <2>3, <2>4
<1>5. CASE prvDeleteTCB
  <2>1. PICK x \in Tasks : home' = [home EXCEPT ![x] = Freed]
    BY <1>5 DEF prvDeleteTCB, Dead
  <2>2. \A y \in Tasks : home'[y] < 0
    BY <1>2, <2>1 DEF Freed, Typed
  <2> QED
    BY <1>1, <2>2 DEF Foremost
<1> QED
  BY <1>3, <1>4, <1>5 DEF IdleStep

LEMMA ForemostIsr ==
  ASSUME Typed, Locking, Placing, Restored, Foremost, IsrStep
  PROVE  Foremost'
<1> USE DEF core, sched
<1>1. UNCHANGED <<running, suspendAll, pc, loc>>
  BY DEF IsrStep, xTaskResumeFromISR, xQueueGenericSendFromISR, xQueueReceiveFromISR
<1>2. running # NoTask /\ Blocking(running) => Blocking(running)'
  BY <1>1 DEF Blocking
<1>3. ASSUME UNCHANGED <<home, yield>> PROVE Foremost'
  BY <1>1, <1>2, <1>3, ForemostStays
<1>4. ASSUME NEW q \in Queues, NEW s \in Sides, WakeFirst(q, s, home, priority),
             yield' = (yield \/ Outranks(q, s, priority))
      PROVE  Foremost'
  <2>1. ~yield' => ~yield /\ ~Outranks(q, s, priority)
    BY <1>4, Zenon
  <2> QED
    BY <1>1, <1>2, <1>4, <2>1, ForemostWakes
<1>5. ASSUME NEW q \in Queues, NEW x, NEW op, xQueueGenericSendFromISR(q, x, op)
      PROVE  Foremost'
  <2>1. CASE queue[q].txLock = Unlocked
    <3>1. WakeFirst(q, "receive", home, priority)
      BY <1>5, <2>1, Zenon DEF xQueueGenericSendFromISR
    <3>2. yield' = (yield \/ Outranks(q, "receive", priority))
      BY <1>5, <2>1, Zenon DEF xQueueGenericSendFromISR
    <3> QED
      BY <1>4, <3>1, <3>2 DEF Sides
  <2>2. CASE queue[q].txLock # Unlocked
    BY <1>3, <1>5, <2>2 DEF xQueueGenericSendFromISR
  <2> QED
    BY <2>1, <2>2
<1>6. ASSUME NEW q \in Queues, xQueueReceiveFromISR(q) PROVE Foremost'
  <2>1. CASE queue[q].rxLock = Unlocked
    <3>1. WakeFirst(q, "send", home, priority)
      BY <1>6, <2>1, Zenon DEF xQueueReceiveFromISR
    <3>2. yield' = (yield \/ Outranks(q, "send", priority))
      BY <1>6, <2>1, Zenon DEF xQueueReceiveFromISR
    <3> QED
      BY <1>4, <3>1, <3>2 DEF Sides
  <2>2. CASE queue[q].rxLock # Unlocked
    BY <1>3, <1>6, <2>2 DEF xQueueReceiveFromISR
  <2> QED
    BY <2>1, <2>2
<1>7. ASSUME NEW x \in Tasks, xTaskResumeFromISR(x) PROVE Foremost'
  <2>1. CASE suspendAll = 0
    <3>1. home' = [home EXCEPT ![x] = priority[x]] /\ home[x] \in Waiting
      BY <1>7, <2>1 DEF xTaskResumeFromISR, IsSuspended, Waiting
    <3>2. yield' = (yield \/ priority[x] >= PriorityIn(priority))
      BY <1>7, <2>1, Zenon DEF xTaskResumeFromISR
    <3>3. ~yield' => ~yield /\ ~(priority[x] >= PriorityIn(priority))
      BY <3>2, Zenon
    <3> QED
      BY <1>1, <1>2, <2>1, <3>1, <3>3, ForemostReadies
  <2>2. CASE suspendAll # 0
    BY <1>3, <1>7, <2>2 DEF xTaskResumeFromISR
  <2> QED
    BY <2>1, <2>2
<1> QED
  BY <1>5, <1>6, <1>7 DEF IsrStep

(* If a task is ready, some task is the most important.                     *)
LEMMA HighestThere ==
  ASSUME Typed, NEW x \in Tasks, home[x] >= 0
  PROVE  Highest(home) # {}
<1> DEFINE N == MaxPriorities - 1
           ready == {t \in Tasks : home[t] >= 0}
           B == {N - home[t] : t \in ready}
<1>1. N \in Nat /\ \A t \in Tasks : home[t] \in Int /\ home[t] <= N
  BY ConstantsTyped DEF Typed, Places, Levels, Delayed, Suspended, Terminated, Freed
<1>2. B \subseteq 0 .. N /\ B # {}
  BY <1>1
<1> HIDE DEF N
<1>3. PICK m \in B : \A n \in B : m <= n
  <2> HIDE DEF B
  <2> QED
    BY <1>1, <1>2, Least
<1>4. PICK t \in ready : m = N - home[t]
  BY <1>3
<1>5. ASSUME NEW y \in Tasks PROVE home[y] <= home[t]
  <2>1. CASE y \in ready
    <3>1. N - home[t] <= N - home[y]
      BY <1>3, <1>4, <2>1
    <3> QED
      BY <1>1, <1>4, <3>1
  <2>2. CASE y \notin ready
    BY <1>1, <1>4, <2>2
  <2> QED
    BY <2>1, <2>2
<1> QED
  BY <1>4, <1>5 DEF Highest

LEMMA ForemostSwitch ==
  ASSUME Typed, Foremost, vTaskSwitchContext
  PROVE  Foremost'
<1>1. UNCHANGED <<suspendAll, home, pc, loc>>
  BY DEF vTaskSwitchContext
<1>2. CASE suspendAll # 0
  <2>1. UNCHANGED running
    BY <1>2 DEF vTaskSwitchContext
  <2> QED
    BY <1>1, <1>2, <2>1, ForemostStays DEF Blocking
<1>3. CASE suspendAll = 0 /\ Highest(home) = {}
  <2>1. running' = NoTask
    BY <1>3 DEF vTaskSwitchContext
  <2>2. \A x \in Tasks : home[x] < 0
    BY <1>3, HighestThere, PlacesTyped
  <2> QED
    BY <1>1, <2>1, <2>2 DEF Foremost
<1>4. CASE suspendAll = 0 /\ Highest(home) # {}
  <2>1. running' \in Highest(home)
    BY <1>4 DEF vTaskSwitchContext
  <2> QED
    BY <1>1, <2>1, ConstantsTyped DEF Foremost, Highest
<1> QED
  BY <1>2, <1>3, <1>4

LEMMA ForemostKept ==
  ASSUME IInv, NoMutex, Foremost, [Next]_vars
  PROVE  Foremost'
<1>1. CASE Next
  BY <1>1, NextCases, ForemostTry, ForemostWait, ForemostOther, ForemostIdle,
     ForemostIsr, ForemostSwitch DEF IInv
<1>2. CASE UNCHANGED vars
  BY <1>2, ForemostStays DEF vars, Blocking
<1> QED
  BY <1>1, <1>2

(* Without mutexes, and so without inheritance: while the scheduler runs    *)
(* and no yield is on its way, the task that runs is one of the most        *)
(* important that are ready, after every call, interrupt and switch         *)
(* (xTaskRemoveFromEventList, xTaskResumeAll, vTaskPrioritySet,             *)
(* vTaskSwitchContext).                                                     *)
THEOREM HighestWithoutMutexes == Spec => [](NoMutex => HighestRuns)
<1>1. Init => (NoMutex => Foremost)
  BY ConstantsTyped DEF Init, Foremost, Highest
<1>2. IInv /\ (NoMutex => Foremost) /\ [Next]_vars => (NoMutex => Foremost)'
  BY ForemostKept DEF NoMutex, Mutexes
<1>3. IInv /\ (NoMutex => Foremost) => (NoMutex => HighestRuns)
  <2> SUFFICES ASSUME IInv, Foremost, suspendAll = 0, ~yield
               PROVE  IF running = NoTask THEN Highest(home) = {}
                      ELSE running \in Highest(home)
    BY DEF HighestRuns
  <2>1. CASE running = NoTask
    <3>1. \A x \in Tasks : home[x] < 0 /\ home[x] \in Int
      BY <2>1, PlacesTyped DEF Foremost, IInv
    <3> QED
      BY <2>1, <3>1 DEF Highest
  <2>2. CASE running # NoTask
    <3>1. running \in Tasks
      BY <2>2 DEF IInv, Typed, CoreTyped
    <3>2. ~Blocking(running)
      BY <3>1 DEF IInv, Locking, Blocking, Sections
    <3>3. home[running] >= 0 /\ \A x \in Tasks : home[x] <= home[running]
      BY <2>2, <3>2, RunsAtPriority DEF Foremost, IInv
    <3> QED
      BY <2>2, <3>1, <3>3 DEF Highest
  <2> QED
    BY <2>1, <2>2
<1> QED
  BY <1>1, <1>2, <1>3, Invariance, PTL DEF Spec

-----------------------------------------------------------------------------
(* Priority inheritance, where it is used as it is meant to be.             *)

(* The tasks that use a queue; each uses one mutex at most, and nobody sets *)
(* the priority of a task that uses one, or suspends it.                    *)
Users(q) == {t \in Tasks : \E c \in Calls : c[1] = t /\ c[3] = q}
OwnMutex ==
  /\ \A p, q \in Mutexes : p # q => Users(p) \cap Users(q) = {}
  /\ \A q \in Mutexes : \A c \in PrioritySets \cup Suspends : c[2] \notin Users(q)

Waiters(q) == ToSet(blocked[q]["receive"])
Above(t, q) == \A x \in Waiters(q) : priority[x] <= priority[t]
Tries(t, q) == pc[t] \notin {"run", "count"} /\ ~Sends(loc[t].op) /\ loc[t].queue = q

(* A mutex is held by a task that uses it, and not by one that tries to     *)
(* take it.                                                                 *)
HoldersUse == \A q \in Mutexes : queue[q].holder \in Users(q) \cup {NoTask}
HoldsNot == \A q \in Mutexes, t \in Tasks : Tries(t, q) => queue[q].holder # t

(* The tasks that wait for a mutex are in the order of their priorities.    *)
Rank == [x \in Tasks |-> MaxPriorities - priority[x]]
Sorted == \A q \in Mutexes : OrderedBy(blocked[q]["receive"], Rank)

(* Who holds a mutex is no less important than who waits for it, or is      *)
(* about to.                                                                *)
HolderAbove ==
  \A q \in Mutexes : queue[q].holder # NoTask => Above(queue[q].holder, q)
Raised ==
  \A q \in Mutexes, t \in Tasks : pc[t] = "place" /\ Tries(t, q) =>
    queue[q].holder # NoTask /\ priority[t] <= priority[queue[q].holder]

(* While tasks wait for a mutex that is free, one that was woken is ready,  *)
(* and nobody else will come first.                                         *)
Takes(t, q) == pc[t] = "try" /\ loc[t].timed /\ Tries(t, q) /\ home[t] >= 0 /\ Above(t, q)
NoneMissed == suspendAll = 0 => ~missedYield
Relayed ==
  \A q \in Mutexes : queue[q].holder = NoTask /\ Waiters(q) # {} =>
    /\ \E t \in Tasks : Takes(t, q)
    /\ ~yield /\ ~missedYield /\ running \in Users(q) => Above(running, q)

Usage == HoldersUse /\ HoldsNot
Order == Sorted /\ HolderAbove /\ Raised
Inheritance == Usage /\ Order /\ NoneMissed /\ Relayed

LEMMA MutexQueues ==
  ASSUME NEW q \in Mutexes
  PROVE  q \in Queues /\ Kind[q] = "mutex"
BY DEF Mutexes

(* Who tries to take a mutex uses it, and holds none.                       *)
LEMMA TriesHoldsNone ==
  ASSUME Typed, Called, Usage, OwnMutex, NEW q \in Mutexes, NEW t \in Tasks, Tries(t, q)
  PROVE  t \in Users(q) /\ \A p \in Mutexes : queue[p].holder # t
<1>1. t \in Users(q)
  <2>1. PICK w \in Waits : <<t, loc[t].op, loc[t].queue, w>> \in Calls
    BY DEF Called, CalledAt, Tries
  <2> QED
    BY <2>1 DEF Users, Tries
<1>2. ASSUME NEW p \in Mutexes, queue[p].holder = t PROVE FALSE
  <2>1. t \in Users(p)
    BY <1>2, ConstantsTyped DEF Usage, HoldersUse
  <2>2. p = q
    BY <1>1, <2>1 DEF OwnMutex
  <2> QED
    BY <1>2, <2>2 DEF Usage, HoldsNot
<1> QED
  BY <1>1, <1>2

(* So does who waits for it; its priority is its own, and so is its place   *)
(* on the event list.                                                       *)
LEMMA WaiterTries ==
  ASSUME Placing, NEW q \in Queues, NEW x \in Waiters(q)
  PROVE  /\ Tries(x, q) /\ loc[x].timed /\ home[x] < 0
         /\ pc[x] = "try" \/ pc[x] \in Sections
<1>1. Entered(x, q, "receive") /\ home[x] \in Waiting
  BY DEF Placing, Sides, Waiters
<1> QED
  BY <1>1 DEF Entered, Tries, Side, Blocking, Waiting, Delayed, Suspended, Sections

LEMMA OwnPriority ==
  ASSUME Typed, Called, Restored, Usage, OwnMutex, NEW q \in Mutexes, NEW t \in Tasks,
         Tries(t, q)
  PROVE  priority[t] = base[t] /\ value[t] = Rank[t]
<1>1. \A p \in Mutexes : queue[p].holder # t
  BY TriesHoldsNone
<1>2. RestoredAt(t)
  BY RestoredParts
<1> QED
  BY <1>1, <1>2 DEF RestoredAt, Rank

LEMMA RankTyped ==
  ASSUME Typed
  PROVE  /\ Rank \in [Tasks -> Nat]
         /\ \A x, y \in Tasks : Rank[x] <= Rank[y] <=> priority[y] <= priority[x]
<1>1. \A x \in Tasks : priority[x] \in 0 .. MaxPriorities - 1
  BY DEF Typed, PriosTyped, Levels
<1>2. \A x \in Tasks : MaxPriorities - priority[x] \in Nat
  BY <1>1, ConstantsTyped
<1> QED
  BY <1>1, <1>2, ConstantsTyped DEF Rank

-----------------------------------------------------------------------------
(* What the steps do to the tasks that wait for a mutex.                    *)

(* Some leave, and the others stay in whatever order they are in.           *)
Shrinks(q) ==
  /\ Waiters(q)' \subseteq Waiters(q)
  /\ \A f \in [Tasks -> Nat] :
       OrderedBy(blocked[q]["receive"], f) => OrderedBy(blocked'[q]["receive"], f)
Joins(t, q) ==
  /\ vTaskPlaceOnEventList(t) \/ (AltBlock(t) /\ ~Ready(loc[t].op, q))
  /\ Tries(t, q) /\ t \notin Waiters(q) /\ Placed(t)

LEMMA SameWaiters ==
  ASSUME NEW q, blocked'[q]["receive"] = blocked[q]["receive"]
  PROVE  Shrinks(q)
BY DEF Shrinks, Waiters

LEMMA WakeShrinks ==
  ASSUME Typed, Placing, NEW p \in Queues, NEW s \in Sides, NEW hm, NEW pr,
         WakeFirst(p, s, hm, pr), NEW q \in Queues
  PROVE  Shrinks(q)
<1> DEFINE l == blocked[q]["receive"]
<1>1. blocked \in [Queues -> [Sides -> Seq(Tasks)]] /\ "receive" \in Sides
  BY DEF Typed, ListsTyped, Sides
<1>2. l \in Seq(Tasks) /\ IsInjective(l)
  BY <1>1 DEF Placing
<1>3. CASE blocked[p][s] # <<>> /\ p = q /\ s = "receive"
  <2>1. blocked'[q]["receive"] = Tail(l)
    <3>1. blocked' = [blocked EXCEPT ![p][s] = Tail(@)]
      BY <1>3 DEF WakeFirst
    <3>2. blocked' = [blocked EXCEPT ![q]["receive"] = Tail(l)]
      BY <1>3, <3>1
    <3> DEFINE r == Tail(l)
    <3> HIDE DEF r
    <3>3. blocked' = [blocked EXCEPT ![q]["receive"] = r]
      BY <3>2 DEF r
    <3>4. blocked'[q]["receive"] = r
      BY <1>1, <3>3
    <3> QED
      BY <3>4 DEF r
  <2>2. ToSet(Tail(l)) \subseteq ToSet(l)
    BY <1>2, <1>3, TailOnce
  <2>3. \A f : OrderedBy(l, f) => OrderedBy(Tail(l), f)
    BY <1>2, <1>3, TailOrdered
  <2> QED
    BY <2>1, <2>2, <2>3 DEF Shrinks, Waiters
<1>4. CASE ~(blocked[p][s] # <<>> /\ p = q /\ s = "receive")
  <2>1. blocked'[q]["receive"] = l
    BY <1>1, <1>4 DEF WakeFirst
  <2> QED
    BY <2>1, SameWaiters
<1> QED
  BY <1>3, <1>4

LEMMA ReleaseShrinks ==
  ASSUME Typed, Placing, NEW late, blocked' = Released(late), NEW q \in Queues
  PROVE  Shrinks(q)
<1> DEFINE l == blocked[q]["receive"]
<1>1. l \in Seq(Tasks) /\ IsInjective(l)
  BY DEF Typed, ListsTyped, Placing, Sides
<1>2. blocked'[q]["receive"] = Without(l, late)
  BY DEF Released
<1>3. ToSet(Without(l, late)) \subseteq ToSet(l)
  BY <1>1, WithoutOnce
<1>4. \A f \in [Tasks -> Nat] : OrderedBy(l, f) => OrderedBy(Without(l, late), f)
  BY <1>1, WithoutInOrder
<1> QED
  BY <1>2, <1>3, <1>4 DEF Shrinks, Waiters

LEMMA ReplayShrinks ==
  ASSUME Typed, Placing, NEW t \in Tasks, NEW count \in Int, NEW s \in Sides,
         Replay(t, count, s), NEW q \in Queues
  PROVE  Shrinks(q)
<1> DEFINE l == blocked[q]["receive"]
           k == IF count < 0 THEN 0 ELSE IF count < Len(l) THEN count ELSE Len(l)
<1>1. /\ blocked \in [Queues -> [Sides -> Seq(Tasks)]] /\ "receive" \in Sides
      /\ loc[t].queue \in Queues
  BY LocalsOf DEF Typed, ListsTyped, Sides
<1>2. l \in Seq(Tasks) /\ IsInjective(l) /\ k \in 0 .. Len(l)
  BY <1>1 DEF Placing
<1>3. CASE loc[t].queue = q /\ s = "receive"
  <2>1. blocked'[q]["receive"] = SubSeq(l, k + 1, Len(l))
    BY <1>1, <1>3 DEF Replay
  <2> HIDE DEF k, l
  <2>2. ToSet(SubSeq(l, k + 1, Len(l))) \subseteq ToSet(l)
    BY <1>2, SplitOnce
  <2>3. \A f : OrderedBy(l, f) => OrderedBy(SubSeq(l, k + 1, Len(l)), f)
    BY <1>2, RestInOrder
  <2> QED
    BY <2>1, <2>2, <2>3 DEF Shrinks, Waiters, l
<1>4. CASE ~(loc[t].queue = q /\ s = "receive")
  <2>1. blocked'[q]["receive"] = l
    BY <1>1, <1>4 DEF Replay
  <2> QED
    BY <2>1, SameWaiters
<1> QED
  BY <1>3, <1>4

LEMMA PlacedMoves ==
  ASSUME Typed, Placing, NEW t \in Tasks, Placed(t), ~OnAList(t), NEW q \in Queues,
         pc[t] \notin {"run", "count"},
         vTaskPlaceOnEventList(t) \/ (AltBlock(t) /\ ~Ready(loc[t].op, loc[t].queue))
  PROVE  Shrinks(q) \/ Joins(t, q)
<1>1. CASE loc[t].queue = q /\ Side(loc[t].op) = "receive"
  BY <1>1 DEF Joins, Tries, Waiters, OnAList, Sides, Side
<1>2. CASE loc[t].queue # q \/ Side(loc[t].op) # "receive"
  <2>1. blocked'[q]["receive"] = blocked[q]["receive"]
    BY <1>2, PlaceEffect DEF Sides
  <2> QED
    BY <2>1, SameWaiters
<1> QED
  BY <1>1, <1>2

LEMMA WaitersMove ==
  ASSUME Typed, Locking, Placing, Next, NEW q \in Queues
  PROVE  Shrinks(q) \/ \E t \in Tasks : Joins(t, q)
<1> USE DEF core, sched
<1>1. ASSUME UNCHANGED blocked PROVE Shrinks(q)
  BY <1>1, SameWaiters
<1>2. ASSUME NEW t \in Tasks, CallStep(t) \/ TakeCounted(t) \/ TryStep(t) PROVE Shrinks(q)
  <2>1. loc[t].queue \in Queues
    BY LocalsOf
  <2>2. CASE CallStep(t) \/ TakeCounted(t) \/ TryLater(t)
    BY <1>1, <2>2, CallApart
  <2>3. CASE TrySend(t)
    <3>1. \E hm : WakeFirst(loc[t].queue, "receive", hm, priority')
      BY <2>3, Zenon DEF TrySend
    <3> QED
      BY <2>1, <3>1, WakeShrinks DEF Sides
  <2>4. CASE TryReceive(t)
    BY <2>1, <2>4, WakeShrinks DEF TryReceive, Sides
  <2>5. CASE TryPeek(t)
    BY <2>1, <2>5, WakeShrinks DEF TryPeek, Sides
  <2> QED
    BY <1>2, <2>2, <2>3, <2>4, <2>5 DEF TryStep
<1>3. ASSUME NEW t \in Tasks, WaitStep(t) PROVE Shrinks(q) \/ Joins(t, q)
  <2>1. CASE vTaskPlaceOnEventList(t)
    <3>1. running = t /\ ~yield /\ pc[t] = "place" /\ Placed(t)
      BY <2>1 DEF vTaskPlaceOnEventList, At
    <3> QED
      BY <2>1, <3>1, RunsReady, PlacedMoves DEF Blocking
  <2>2. CASE UnlockTx(t) \/ UnlockRx(t)
    <3>1. queue[loc[t].queue].txLock \in Int /\ queue[loc[t].queue].rxLock \in Int
      BY LocalsOf DEF RecordOK, QueueRecords
    <3> QED
      BY <2>2, <3>1, ReplayShrinks DEF UnlockTx, UnlockRx, Sides
  <2>3. CASE xTaskResumeAll(t)
    BY <2>3, ReleaseShrinks DEF xTaskResumeAll, ResumeAll
  <2>4. CASE \/ vTaskSuspendAll(t) \/ prvLockQueue(t) \/ xTaskCheckForTimeOut(t)
             \/ TestQueue(t) \/ vTaskPriorityInherit(t)
    BY <1>1, <2>4 DEF vTaskSuspendAll, prvLockQueue, xTaskCheckForTimeOut, TestQueue,
       vTaskPriorityInherit
  <2> QED
    BY <1>3, <2>1, <2>2, <2>3, <2>4 DEF WaitStep
<1>4. ASSUME NEW t \in Tasks, AltStep(t) PROVE Shrinks(q) \/ Joins(t, q)
  <2>1. CASE AltBlock(t) /\ ~Ready(loc[t].op, loc[t].queue)
    <3>1. running = t /\ ~yield /\ pc[t] = "wait" /\ Placed(t)
      BY <2>1 DEF AltBlock, At
    <3> QED
      BY <2>1, <3>1, RunsReady, PlacedMoves DEF Blocking
  <2>2. CASE ~(AltBlock(t) /\ ~Ready(loc[t].op, loc[t].queue))
    BY <1>1, <1>4, <2>2 DEF AltStep, AltExpired, AltBlock
  <2> QED
    BY <2>1, <2>2
<1>5. ASSUME NEW t \in Tasks, OtherStep(t) PROVE Shrinks(q)
  <2>1. UNCHANGED blocked \/ \E late : blocked' = Released(late)
    BY <1>5 DEF OtherStep, vTaskPrioritySet, vTaskSuspend, vTaskResume, vTaskDelete
  <2> QED
    BY <1>1, <2>1, ReleaseShrinks
<1>6. ASSUME IdleStep \/ vTaskSwitchContext PROVE Shrinks(q)
  <2>1. UNCHANGED blocked \/ \E late : blocked' = Released(late)
    BY <1>6 DEF IdleStep, CheckTermination, CheckedTermination, prvDeleteTCB,
       ResumeAll, vTaskSwitchContext
  <2> QED
    BY <1>1, <2>1, ReleaseShrinks
<1>7. ASSUME IsrStep PROVE Shrinks(q)
  <2>1. ASSUME NEW p \in Queues, NEW x, NEW op, xQueueGenericSendFromISR(p, x, op)
        PROVE  Shrinks(q)
    BY <1>1, <2>1, WakeShrinks DEF xQueueGenericSendFromISR, Sides
  <2>2. ASSUME NEW p \in Queues, xQueueReceiveFromISR(p) PROVE Shrinks(q)
    BY <1>1, <2>2, WakeShrinks DEF xQueueReceiveFromISR, Sides
  <2> QED
    BY <1>1, <1>7, <2>1, <2>2 DEF IsrStep, xTaskResumeFromISR
<1> QED
  BY <1>2, <1>3, <1>4, <1>5, <1>6, <1>7, NextCases

-----------------------------------------------------------------------------
(* What the steps do to the priorities of the tasks that use a mutex, and   *)
(* to its holder.                                                           *)

LEMMA HolderMoves ==
  ASSUME Typed, Called, Holding, Next, NEW q \in Mutexes
  PROVE  \/ queue'[q].holder = queue[q].holder
         \/ \E t \in Tasks : /\ loc[t].queue = q /\ TryReceive(t)
                             /\ queue[q].holder = NoTask /\ queue'[q].holder = t
         \/ \E t \in Tasks : /\ loc[t].queue = q /\ TrySend(t)
                             /\ queue[q].holder = t /\ queue'[q].holder = NoTask
<1>1. q \in Queues /\ Kind[q] = "mutex"
  BY MutexQueues
<1>2. ASSUME NEW t \in Tasks, TryReceive(t), loc[t].queue = q
      PROVE  queue[q].holder = NoTask /\ queue'[q].holder = t
  <2>1. queue[q].holder = NoTask
    BY <1>1, <1>2, MutexFields DEF TryReceive, HasItem
  <2> QED
    BY <1>1, <1>2, <2>1, TryReceiveQueue DEF Becomes
<1>3. ASSUME NEW t \in Tasks, TrySend(t), loc[t].queue = q
      PROVE  queue[q].holder = t /\ queue'[q].holder = NoTask
  <2>1. queue[q].holder = t
    BY <1>3, HoldingParts DEF HoldsAt, Gives, TrySend, At
  <2> QED
    BY <1>3, <2>1, TrySendQueue DEF Becomes
<1>4. ASSUME NEW t \in Tasks, TryReceive(t) \/ TrySend(t), loc[t].queue # q
      PROVE  queue'[q] = queue[q]
  BY <1>1, <1>4, TryReceiveQueue, TrySendQueue DEF Becomes
<1>5. ASSUME \A t \in Tasks : ~TrySend(t) /\ ~TryReceive(t)
      PROVE  queue'[q].holder = queue[q].holder
  BY <1>5, HoldersMove DEF SameHolders
<1> QED
  BY <1>2, <1>3, <1>4, <1>5

LEMMA PrioritiesMove ==
  ASSUME Typed, Called, Holding, Usage, OwnMutex, Next,
         NEW q \in Mutexes, NEW x \in Users(q)
  PROVE  \/ priority'[x] = priority[x]
         \/ priority'[x] > priority[x] /\ queue[q].holder = x
         \/ queue[q].holder = x /\ TrySend(x) /\ loc[x].queue = q
<1> USE DEF core, sched
<1>1. x \in Tasks /\ NoTask \notin Tasks
  BY ConstantsTyped DEF Users
<1>2. ASSUME NEW p \in Mutexes, queue[p].holder = x PROVE p = q
  <2>1. x \in Users(p)
    BY <1>1, <1>2 DEF Usage, HoldersUse
  <2> QED
    BY <2>1 DEF OwnMutex
<1>3. priority \in [Tasks -> Levels] /\ \A t \in Tasks : priority[t] \in Nat
  BY PlacesTyped DEF Typed, PriosTyped
<1>4. ASSUME UNCHANGED prios PROVE priority'[x] = priority[x]
  BY <1>4 DEF prios
<1>5. ASSUME NEW t \in Tasks, WaitsForMutex(t), InheritBy(queue[loc[t].queue].holder, t)
      PROVE  \/ priority'[x] = priority[x]
             \/ priority'[x] > priority[x] /\ queue[q].holder = x
  <2>1. PICK p \in Queues : p = loc[t].queue
    BY LocalsOf
  <2>2. p \in Mutexes
    BY <1>5, <2>1 DEF WaitsForMutex, Mutexes
  <2>3. PICK h : h = queue[p].holder
    OBVIOUS
  <2>4. InheritBy(h, t)
    BY <1>5, <2>1, <2>3
  <2>5. priority' = IF Inherits(h, t) THEN [priority EXCEPT ![h] = priority[t]] ELSE priority
    BY <2>4 DEF InheritBy
  <2>6. CASE Inherits(h, t) /\ x = h
    <3>1. priority'[x] = priority[t] /\ priority[x] < priority[t]
      BY <1>1, <1>3, <2>5, <2>6 DEF Inherits
    <3> QED
      BY <1>2, <1>3, <2>2, <2>3, <2>6, <3>1
  <2>7. CASE ~(Inherits(h, t) /\ x = h)
    BY <1>1, <1>3, <2>5, <2>7
  <2> QED
    BY <2>6, <2>7
<1>6. ASSUME NEW t \in Tasks, TrySend(t)
      PROVE  \/ priority'[x] = priority[x]
             \/ queue[q].holder = x /\ TrySend(x) /\ loc[x].queue = q
  <2>1. PICK p \in Queues : p = loc[t].queue
    BY LocalsOf
  <2>2. PICK h : h = queue[p].holder
    OBVIOUS
  <2>3. /\ pc[t] = "try" /\ Sends(loc[t].op) /\ vTaskPriorityDisinherit(h)
    BY <1>6, <2>1, <2>2 DEF TrySend, At
  <2>4. p \in Mutexes => h = t
    BY <2>1, <2>2, <2>3, HoldingParts DEF HoldsAt, Gives
  <2>5. p \notin Mutexes => h = NoTask
    BY <2>2, HoldingParts
  <2>6. priority' = priority \/ priority' = [priority EXCEPT ![h] = base[h]]
    BY <2>3 DEF vTaskPriorityDisinherit, prios
  <2>7. CASE x = h
    <3>1. p \in Mutexes /\ x = t
      BY <1>1, <2>4, <2>5, <2>7
    <3>2. p = q
      BY <1>2, <2>2, <2>7, <3>1
    <3> QED
      BY <1>6, <2>1, <2>2, <2>7, <3>1, <3>2
  <2>8. CASE x # h
    BY <1>1, <1>3, <2>6, <2>8
  <2> QED
    BY <2>7, <2>8
<1>7. ASSUME NEW t \in Tasks, CallStep(t) \/ TakeCounted(t) \/ TryStep(t)
      PROVE  \/ priority'[x] = priority[x]
             \/ queue[q].holder = x /\ TrySend(x) /\ loc[x].queue = q
  <2>1. CASE CallStep(t) \/ TakeCounted(t) \/ TryLater(t)
    BY <1>4, <2>1, CallApart
  <2>2. CASE TryReceive(t) \/ TryPeek(t)
    BY <1>4, <2>2 DEF TryReceive, TryPeek
  <2> QED
    BY <1>6, <1>7, <2>1, <2>2 DEF TryStep
<1>8. ASSUME NEW t \in Tasks, WaitStep(t)
      PROVE  \/ priority'[x] = priority[x]
             \/ priority'[x] > priority[x] /\ queue[q].holder = x
  <2>1. CASE vTaskPriorityInherit(t)
    <3>1. WaitsForMutex(t) /\ InheritBy(queue[loc[t].queue].holder, t)
      BY <2>1 DEF vTaskPriorityInherit, At, Called, CalledAt
    <3> QED
      BY <1>5, <3>1
  <2>2. CASE ~vTaskPriorityInherit(t)
    <3>1. UNCHANGED prios
      BY <1>8, <2>2 DEF WaitStep, vTaskSuspendAll, prvLockQueue, xTaskCheckForTimeOut,
         TestQueue, vTaskPlaceOnEventList, UnlockTx, UnlockRx, Replay, xTaskResumeAll
    <3> QED
      BY <1>4, <3>1
  <2> QED
    BY <2>1, <2>2
<1>9. ASSUME NEW t \in Tasks, AltStep(t)
      PROVE  \/ priority'[x] = priority[x]
             \/ priority'[x] > priority[x] /\ queue[q].holder = x
  <2>1. \/ UNCHANGED prios
        \/ WaitsForMutex(t) /\ InheritBy(queue[loc[t].queue].holder, t)
    BY <1>9 DEF AltStep, AltExpired, AltBlock
  <2> QED
    BY <1>4, <1>5, <2>1
<1>10. ASSUME NEW t \in Tasks, OtherStep(t) PROVE priority'[x] = priority[x]
  <2>1. ASSUME NEW y \in Tasks, NEW p \in Levels, <<t, y, p>> \in PrioritySets,
               vTaskPrioritySet(t, y, p)
        PROVE  priority'[x] = priority[x]
    <3>1. y # x
      <4>1. <<t, y, p>>[2] = y
        OBVIOUS
      <4> QED
        BY <2>1, <4>1 DEF OwnMutex
    <3>2. \E v : priority' = [priority EXCEPT ![y] = v]
      BY <1>3, <2>1 DEF vTaskPrioritySet
    <3> QED
      BY <1>1, <1>3, <3>1, <3>2
  <2>2. ASSUME NEW y \in Tasks, vTaskSuspend(t, y) \/ vTaskResume(t, y) \/ vTaskDelete(t, y)
        PROVE  priority'[x] = priority[x]
    BY <1>4, <2>2 DEF vTaskSuspend, vTaskResume, vTaskDelete
  <2> QED
    BY <1>10, <2>1, <2>2, Zenon DEF OtherStep
<1>11. ASSUME IdleStep \/ IsrStep \/ vTaskSwitchContext PROVE priority'[x] = priority[x]
  <2>1. UNCHANGED prios
    BY <1>11 DEF IdleStep, CheckTermination, CheckedTermination, prvDeleteTCB, IsrStep,
       xTaskResumeFromISR, xQueueGenericSendFromISR, xQueueReceiveFromISR,
       vTaskSwitchContext
  <2> QED
    BY <1>4, <2>1
<1> QED
  BY <1>7, <1>8, <1>9, <1>10, <1>11, NextCases

(* Who does not hold the mutex keeps its priority.                          *)
LEMMA TriesSame ==
  ASSUME Typed, Called, Holding, Usage, OwnMutex, Next,
         NEW q \in Mutexes, NEW x \in Tasks, Tries(x, q)
  PROVE  priority'[x] = priority[x] /\ x \in Users(q)
BY TriesHoldsNone, PrioritiesMove

-----------------------------------------------------------------------------
(* What the steps do to a task's place in its call, and to who runs.        *)

Still(x) ==
  /\ pc'[x] = pc[x] /\ loc'[x].op = loc[x].op /\ loc'[x].queue = loc[x].queue
  /\ loc'[x].timed = loc[x].timed
Moves(x) == CallStep(x) \/ TakeCounted(x) \/ TryStep(x) \/ WaitStep(x) \/ AltStep(x)

LEMMA OthersStill ==
  ASSUME Typed, Next, NEW x \in Tasks, ~Moves(x)
  PROVE  Still(x)
<1>1. ASSUME UNCHANGED <<pc, loc>> PROVE Still(x)
  BY <1>1 DEF Still
<1>2. ASSUME NEW t \in Tasks, NEW l, Goes(t, l), x # t PROVE Still(x)
  BY <1>2 DEF Goes, Still
<1>3. ASSUME NEW late, pc'[x] = pc[x], loc'[x] = Lately(late)[x] PROVE Still(x)
  BY <1>3, LatelyFields DEF Still
<1>4. ASSUME NEW t \in Tasks, CallStep(t) \/ TakeCounted(t) \/ TryStep(t) \/ AltStep(t)
      PROVE  Still(x)
  <2>1. t # x
    BY <1>4 DEF Moves
  <2> QED
    BY <1>1, <1>2, <1>4, <2>1, TaskGoes
<1>5. ASSUME NEW t \in Tasks, WaitStep(t) PROVE Still(x)
  <2>1. t # x
    BY <1>5 DEF Moves
  <2>2. CASE ~xTaskResumeAll(t)
    BY <1>2, <1>5, <2>1, <2>2, WaitGoes
  <2>3. CASE xTaskResumeAll(t)
    <3>1. PICK late : /\ pc' = [pc EXCEPT ![t] = "run"] \/ pc' = [pc EXCEPT ![t] = "try"]
                      /\ \/ loc' = [Lately(late) EXCEPT ![t] = NoLocals]
                         \/ loc' = Lately(late)
      BY <2>3 DEF xTaskResumeAll, Goto
    <3>2. pc \in [Tasks -> Labels] /\ Lately(late) \in [Tasks -> Locals]
      BY LatelyFields DEF Typed, CallsTyped
    <3>3. pc'[x] = pc[x] /\ loc'[x] = Lately(late)[x]
      BY <2>1, <3>1, <3>2
    <3> QED
      BY <1>3, <3>3
  <2> QED
    BY <2>2, <2>3
<1>6. ASSUME NEW t \in Tasks, OtherStep(t) PROVE Still(x)
  BY <1>1, <1>6 DEF OtherStep, vTaskPrioritySet, vTaskSuspend, vTaskResume, vTaskDelete
<1>7. ASSUME IdleStep PROVE Still(x)
  <2>1. CASE CheckedTermination
    <3>1. UNCHANGED pc /\ \E late : loc' = Lately(late)
      BY <2>1 DEF CheckedTermination
    <3> QED
      BY <1>3, <3>1
  <2> QED
    BY <1>1, <1>7, <2>1 DEF IdleStep, CheckTermination, prvDeleteTCB
<1>8. ASSUME IsrStep \/ vTaskSwitchContext PROVE Still(x)
  BY <1>1, <1>8 DEF IsrStep, xTaskResumeFromISR, xQueueGenericSendFromISR,
     xQueueReceiveFromISR, vTaskSwitchContext
<1> QED
  BY <1>4, <1>5, <1>6, <1>7, <1>8, NextCases

(* Who takes a step runs, and no yield is on its way.                       *)
LEMMA MovesRuns ==
  ASSUME NEW x, Moves(x)
  PROVE  running = x /\ ~yield
BY DEF Moves, CallStep, Call, TakeRecursive, GiveRecursive, TakeCounted, TryStep, TrySend,
   TryReceive, TryPeek, TryLater, AltStep, AltExpired, AltBlock, WaitStep,
   vTaskSuspendAll, prvLockQueue, xTaskCheckForTimeOut, TestQueue,
   vTaskPriorityInherit, vTaskPlaceOnEventList, UnlockTx, UnlockRx, xTaskResumeAll, At

(* A yield that is due is not forgotten before the switch.                  *)
Quiet == ~yield /\ ~missedYield

LEMMA ResumeQuiet ==
  ASSUME NEW level, NEW late, NEW ticked, NEW anyway,
         ResumeAll(level, late, ticked, anyway), ~yield'
  PROVE  ~missedYield
<1>1. yield' = (anyway \/ YieldDue(level, ToSet(pendingReady), ticked))
  BY Zenon DEF ResumeAll
<1>2. ~YieldDue(level, ToSet(pendingReady), ticked)
  BY <1>1, Zenon
<1> QED
  BY <1>2, Zenon DEF YieldDue

LEMMA RunsOn ==
  ASSUME Next
  PROVE  vTaskSwitchContext \/ (running' = running /\ (Quiet' => Quiet))
<1> USE DEF core, sched
<1>1. ASSUME NEW t \in Tasks, Moves(t) PROVE running' = running
  BY <1>1 DEF Moves, CallStep, Call, TakeRecursive, GiveRecursive, TakeCounted, TryStep,
     TrySend, TryReceive, TryPeek, TryLater, AltStep, AltExpired, AltBlock, WaitStep,
     vTaskSuspendAll, prvLockQueue, xTaskCheckForTimeOut, TestQueue,
     vTaskPriorityInherit, vTaskPlaceOnEventList, UnlockTx, UnlockRx, Replay,
     xTaskResumeAll
<1>2. ASSUME NEW t \in Tasks, Moves(t), ~yield', ~missedYield' PROVE ~missedYield
  <2>1. CASE xTaskResumeAll(t)
    BY <1>2, <2>1, ResumeQuiet DEF xTaskResumeAll
  <2>2. CASE UnlockTx(t) \/ UnlockRx(t)
    <3>1. \E b : missedYield' = (missedYield \/ b)
      BY <2>2, Zenon DEF UnlockTx, UnlockRx, Replay
    <3> QED
      BY <1>2, <3>1, Zenon
  <2>3. CASE ~(xTaskResumeAll(t) \/ UnlockTx(t) \/ UnlockRx(t))
    <3>1. UNCHANGED missedYield
      BY <1>2, <2>3 DEF Moves, CallStep, Call, TakeRecursive, GiveRecursive, TakeCounted,
         TryStep, TrySend, TryReceive, TryPeek, TryLater, AltStep, AltExpired, AltBlock,
         WaitStep, vTaskSuspendAll, prvLockQueue, xTaskCheckForTimeOut, TestQueue,
         vTaskPriorityInherit, vTaskPlaceOnEventList
    <3> QED
      BY <1>2, <3>1
  <2> QED
    BY <2>1, <2>2, <2>3
<1>3. ASSUME NEW t \in Tasks, OtherStep(t)
      PROVE  running' = running /\ ~yield /\ UNCHANGED missedYield
  BY <1>3 DEF OtherStep, vTaskPrioritySet, vTaskSuspend, vTaskResume, vTaskDelete, At
<1>4. ASSUME IdleStep
      PROVE  running' = running /\ ~yield /\ (Quiet' => ~missedYield)
  <2>1. CASE CheckedTermination
    <3>1. running' = running /\ ~yield
      BY <2>1 DEF CheckedTermination, IdleAt
    <3>2. ~yield' => ~missedYield
      BY <2>1, ResumeQuiet DEF CheckedTermination
    <3> QED
      BY <3>1, <3>2 DEF Quiet
  <2>2. CASE CheckTermination \/ prvDeleteTCB
    <3>1. running' = running /\ UNCHANGED missedYield
      BY <2>2 DEF CheckTermination, prvDeleteTCB
    <3>2. ~yield
      BY <2>2, Zenon DEF CheckTermination, prvDeleteTCB, IdleAt
    <3> QED
      BY <3>1, <3>2, Zenon DEF Quiet
  <2> QED
    BY <1>4, <2>1, <2>2 DEF IdleStep
<1>5. ASSUME IsrStep
      PROVE  running' = running /\ (~yield' => ~yield) /\ UNCHANGED missedYield
  BY <1>5, Zenon DEF IsrStep, xTaskResumeFromISR, xQueueGenericSendFromISR,
     xQueueReceiveFromISR
<1> QED
  BY <1>1, <1>2, <1>3, <1>4, <1>5, MovesRuns, NextCases DEF Moves, Quiet

-----------------------------------------------------------------------------
(* A task about to try again stays ready, unless it is suspended or deleted. *)
LEMMA ReadyStays ==
  ASSUME Typed, Typed', Placing, Next, NEW h \in Tasks, home[h] >= 0, pc[h] = "try"
  PROVE  \/ home'[h] >= 0
         \/ \E t \in Tasks : <<t, h>> \in Suspends
         \/ \E t \in Tasks : vTaskDelete(t, h)
<1> USE DEF core, sched
<1>1. /\ home \in [Tasks -> Places] /\ priority \in [Tasks -> Levels]
      /\ priority' \in [Tasks -> Levels]
      /\ \A x \in Tasks : priority[x] >= 0 /\ priority'[x] >= 0
  BY LevelsTyped DEF Typed, PriosTyped
<1>2. ASSUME NEW q \in Queues, NEW s \in Sides, NEW hm \in [Tasks -> Places],
             NEW pr \in [Tasks -> Levels], WakeFirst(q, s, hm, pr), hm[h] >= 0
      PROVE  home'[h] >= 0
  <2>1. PICK off \in SUBSET Tasks : Woken(off, hm, pr)
    BY <1>2, WakeEffect
  <2>2. home'[h] = hm[h] \/ home'[h] = pr[h]
    BY <2>1 DEF Woken
  <2> QED
    BY <1>2, <2>2, LevelsTyped
<1>3. ASSUME NEW q \in Queues, NEW s \in Sides, WakeFirst(q, s, home, priority)
      PROVE  home'[h] >= 0
  BY <1>1, <1>2, <1>3
<1>4. ASSUME NEW t \in Tasks, CallStep(t) \/ TakeCounted(t) \/ TryStep(t)
      PROVE  home'[h] >= 0
  <2>1. PICK q \in Queues : q = loc[t].queue
    BY LocalsOf
  <2>2. CASE CallStep(t) \/ TakeCounted(t) \/ TryLater(t)
    BY <2>2, CallApart
  <2>3. CASE TryReceive(t)
    BY <1>3, <2>1, <2>3 DEF TryReceive, Sides
  <2>4. CASE TryPeek(t)
    BY <1>3, <2>1, <2>4 DEF TryPeek, Sides
  <2>5. CASE TrySend(t)
    <3>1. PICK g : g = queue[q].holder
      OBVIOUS
    <3> DEFINE hm == IF g # NoTask /\ priority'[g] # priority[g]
                     THEN [home EXCEPT ![g] = priority'[g]] ELSE home
    <3>2. WakeFirst(q, "receive", hm, priority')
      BY <2>1, <2>5, <3>1 DEF TrySend
    <3>3. g \in Tasks \cup {NoTask}
      BY <2>1, <3>1, LocalsOf DEF RecordOK, QueueRecords
    <3>4. hm \in [Tasks -> Places] /\ hm[h] >= 0
      BY <1>1, <3>3, LevelsTyped
    <3> HIDE DEF hm
    <3> QED
      BY <1>1, <1>2, <3>2, <3>4 DEF Sides
  <2> QED
    BY <1>4, <2>2, <2>3, <2>4, <2>5 DEF TryStep
<1>5. ASSUME NEW level, NEW late, NEW ticked, NEW anyway,
             ResumeAll(level, late, ticked, anyway)
      PROVE  home'[h] >= 0
  <2> DEFINE hm == [x \in Tasks |-> IF x \in ToSet(pendingReady) THEN priority[x]
                                                                 ELSE home[x]]
  <2>1. home' = [x \in Tasks |-> IF x \in late THEN priority[x] ELSE hm[x]]
    BY <1>5 DEF ResumeAll
  <2>2. home'[h] = home[h] \/ home'[h] = priority[h]
    BY <2>1
  <2> QED
    BY <1>1, <2>2
<1>6. ASSUME NEW t \in Tasks, WaitStep(t) PROVE home'[h] >= 0
  <2>1. CASE vTaskPriorityInherit(t)
    <3>1. \E g : home' = HomeInherited(g, t)
      BY <2>1 DEF vTaskPriorityInherit
    <3> QED
      BY <3>1, InheritMoves DEF ReadyMoves
  <2>2. CASE vTaskPlaceOnEventList(t)
    <3>1. home' = [home EXCEPT ![t] = Away(t)] /\ t # h
      BY <2>2 DEF vTaskPlaceOnEventList, At
    <3> QED
      BY <1>1, <3>1
  <2>3. CASE xTaskResumeAll(t)
    BY <1>5, <2>3 DEF xTaskResumeAll
  <2>4. CASE \/ vTaskSuspendAll(t) \/ prvLockQueue(t) \/ xTaskCheckForTimeOut(t)
             \/ TestQueue(t) \/ UnlockTx(t) \/ UnlockRx(t)
    BY <2>4 DEF vTaskSuspendAll, prvLockQueue, xTaskCheckForTimeOut, TestQueue,
       UnlockTx, UnlockRx, Replay
  <2> QED
    BY <1>6, <2>1, <2>2, <2>3, <2>4 DEF WaitStep
<1>7. ASSUME NEW t \in Tasks, AltStep(t) PROVE home'[h] >= 0
  <2>1. CASE UNCHANGED home
    BY <2>1
  <2>2. CASE \E g : home' = [IF WaitsForMutex(t) THEN HomeInherited(g, t) ELSE home
                               EXCEPT ![t] = Away(t)]
    <3>1. PICK g : home' = [IF WaitsForMutex(t) THEN HomeInherited(g, t) ELSE home
                               EXCEPT ![t] = Away(t)]
      BY <2>2
    <3> DEFINE hm == IF WaitsForMutex(t) THEN HomeInherited(g, t) ELSE home
    <3>2. hm \in [Tasks -> Places] /\ hm[h] >= 0
      BY <1>1, InheritMoves DEF ReadyMoves
    <3>3. home' = [hm EXCEPT ![t] = Away(t)]
      BY <3>1
    <3>4. t # h
      BY <1>7 DEF AltStep, AltExpired, AltBlock, At
    <3> HIDE DEF hm
    <3> QED
      BY <3>2, <3>3, <3>4
  <2> QED
    BY <1>7, <2>1, <2>2 DEF AltStep, AltExpired, AltBlock
<1>8. ASSUME NEW t \in Tasks, OtherStep(t)
      PROVE  \/ home'[h] >= 0 \/ <<t, h>> \in Suspends \/ vTaskDelete(t, h)
  <2>1. ASSUME NEW x \in Tasks, NEW p \in Levels, vTaskPrioritySet(t, x, p)
        PROVE  home'[h] >= 0
    <3>1. home' = home \/ home' = [home EXCEPT ![x] = priority'[x]]
      BY <1>1, <2>1 DEF vTaskPrioritySet
    <3> QED
      BY <1>1, <3>1
  <2>2. ASSUME NEW x \in Tasks, vTaskResume(t, x) PROVE home'[h] >= 0
    <3>1. home' = [home EXCEPT ![x] = priority[x]]
      BY <2>2 DEF vTaskResume
    <3> QED
      BY <1>1, <3>1
  <2>3. ASSUME NEW x \in Tasks, x # h, vTaskSuspend(t, x) \/ vTaskDelete(t, x)
        PROVE  home'[h] >= 0
    <3>1. \E p : home' = [home EXCEPT ![x] = p]
      BY <2>3 DEF vTaskSuspend, vTaskDelete
    <3> QED
      BY <1>1, <2>3, <3>1
  <2> QED
    BY <1>8, <2>1, <2>2, <2>3, Zenon DEF OtherStep
<1>9. ASSUME IdleStep PROVE home'[h] >= 0
  <2>1. CASE CheckTermination
    BY <2>1 DEF CheckTermination
  <2>2. CASE CheckedTermination
    BY <1>5, <2>2 DEF CheckedTermination
  <2>3. CASE prvDeleteTCB
    <3>1. PICK x \in Dead : home' = [home EXCEPT ![x] = Freed]
      BY <2>3 DEF prvDeleteTCB
    <3>2. x # h
      BY <3>1 DEF Dead, Terminated
    <3> QED
      BY <1>1, <3>1, <3>2
  <2> QED
    BY <1>9, <2>1, <2>2, <2>3 DEF IdleStep
<1>10. ASSUME IsrStep PROVE home'[h] >= 0
  <2>1. ASSUME NEW q \in Queues, NEW x, NEW op, xQueueGenericSendFromISR(q, x, op)
        PROVE  home'[h] >= 0
    BY <1>3, <2>1 DEF xQueueGenericSendFromISR, Sides
  <2>2. ASSUME NEW q \in Queues, xQueueReceiveFromISR(q) PROVE home'[h] >= 0
    BY <1>3, <2>2 DEF xQueueReceiveFromISR, Sides
  <2>3. ASSUME NEW x \in Tasks, xTaskResumeFromISR(x) PROVE home'[h] >= 0
    <3>1. home' = home \/ home' = [home EXCEPT ![x] = priority[x]]
      BY <2>3 DEF xTaskResumeFromISR
    <3> QED
      BY <1>1, <3>1
  <2> QED
    BY <1>10, <2>1, <2>2, <2>3 DEF IsrStep
<1>11. ASSUME vTaskSwitchContext PROVE home'[h] >= 0
  BY <1>11 DEF vTaskSwitchContext
<1> QED
  BY <1>4, <1>6, <1>7, <1>8, <1>9, <1>10, <1>11, NextCases


(* Where a task that goes on with a call came from.                         *)
LEMMA GoesOn ==
  ASSUME Typed, NEW t \in Tasks, Moves(t), ~CallStep(t), pc'[t] \notin {"run", "count"}
  PROVE  /\ pc[t] \notin {"run", "count"}
         /\ loc'[t].op = loc[t].op /\ loc'[t].queue = loc[t].queue
         /\ pc'[t] = "place" =>
              vTaskPriorityInherit(t) \/ (TestQueue(t) /\ ~WaitsForMutex(t))
<1> DEFINE Same == loc'[t].op = loc[t].op /\ loc'[t].queue = loc[t].queue
           Placing1 == pc'[t] = "place" =>
                         vTaskPriorityInherit(t) \/ (TestQueue(t) /\ ~WaitsForMutex(t))
<1>1. ASSUME Return(t) PROVE FALSE
  BY <1>1, ReturnGoes DEF Goes
<1>2. ASSUME NEW l, Goto(t, l), l # "place" PROVE pc'[t] = l /\ Placing1
  BY <1>2 DEF Goto, Typed, CallsTyped
<1>3. ASSUME UNCHANGED loc PROVE Same
  BY <1>3
<1>4. ASSUME NEW then \in {"fail", "retry", "block"}, NEW late \in BOOLEAN,
             Leave(t, then, late)
      PROVE  Same /\ Placing1
  BY <1>4, LeaveGoes DEF Goes, SameCall
<1>5. CASE TryStep(t)
  <2>1. ~TrySend(t) /\ ~TryPeek(t)
    BY <1>1, Zenon DEF TrySend, TryPeek
  <2>2. ~TryReceive(t)
    BY <1>1, <1>2 DEF TryReceive
  <2>3. CASE TryLater(t)
    <3>1. PICK l \in {"wait", "suspend"} :
               Goto(t, l) /\ loc' = [loc EXCEPT ![t].timed = TRUE] /\ pc[t] = "try"
      BY <1>1, <2>3 DEF TryLater, At
    <3>2. l \in Labels
      BY DEF Labels
    <3>3. Same
      BY <3>1, <3>2, TimedGoes DEF SameCall
    <3> QED
      BY <1>2, <3>1, <3>3
  <2> QED
    BY <1>5, <2>1, <2>2, <2>3 DEF TryStep
<1>6. CASE AltStep(t)
  BY <1>1, <1>2, <1>3, <1>6 DEF AltStep, AltExpired, AltBlock, At
<1>7. CASE TakeCounted(t)
  BY <1>1, <1>7 DEF TakeCounted
<1>8. CASE WaitStep(t)
  <2>1. CASE vTaskSuspendAll(t) \/ prvLockQueue(t)
    BY <1>2, <1>3, <2>1 DEF vTaskSuspendAll, prvLockQueue, At
  <2>2. CASE UnlockTx(t) \/ UnlockRx(t)
    <3>1. /\ pc[t] \in {"unlockTx", "unlockRx"} /\ UNCHANGED loc
          /\ Goto(t, "unlockRx") \/ Goto(t, "resume")
      BY <2>2, Zenon DEF UnlockTx, UnlockRx, At, Replay
    <3> QED
      BY <1>2, <1>3, <3>1
  <2>3. CASE xTaskCheckForTimeOut(t)
    BY <1>2, <1>3, <1>4, <2>3 DEF xTaskCheckForTimeOut, At
  <2>4. CASE vTaskPlaceOnEventList(t)
    BY <1>4, <2>4 DEF vTaskPlaceOnEventList, At
  <2>5. CASE vTaskPriorityInherit(t)
    BY <1>3, <2>5 DEF vTaskPriorityInherit, At
  <2>6. CASE TestQueue(t)
    <3>1. CASE Ready(loc[t].op, loc[t].queue)
      BY <1>4, <2>6, <3>1 DEF TestQueue, At
    <3>2. CASE ~Ready(loc[t].op, loc[t].queue) /\ WaitsForMutex(t)
      BY <1>2, <1>3, <2>6, <3>2 DEF TestQueue, At
    <3>3. CASE ~Ready(loc[t].op, loc[t].queue) /\ ~WaitsForMutex(t)
      BY <1>3, <2>6, <3>3 DEF TestQueue, At
    <3> QED
      BY <3>1, <3>2, <3>3
  <2>7. CASE xTaskResumeAll(t)
    <3>1. pc[t] = "resume"
      BY <2>7 DEF xTaskResumeAll, At
    <3>2. PICK late : loc' = Lately(late) /\ Goto(t, "try")
      <4>1. ~(loc[t].then = "fail")
        BY <1>2, <2>7 DEF xTaskResumeAll
      <4> QED
        BY <2>7, <4>1 DEF xTaskResumeAll
    <3> QED
      BY <1>2, <3>1, <3>2, LatelyFields
  <2> QED
    BY <1>8, <2>1, <2>2, <2>3, <2>4, <2>5, <2>6, <2>7 DEF WaitStep
<1> QED
  BY <1>5, <1>6, <1>7, <1>8 DEF Moves

(* Who begins to take a mutex does not hold it.                             *)
LEMMA BeginsFree ==
  ASSUME Typed, NEW t \in Tasks, CallStep(t), NEW q \in Mutexes, Tries(t, q)'
  PROVE  queue[q].holder # t /\ pc'[t] = "try"
<1>1. PICK op \in Operations, p \in Queues, w \in Waits :
             \/ Call(t, op, p, w)
             \/ op = "take" /\ TakeRecursive(t, p, w)
             \/ op = "give" /\ GiveRecursive(t, p)
  BY DEF CallStep
<1>2. pc[t] = "run"
  BY <1>1 DEF Call, TakeRecursive, GiveRecursive, At
<1>3. ~UNCHANGED pc
  BY <1>2 DEF Tries
<1>4. PICK x \in Items, v \in Waits : Begin(t, op, p, x, v)
  BY <1>1, <1>3, ConstantsTyped DEF Call, TakeRecursive, GiveRecursive, Waits
<1>5. pc'[t] = "try" /\ loc'[t].op = op /\ loc'[t].queue = p
  BY <1>4, BeginGoes DEF Goes
<1>6. p = q /\ ~Sends(op)
  BY <1>5 DEF Tries
<1>7. queue[q].holder # t
  <2>1. CASE Call(t, op, p, w)
    BY <1>6, <2>1, MutexQueues DEF Call
  <2>2. CASE TakeRecursive(t, p, w)
    BY <1>3, <1>6, <2>2 DEF TakeRecursive
  <2>3. op # "give"
    BY <1>6 DEF Sends
  <2> QED
    BY <1>1, <2>1, <2>2, <2>3
<1> QED
  BY <1>5, <1>7

(* So nobody goes on to take a mutex who has not begun to, or holds it.     *)
LEMMA TriesFrom ==
  ASSUME Typed, Next, NEW q \in Mutexes, NEW t \in Tasks, Tries(t, q)'
  PROVE  \/ Tries(t, q)
         \/ CallStep(t) /\ queue[q].holder # t /\ pc'[t] = "try"
<1>1. CASE ~Moves(t)
  BY <1>1, OthersStill DEF Still, Tries
<1>2. CASE Moves(t) /\ ~CallStep(t)
  BY <1>2, GoesOn DEF Tries
<1>3. CASE CallStep(t)
  BY <1>3, BeginsFree
<1> QED
  BY <1>1, <1>2, <1>3

(* Who gives a mutex back held it, and who takes it found it free.          *)
LEMMA GivesBack ==
  ASSUME Typed, Holding, NEW q \in Mutexes, NEW t \in Tasks, TrySend(t), loc[t].queue = q
  PROVE  queue[q].holder = t /\ queue'[q].holder = NoTask
<1>1. q \in Queues /\ Kind[q] = "mutex"
  BY MutexQueues
<1>2. queue[q].holder = t
  BY HoldingParts DEF HoldsAt, Gives, TrySend, At
<1> QED
  BY <1>1, <1>2, TrySendQueue DEF Becomes

LEMMA UsageKept ==
  ASSUME IInv, IInv', Usage, OwnMutex, Next
  PROVE  Usage'
<1>0. Typed /\ Called /\ Holding
  BY DEF IInv
<1>1. ASSUME NEW q \in Mutexes PROVE queue'[q].holder \in Users(q) \cup {NoTask}
  <2>1. queue[q].holder \in Users(q) \cup {NoTask}
    BY DEF Usage, HoldersUse
  <2>2. ASSUME NEW t \in Tasks, loc[t].queue = q, TryReceive(t) PROVE t \in Users(q)
    <3>1. Tries(t, q)
      BY <2>2 DEF TryReceive, At, Tries, Sends
    <3> QED
      BY <1>0, <3>1, TriesHoldsNone
  <2> QED
    BY <1>0, <2>1, <2>2, HolderMoves
<1>2. ASSUME NEW q \in Mutexes, NEW t \in Tasks, Tries(t, q)', queue'[q].holder = t
      PROVE  FALSE
  <2>1. queue[q].holder # t
    BY <1>0, <1>2, TriesFrom DEF Usage, HoldsNot
  <2>2. TryReceive(t)
    BY <1>0, <1>2, <2>1, HolderMoves, ConstantsTyped
  <2>3. pc'[t] \in {"run", "count"}
    <3>1. Return(t) \/ Goto(t, "count")
      BY <2>2 DEF TryReceive
    <3> QED
      BY <1>0, <3>1, ReturnGoes DEF Goes, Goto, Typed, CallsTyped
  <2> QED
    BY <1>2, <2>3 DEF Tries
<1> QED
  BY <1>1, <1>2 DEF Usage, HoldersUse, HoldsNot, Users


-----------------------------------------------------------------------------
(* Order: the tasks that wait, and the one that they wait for.              *)

(* Who waits for a mutex, or comes to, keeps its priority.                  *)
LEMMA WaitersOf ==
  ASSUME Placing, NEW q \in Mutexes
  PROVE  \A x \in Waiters(q) : Tries(x, q) /\ loc[x].timed /\ home[x] < 0
BY WaiterTries, MutexQueues

LEMMA WaitersTyped ==
  ASSUME Typed, NEW q \in Mutexes
  PROVE  /\ q \in Queues /\ blocked[q]["receive"] \in Seq(Tasks)
         /\ Waiters(q) \subseteq Tasks
<1>1. q \in Queues /\ blocked[q]["receive"] \in Seq(Tasks)
  BY MutexQueues DEF Typed, ListsTyped, Sides
<1> QED
  BY <1>1, EntriesOf DEF Waiters

LEMMA JoinsInOrder ==
  ASSUME IInv, Usage, OwnMutex, NEW q \in Mutexes, NEW t \in Tasks, Joins(t, q),
         OrderedBy(blocked[q]["receive"], Rank)
  PROVE  /\ Waiters(q)' = Waiters(q) \cup {t}
         /\ OrderedBy(blocked'[q]["receive"], Rank)
<1>0. Typed /\ Called /\ Placing /\ Restored
  BY DEF IInv
<1> DEFINE l == blocked[q]["receive"]
           k == InsertPlace(l, value[t])
<1>1. Tries(t, q) /\ t \notin Waiters(q) /\ Placed(t)
  BY DEF Joins
<1>2. q = loc[t].queue /\ Side(loc[t].op) = "receive"
  BY <1>1 DEF Tries, Side
<1>3. running = t /\ ~yield /\ ~Blocking(t)
  BY DEF Joins, vTaskPlaceOnEventList, AltBlock, At, Blocking
<1>4. ~OnAList(t)
  BY <1>0, <1>3, RunsReady
<1>5. Waiters(q)' = Waiters(q) \cup {t}
  <2>1. q \in Queues /\ "receive" \in Sides
    BY MutexQueues DEF Sides
  <2>2. ToSet(blocked'[q]["receive"]) = ToSet(blocked[q]["receive"]) \cup {t}
    BY <1>0, <1>1, <1>2, <1>4, <2>1, PlaceEffect
  <2> QED
    BY <2>2 DEF Waiters
<1>6. l \in Seq(Tasks) /\ t \in Tasks \ ToSet(l) /\ ToSet(l) = Waiters(q)
  BY <1>0, <1>1, WaitersTyped DEF Waiters
<1>7. /\ Rank \in [Tasks -> Nat] /\ value[t] = Rank[t]
      /\ \A x \in ToSet(l) : value[x] = Rank[x]
  BY <1>0, <1>1, <1>6, WaitersOf, OwnPriority, RankTyped, WaitersTyped
<1>8. blocked'[q]["receive"] = InsertAt(l, k + 1, t)
  <2> DEFINE r == InsertAt(l, k + 1, t)
  <2>1. blocked' = [blocked EXCEPT ![q]["receive"] = r]
    BY <1>1, <1>2 DEF Placed
  <2> HIDE DEF r
  <2>2. blocked \in [Queues -> [Sides -> Seq(Tasks)]] /\ q \in Queues /\ "receive" \in Sides
    BY <1>0, MutexQueues DEF Typed, ListsTyped, Sides
  <2>3. blocked'[q]["receive"] = r
    BY <2>1, <2>2
  <2> QED
    BY <2>3 DEF r
<1> HIDE DEF l
<1>9. PlaceOfTime(l, value, value[t], k)
  <2>1. \A x \in Tasks : value[x] \in Int
    BY <1>0 DEF Typed, PriosTyped
  <2>2. \E n \in 0 .. Len(l) : PlaceOfTime(l, value, value[t], n)
    BY <1>6, <2>1, PlaceExists
  <2>3. k = CHOOSE n \in 0 .. Len(l) : PlaceOfTime(l, value, value[t], n)
    <3> DEFINE v == value[t]
    <3> HIDE DEF v
    <3>1. \A n \in 0 .. Len(l) :
            PlaceOfTime(l, value, v, n) <=>
              /\ \A m \in 1 .. n : value[l[m]] <= v
              /\ n < Len(l) => value[l[n + 1]] > v
      BY DEF PlaceOfTime
    <3>2. InsertPlace(l, v) = CHOOSE n \in 0 .. Len(l) : PlaceOfTime(l, value, v, n)
      BY <3>1 DEF InsertPlace
    <3> QED
      BY <3>2 DEF v
  <2> QED
    BY <2>2, <2>3
<1> HIDE DEF k
<1>10. PlaceOfTime(l, Rank, Rank[t], k)
  <2>1. \A m \in 1 .. Len(l) : value[l[m]] = Rank[l[m]]
    BY <1>6, <1>7, EntriesOf
  <2>2. k \in 0 .. Len(l) /\ Len(l) \in Nat
    BY <1>6, <1>9 DEF PlaceOfTime
  <2>3. \A m \in 1 .. k : m \in 1 .. Len(l)
    BY <2>2
  <2>4. k < Len(l) => k + 1 \in 1 .. Len(l)
    BY <2>2
  <2> QED
    BY <1>7, <1>9, <2>1, <2>2, <2>3, <2>4 DEF PlaceOfTime
<1>11. OrderedBy(InsertAt(l, k + 1, t), [Rank EXCEPT ![t] = Rank[t]])
  <2>1. Rank[t] \in Nat /\ OrderedBy(l, Rank)
    BY <1>7 DEF l
  <2> QED
    BY <1>6, <1>7, <1>10, <2>1, InsertInOrder
<1>12. [Rank EXCEPT ![t] = Rank[t]] = Rank
  BY <1>7
<1> QED
  BY <1>5, <1>8, <1>11, <1>12 DEF l, k

(* Who waits after a step tried already, and has the priority it had.       *)
LEMMA WaitersBefore ==
  ASSUME IInv, Usage, OwnMutex, Sorted, Next, NEW q \in Mutexes, NEW x \in Waiters(q)'
  PROVE  x \in Tasks /\ Tries(x, q) /\ priority'[x] = priority[x]
<1>0. Typed /\ Called /\ Locking /\ Placing /\ Holding
  BY DEF IInv
<1>1. x \in Waiters(q) \/ (x \in Tasks /\ Tries(x, q))
  <2>1. ASSUME NEW t \in Tasks, Joins(t, q) PROVE x \in Waiters(q) \/ (x = t /\ Tries(t, q))
    BY <2>1, JoinsInOrder DEF Sorted, Joins
  <2> QED
    BY <1>0, <2>1, WaitersMove, MutexQueues DEF Shrinks
<1>2. x \in Tasks /\ Tries(x, q)
  BY <1>0, <1>1, WaitersOf, WaitersTyped
<1> QED
  BY <1>0, <1>2, TriesSame

LEMMA SortedKept ==
  ASSUME IInv, IInv', Usage, OwnMutex, Sorted, Next
  PROVE  Sorted'
<1>0. Typed /\ Typed' /\ Called /\ Locking /\ Placing
  BY DEF IInv
<1>1. ASSUME NEW q \in Mutexes PROVE OrderedBy(blocked'[q]["receive"], Rank')
  <2> DEFINE l == blocked'[q]["receive"]
  <2>1. OrderedBy(blocked[q]["receive"], Rank) /\ Rank \in [Tasks -> Nat]
    BY <1>0, RankTyped DEF Sorted
  <2>2. OrderedBy(l, Rank)
    BY <1>0, <2>1, WaitersMove, JoinsInOrder, MutexQueues DEF Shrinks
  <2>3. l \in Seq(Tasks)
    BY <1>0, MutexQueues DEF Typed, ListsTyped, Sides
  <2>4. ASSUME NEW x \in ToSet(l) PROVE Rank[x] = Rank'[x]
    <3>1. x \in Tasks /\ priority'[x] = priority[x]
      BY <2>4, WaitersBefore DEF Waiters
    <3> QED
      BY <3>1 DEF Rank
  <2> HIDE DEF l
  <2>5. OrderedBy(l, Rank')
    BY <2>2, <2>3, <2>4, SameOrder
  <2> QED
    BY <2>5 DEF l
<1>2. Sorted' <=> \A q \in Mutexes : OrderedBy(blocked'[q]["receive"], Rank')
  BY DEF Sorted, OrderedBy
<1> QED
  BY <1>1, <1>2


(* A missed yield is remembered only while the scheduler is suspended.      *)
LEMMA NoneMissedKept ==
  ASSUME Typed, Locking, NoneMissed, Next
  PROVE  NoneMissed'
<1> USE DEF core, sched
<1>0. suspendAll \in {0, 1}
  BY DEF Typed, CoreTyped
<1>1. ASSUME UNCHANGED sched PROVE NoneMissed'
  BY <1>1 DEF NoneMissed
<1>2. ASSUME NEW level, NEW late, NEW ticked, NEW anyway,
             ResumeAll(level, late, ticked, anyway)
      PROVE  NoneMissed'
  BY <1>2 DEF ResumeAll, NoneMissed
<1>3. ASSUME NEW t \in Tasks, CallStep(t) \/ TakeCounted(t) \/ TryStep(t) \/ AltStep(t)
      PROVE  NoneMissed'
  BY <1>1, <1>3, CallApart DEF TryStep, TrySend, TryReceive, TryPeek, AltStep,
     AltExpired, AltBlock
<1>4. ASSUME NEW t \in Tasks, WaitStep(t) PROVE NoneMissed'
  <2>1. CASE xTaskResumeAll(t)
    BY <1>2, <2>1 DEF xTaskResumeAll
  <2>2. CASE UnlockTx(t) \/ UnlockRx(t)
    <3>1. UNCHANGED suspendAll /\ running = t /\ pc[t] \in {"unlockTx", "unlockRx"}
      BY <2>2, Zenon DEF UnlockTx, UnlockRx, Replay, At
    <3>2. suspendAll = 1
      BY <3>1, InCall DEF Sections
    <3> QED
      BY <3>1, <3>2 DEF NoneMissed
  <2>3. CASE vTaskSuspendAll(t)
    BY <1>0, <2>3 DEF vTaskSuspendAll, NoneMissed
  <2> QED
    BY <1>1, <1>4, <2>1, <2>2, <2>3 DEF WaitStep, prvLockQueue, xTaskCheckForTimeOut,
       TestQueue, vTaskPriorityInherit, vTaskPlaceOnEventList
<1>5. ASSUME NEW t \in Tasks, OtherStep(t) PROVE NoneMissed'
  BY <1>1, <1>5 DEF OtherStep, vTaskPrioritySet, vTaskSuspend, vTaskResume, vTaskDelete
<1>6. ASSUME IdleStep PROVE NoneMissed'
  <2>1. CASE CheckTermination
    BY <1>0, <2>1 DEF CheckTermination, NoneMissed
  <2>2. CASE CheckedTermination
    BY <1>2, <2>2 DEF CheckedTermination
  <2>3. CASE prvDeleteTCB
    BY <1>1, <2>3 DEF prvDeleteTCB
  <2> QED
    BY <1>6, <2>1, <2>2, <2>3 DEF IdleStep
<1>7. ASSUME IsrStep PROVE NoneMissed'
  BY <1>1, <1>7 DEF IsrStep, xTaskResumeFromISR, xQueueGenericSendFromISR,
     xQueueReceiveFromISR
<1>8. ASSUME vTaskSwitchContext PROVE NoneMissed'
  BY <1>8 DEF vTaskSwitchContext, NoneMissed
<1> QED
  BY <1>3, <1>4, <1>5, <1>6, <1>7, <1>8, NextCases

(* The holder does not get less important while it holds the mutex.         *)
LEMMA HolderStands ==
  ASSUME IInv, IInv', Usage, OwnMutex, Next, NEW q \in Mutexes, queue[q].holder # NoTask,
         queue'[q].holder = queue[q].holder
  PROVE  /\ queue[q].holder \in Users(q) /\ queue[q].holder \in Tasks
         /\ priority'[queue[q].holder] >= priority[queue[q].holder]
<1>0. Typed /\ Typed' /\ Called /\ Holding
  BY DEF IInv
<1>1. PICK h : h = queue[q].holder
  OBVIOUS
<1>2. h \in Users(q) /\ h \in Tasks
  BY <1>1 DEF Usage, HoldersUse, Users
<1>3. ~(TrySend(h) /\ loc[h].queue = q)
  BY <1>0, <1>1, <1>2, GivesBack
<1>4. priority'[h] = priority[h] \/ priority'[h] > priority[h]
  BY <1>0, <1>2, <1>3, PrioritiesMove
<1>5. priority[h] \in Nat /\ priority'[h] \in Nat
  BY <1>0, <1>2, ConstantsTyped DEF Typed, PriosTyped, Levels
<1> QED
  BY <1>1, <1>2, <1>4, <1>5

(* Who waits has seen to it.                                                *)
LEMMA InheritsEnough ==
  ASSUME Typed, NEW h, NEW t \in Tasks, InheritBy(h, t), priority'[t] = priority[t]
  PROVE  h \in Tasks /\ priority'[t] <= priority'[h]
<1>1. h \in Tasks /\ priority[h] \in Nat /\ priority[t] \in Nat
  BY PlacesTyped DEF InheritBy
<1>2. priority \in [Tasks -> Levels]
  BY DEF Typed, PriosTyped
<1>3. CASE Inherits(h, t)
  <2>1. priority' = [priority EXCEPT ![h] = priority[t]]
    BY <1>3 DEF InheritBy
  <2>2. priority'[h] = priority[t]
    BY <1>1, <1>2, <2>1
  <2> QED
    BY <1>1, <2>2
<1>4. CASE ~Inherits(h, t)
  BY <1>1, <1>4 DEF InheritBy, Inherits
<1> QED
  BY <1>3, <1>4

LEMMA HolderAboveKept ==
  ASSUME IInv, IInv', Usage, OwnMutex, Order, NoneMissed, Relayed, Next
  PROVE  HolderAbove'
<1>0. Typed /\ Typed' /\ Called /\ Locking /\ Placing /\ Holding
  BY DEF IInv
<1>1. ASSUME NEW q \in Mutexes, queue'[q].holder # NoTask, NEW x \in Waiters(q)'
      PROVE  priority'[x] <= priority'[queue'[q].holder]
  <2>1. x \in Tasks /\ Tries(x, q) /\ priority'[x] = priority[x]
    BY <1>1, WaitersBefore DEF Order
  <2>2. CASE queue'[q].holder = queue[q].holder
    <3>1. PICK h \in Tasks : h = queue[q].holder /\ priority'[h] >= priority[h]
      BY <1>1, <2>2, HolderStands
    <3>2. priority[x] \in Nat /\ priority[h] \in Nat /\ priority'[h] \in Nat
      <4>1. priority'[h] \in Nat
        BY <1>0, ConstantsTyped DEF Typed, PriosTyped, Levels
      <4> QED
        BY <1>0, <2>1, <4>1, PlacesTyped
    <3>3. ASSUME x \in Waiters(q) PROVE priority[x] <= priority[h]
      BY <1>1, <2>2, <3>1, <3>3 DEF Order, HolderAbove, Above
    <3>4. ASSUME NEW t \in Tasks, Joins(t, q), x = t PROVE priority'[x] <= priority'[h]
      <4>1. CASE vTaskPlaceOnEventList(t)
        <5>1. priority[x] <= priority[h]
          <6>1. pc[t] = "place" /\ Raised
            BY <4>1 DEF Order, vTaskPlaceOnEventList, At
          <6> QED
            BY <2>1, <3>1, <3>4, <6>1 DEF Raised
        <5> QED
          BY <2>1, <3>1, <3>2, <5>1
      <4>2. CASE AltBlock(t) /\ ~Ready(loc[t].op, q)
        <5>1. WaitsForMutex(t) /\ loc[t].queue = q
          BY <2>1, <3>4, MutexQueues DEF WaitsForMutex, Tries
        <5>2. InheritBy(h, t)
          BY <3>1, <4>2, <5>1 DEF AltBlock
        <5> QED
          BY <1>0, <2>1, <3>4, <5>2, InheritsEnough
      <4> QED
        BY <3>4, <4>1, <4>2 DEF Joins
    <3>5. x \in Waiters(q) \/ \E t \in Tasks : Joins(t, q) /\ x = t
      <4>1. ASSUME NEW t \in Tasks, Joins(t, q) PROVE x \in Waiters(q) \/ x = t
        BY <1>1, <4>1, JoinsInOrder DEF Order, Sorted
      <4> QED
        BY <1>0, <1>1, <4>1, WaitersMove, MutexQueues DEF Shrinks
    <3> QED
      BY <2>1, <2>2, <3>1, <3>2, <3>3, <3>4, <3>5
  <2>3. ASSUME NEW t \in Tasks, loc[t].queue = q, TryReceive(t),
               queue[q].holder = NoTask, queue'[q].holder = t
        PROVE  priority'[x] <= priority'[queue'[q].holder]
    <3>1. running = t /\ ~yield /\ pc[t] = "try" /\ UNCHANGED priority
      BY <2>3 DEF TryReceive, At, prios
    <3>2. suspendAll = 0
      BY <1>0, <3>1, InCall DEF Sections
    <3>3. t \in Users(q)
      <4>1. Tries(t, q)
        BY <2>3 DEF TryReceive, At, Tries, Sends
      <4> QED
        BY <1>0, <4>1, TriesHoldsNone
    <3>4. x \in Waiters(q)
      <4>1. ASSUME NEW u \in Tasks, Joins(u, q) PROVE FALSE
        <5>1. running = u /\ pc[u] \in {"place", "wait"}
          BY <4>1 DEF Joins, vTaskPlaceOnEventList, AltBlock, At
        <5> QED
          BY <3>1, <5>1
      <4> QED
        BY <1>0, <1>1, <4>1, WaitersMove, MutexQueues DEF Shrinks
    <3>5. Above(running, q)
      BY <2>3, <3>1, <3>2, <3>3, <3>4 DEF NoneMissed, Relayed
    <3> QED
      BY <2>3, <3>1, <3>4, <3>5 DEF Above
  <2> QED
    BY <1>0, <1>1, <2>2, <2>3, HolderMoves
<1> QED
  BY <1>1 DEF HolderAbove, Above


(* Who is about to place itself on the list has made the holder as          *)
(* important as itself, and until it has done so nobody else takes a step.  *)
LEMMA RaisedKept ==
  ASSUME IInv, IInv', Usage, OwnMutex, Order, Next
  PROVE  Raised'
<1>0. Typed /\ Typed' /\ Called /\ Locking /\ Holding
  BY DEF IInv
<1>1. ASSUME NEW q \in Mutexes, NEW t \in Tasks, pc'[t] = "place", Tries(t, q)'
      PROVE  queue'[q].holder # NoTask /\ priority'[t] <= priority'[queue'[q].holder]
  <2>1. Tries(t, q)
    BY <1>0, <1>1, TriesFrom
  <2>2. priority'[t] = priority[t]
    BY <1>0, <2>1, TriesSame
  <2>3. ASSUME \A x \in Tasks : ~TrySend(x) /\ ~TryReceive(x)
        PROVE  queue'[q].holder = queue[q].holder
    BY <1>0, <2>3, HolderMoves
  <2>4. CASE ~Moves(t)
    <3>1. pc[t] = "place"
      BY <1>0, <1>1, <2>4, OthersStill DEF Still
    <3>2. queue[q].holder # NoTask /\ priority[t] <= priority[queue[q].holder]
      BY <2>1, <3>1 DEF Order, Raised
    <3>3. running = t
      BY <1>0, <3>1, ConstantsTyped DEF Locking, Sections, Typed, CoreTyped
    <3>4. queue'[q].holder = queue[q].holder
      BY <2>3, <2>4, <3>3, MovesRuns DEF Moves, TryStep
    <3>5. PICK h \in Tasks : h = queue[q].holder /\ priority'[h] >= priority[h]
      BY <3>2, <3>4, HolderStands
    <3>6. /\ priority[t] \in Nat /\ priority[h] \in Nat /\ priority'[h] \in Nat
      BY <1>0, <3>5, ConstantsTyped DEF Typed, PriosTyped, Levels
    <3> QED
      BY <2>2, <3>2, <3>4, <3>5, <3>6
  <2>5. CASE Moves(t)
    <3>1. ~CallStep(t)
      BY <1>0, <1>1, BeginsFree
    <3>2. vTaskPriorityInherit(t)
      <4>1. vTaskPriorityInherit(t) \/ (TestQueue(t) /\ ~WaitsForMutex(t))
        BY <1>0, <1>1, <2>5, <3>1, GoesOn
      <4>2. WaitsForMutex(t)
        BY <2>1, MutexQueues DEF WaitsForMutex, Tries
      <4> QED
        BY <4>1, <4>2
    <3>3. InheritBy(queue[q].holder, t) /\ queue' = queue
      BY <2>1, <3>2 DEF vTaskPriorityInherit, Tries
    <3>4. queue[q].holder \in Tasks /\ priority'[t] <= priority'[queue[q].holder]
      BY <1>0, <2>2, <3>3, InheritsEnough
    <3> QED
      BY <3>3, <3>4, ConstantsTyped
  <2> QED
    BY <2>4, <2>5
<1> QED
  BY <1>1 DEF Raised

LEMMA OrderKept ==
  ASSUME IInv, IInv', Usage, OwnMutex, Order, NoneMissed, Relayed, Next
  PROVE  Order'
BY SortedKept, HolderAboveKept, RaisedKept DEF Order


-----------------------------------------------------------------------------
(* A mutex that is free goes to a task that was woken for it.               *)

(* The first that waits is woken, and comes before the others.              *)
LEMMA HeadTakes ==
  ASSUME IInv, IInv', Usage, OwnMutex, Order, Next, NEW q \in Mutexes, NEW t \in Tasks,
         TrySend(t) \/ TryPeek(t), loc[t].queue = q, Waiters(q)' # {}
  PROVE  /\ \E h \in Tasks : Takes(h, q)'
         /\ ~yield' => Above(t, q)'
<1>0. Typed /\ Typed' /\ Called /\ Locking /\ Placing /\ Holding
  BY DEF IInv
<1> DEFINE l == blocked[q]["receive"]
           g == queue[q].holder
           hg == IF g # NoTask /\ priority'[g] # priority[g]
                 THEN [home EXCEPT ![g] = priority'[g]] ELSE home
<1>1. running = t /\ ~yield /\ pc[t] = "try"
  BY DEF TrySend, TryPeek, At
<1>2. suspendAll = 0 /\ \A x \in Tasks : pc[x] \notin Sections
  BY <1>0, <1>1, InCall DEF Locking, Sections
<1>3. PICK hm : /\ DOMAIN hm = Tasks /\ WakeFirst(q, "receive", hm, priority')
                /\ yield' = Outranks(q, "receive", priority')
  <2>0. home \in [Tasks -> Places]
    BY <1>0 DEF Typed
  <2>1. CASE TrySend(t)
    <3>1. WakeFirst(q, "receive", hg, priority') /\ DOMAIN hg = Tasks
      BY <2>0, <2>1 DEF TrySend
    <3>2. yield' = Outranks(q, "receive", priority')
      BY <2>1, Zenon DEF TrySend
    <3> QED
      BY <3>1, <3>2
  <2>2. CASE TryPeek(t)
    <3>1. priority' = priority
      BY <2>2 DEF TryPeek, prios
    <3>2. WakeFirst(q, "receive", home, priority) /\ DOMAIN home = Tasks
      BY <2>0, <2>2 DEF TryPeek
    <3>3. yield' = Outranks(q, "receive", priority)
      BY <2>2, Zenon DEF TryPeek
    <3>4. WakeFirst(q, "receive", home, priority')
      BY <3>1, <3>2
    <3>5. yield' = Outranks(q, "receive", priority')
      BY <3>1, <3>3, Zenon
    <3> QED
      BY <3>2, <3>4, <3>5
  <2> QED
    BY <2>1, <2>2
<1>4. q \in Queues /\ l \in Seq(Tasks) /\ Waiters(q) \subseteq Tasks
  BY <1>0, WaitersTyped
<1>5. l # <<>>
  <2>1. ASSUME l = <<>> PROVE FALSE
    <3>1. blocked' = blocked
      BY <1>3, <2>1 DEF WakeFirst
    <3>2. Waiters(q)' = ToSet(l)
      BY <3>1 DEF Waiters
    <3> QED
      BY <1>4, <2>1, <3>2, NoEntries
  <2> QED
    BY <2>1
<1>6. PICK h : h = Head(l)
  OBVIOUS
<1>7. h \in Tasks /\ h \in Waiters(q) /\ \A x \in Waiters(q) : priority[x] <= priority[h]
  <2>1. Rank \in [Tasks -> Nat] /\ OrderedBy(l, Rank)
    BY <1>0, RankTyped DEF Order, Sorted
  <2>2. h \in Tasks /\ h \in Waiters(q) /\ \A x \in Waiters(q) : Rank[h] <= Rank[x]
    BY <1>4, <1>5, <1>6, <2>1, HeadLeast DEF Waiters
  <2> QED
    BY <1>0, <1>4, <2>2, RankTyped
<1>8. Waiters(q)' \subseteq Waiters(q)
  <2>1. Shrinks(q)
    BY <1>0, <1>3, <1>4, WakeShrinks DEF Sides
  <2> QED
    BY <2>1 DEF Shrinks
<1>9. \A x \in Waiters(q) : priority'[x] = priority[x]
  BY <1>0, <1>4, WaitersOf, TriesSame
<1>10. Above(h, q)'
  BY <1>7, <1>8, <1>9 DEF Above
<1>11. home'[h] >= 0
  <2>1. home' = [hm EXCEPT ![h] = priority'[h]]
    BY <1>2, <1>3, <1>5, <1>6 DEF WakeFirst
  <2>2. home'[h] = priority'[h]
    BY <1>3, <1>7, <2>1
  <2>3. priority[h] >= 0
    BY <1>0, <1>7, PlacesTyped
  <2> QED
    BY <1>7, <1>9, <2>2, <2>3
<1>12. Takes(h, q)'
  <2>1. Tries(h, q) /\ loc[h].timed /\ home[h] < 0
    BY <1>0, <1>7, WaitersOf
  <2>2. pc[h] = "try"
    BY <1>0, <1>2, <1>4, <1>7, WaiterTries
  <2>3. t # h
    <3>1. home[t] >= 0
      BY <1>0, <1>1, RunsReady DEF Blocking
    <3>2. home[t] \in Int
      BY <1>0, PlacesTyped
    <3> QED
      BY <2>1, <3>1, <3>2
  <2>4. Still(h)
    BY <1>0, <1>1, <1>7, <2>3, MovesRuns, OthersStill
  <2> QED
    BY <1>10, <1>11, <2>1, <2>2, <2>4 DEF Takes, Still, Tries
<1>13. ASSUME ~yield' PROVE Above(t, q)'
  <2>1. ~(priority'[h] >= PriorityIn(priority'))
    <3>1. ~Outranks(q, "receive", priority')
      BY <1>3, <1>13, Zenon
    <3> QED
      BY <1>5, <1>6, <3>1 DEF Outranks
  <2>2. ~(priority'[h] >= priority'[t])
    BY <1>1, <2>1, ConstantsTyped DEF PriorityIn
  <2>3. priority'[h] \in Nat /\ \A x \in Waiters(q) : priority'[x] \in Nat
    BY <1>0, <1>4, <1>7, <1>9, PlacesTyped
  <2>4. priority'[t] \in Nat
    BY <1>0, ConstantsTyped DEF Typed, PriosTyped, Levels
  <2> QED
    BY <1>8, <1>10, <2>2, <2>3, <2>4 DEF Above
<1> QED
  BY <1>7, <1>12, <1>13


(* Of a task that tries again to take a mutex that is free.                 *)
LEMMA TriesAgain ==
  ASSUME Typed, Holding, NEW q \in Mutexes, queue[q].holder = NoTask,
         NEW h \in Tasks, Moves(h), pc[h] = "try", Tries(h, q)
  PROVE  \/ TryReceive(h) /\ queue'[q].holder = h
         \/ TryPeek(h)
<1>1. queue[q].count = 1 /\ q \in Queues /\ Kind[q] = "mutex"
  BY MutexFields
<1>2. loc[h].queue = q /\ ~Sends(loc[h].op) /\ HasItem(q)
  BY <1>1 DEF Tries, HasItem
<1>3. TryStep(h)
  BY DEF Moves, CallStep, Call, TakeRecursive, GiveRecursive, TakeCounted, AltStep,
     AltExpired, AltBlock, WaitStep, vTaskSuspendAll, prvLockQueue, xTaskCheckForTimeOut,
     TestQueue, vTaskPriorityInherit, vTaskPlaceOnEventList, UnlockTx, UnlockRx,
     xTaskResumeAll, At
<1>4. ~TrySend(h) /\ ~TryLater(h)
  BY <1>2 DEF TrySend, TryLater, Ready
<1>5. TryReceive(h) => queue'[q].holder = h
  BY <1>1, <1>2, TryReceiveQueue DEF Becomes
<1> QED
  BY <1>3, <1>4, <1>5 DEF TryStep

(* While a mutex is free nobody comes to wait for it.                       *)
LEMMA NobodyJoins ==
  ASSUME IInv, Usage, OwnMutex, Order, Next, NEW q \in Mutexes, queue[q].holder = NoTask
  PROVE  Waiters(q)' \subseteq Waiters(q)
<1>0. Typed /\ Locking /\ Placing /\ Holding
  BY DEF IInv
<1>1. ASSUME NEW t \in Tasks, Joins(t, q) PROVE FALSE
  <2>1. Tries(t, q)
    BY <1>1 DEF Joins
  <2>2. CASE vTaskPlaceOnEventList(t)
    <3>1. pc[t] = "place"
      BY <2>2 DEF vTaskPlaceOnEventList, At
    <3> QED
      BY <2>1, <3>1 DEF Order, Raised
  <2>3. CASE ~Ready(loc[t].op, q)
    <3>1. queue[q].count = 1
      BY <1>0, MutexFields
    <3> QED
      BY <2>1, <2>3, <3>1 DEF Tries, Ready, HasItem
  <2> QED
    BY <1>1, <2>2, <2>3 DEF Joins
<1>2. Shrinks(q)
  BY <1>0, <1>1, WaitersMove, MutexQueues
<1> QED
  BY <1>2 DEF Shrinks

(* Who runs comes before those that wait, or a switch is due.               *)
LEMMA RunsAbove ==
  ASSUME IInv, IInv', Usage, OwnMutex, Order, Relayed, Next, NEW q \in Mutexes,
         queue[q].holder = NoTask, Waiters(q)' # {},
         Quiet', running' \in Users(q)
  PROVE  Above(running, q)'
<1>0. Typed /\ Typed' /\ Called /\ Placing /\ Holding /\ Restored
  BY DEF IInv
<1>1. Waiters(q)' \subseteq Waiters(q) /\ Waiters(q) \subseteq Tasks
  BY <1>0, NobodyJoins, WaitersTyped
<1>2. \A x \in Waiters(q) : priority'[x] = priority[x] /\ priority[x] \in Nat
  BY <1>0, <1>1, WaitersOf, TriesSame, PlacesTyped
<1>3. PICK r \in Tasks : r = running' /\ r \in Users(q)
  BY DEF Users
<1>4. NoTask \notin Tasks
  BY ConstantsTyped
<1>5. CASE ~vTaskSwitchContext
  <2>1. running = r /\ Quiet
    BY <1>3, <1>5, RunsOn
  <2>2. Above(r, q)
    BY <1>1, <1>3, <2>1 DEF Relayed, Quiet
  <2>3. priority'[r] = priority[r]
    BY <1>0, <1>3, <1>4, PrioritiesMove
  <2> QED
    BY <1>1, <1>2, <1>3, <2>2, <2>3 DEF Above
<1>6. CASE vTaskSwitchContext
  <2>1. suspendAll = 0
    BY <1>6 DEF vTaskSwitchContext, Quiet
  <2>2. running' \in Highest(home)
    BY <1>3, <1>4, <1>6, <2>1 DEF vTaskSwitchContext
  <2>3. PICK h \in Tasks : Takes(h, q)
    BY <1>1 DEF Relayed
  <2>4. home[h] >= 0 /\ Above(h, q)
    BY <2>3 DEF Takes
  <2>5. home[r] >= home[h] /\ home[r] >= 0
    BY <1>3, <2>2 DEF Highest
  <2>6. \A x \in Tasks : home[x] >= 0 => home[x] = priority[x]
    <3>1. \A x \in Tasks : home[x] >= 0 => home[x] \in Levels
      BY <1>0 DEF Typed, Places, Delayed, Suspended, Terminated, Freed
    <3> QED
      BY <1>0, <3>1, RestoredParts DEF RestoredAt
  <2>7. priority[r] >= priority[h] /\ priority[r] \in Nat /\ priority[h] \in Nat
    BY <1>0, <2>4, <2>5, <2>6, PlacesTyped
  <2>8. UNCHANGED priority
    BY <1>6 DEF vTaskSwitchContext, prios
  <2> QED
    BY <1>1, <1>2, <1>3, <2>4, <2>7, <2>8 DEF Above
<1> QED
  BY <1>5, <1>6

LEMMA RelayedKept ==
  ASSUME IInv, IInv', Usage, OwnMutex, Order, Relayed, Next
  PROVE  Relayed'
<1>0. Typed /\ Typed' /\ Called /\ Placing /\ Holding
  BY DEF IInv
<1>1. NoTask \notin Tasks
  BY ConstantsTyped
<1> DEFINE Right(q) == /\ \E t \in Tasks : Takes(t, q)
                       /\ ~yield /\ ~missedYield /\ running \in Users(q) => Above(running, q)
<1>2. ASSUME NEW q \in Mutexes, NEW t \in Tasks, TrySend(t), loc[t].queue = q,
             Waiters(q)' # {}
      PROVE  Right(q)'
  <2>1. running' = t
    BY <1>2 DEF TrySend, At, core
  <2> QED
    BY <1>2, <2>1, HeadTakes
<1>3. ASSUME NEW q \in Mutexes, queue[q].holder = NoTask, queue'[q].holder = NoTask,
             Waiters(q)' # {}
      PROVE  Right(q)'
  <2>1. Waiters(q)' \subseteq Waiters(q) /\ Waiters(q) \subseteq Tasks
    BY <1>0, <1>3, NobodyJoins, WaitersTyped
  <2>2. PICK h \in Tasks : Takes(h, q)
    BY <1>3, <2>1 DEF Relayed
  <2>3. /\ pc[h] = "try" /\ loc[h].timed /\ Tries(h, q) /\ home[h] >= 0 /\ Above(h, q)
    BY <2>2 DEF Takes
  <2>4. \E t \in Tasks : Takes(t, q)'
    <3>1. CASE Moves(h)
      <4>1. TryPeek(h) /\ loc[h].queue = q
        BY <1>0, <1>1, <1>3, <2>3, <3>1, TriesAgain DEF Tries
      <4> QED
        BY <1>3, <4>1, HeadTakes
    <3>2. CASE ~Moves(h)
      <4>1. Still(h)
        BY <1>0, <3>2, OthersStill
      <4>2. priority'[h] = priority[h] /\ h \in Users(q)
        BY <1>0, <2>3, TriesSame
      <4>3. \A x \in Waiters(q) : priority'[x] = priority[x]
        BY <1>0, <2>1, WaitersOf, TriesSame
      <4>4. ASSUME NEW t \in Tasks, <<t, h>> \in Suspends PROVE FALSE
        <5>1. <<t, h>>[2] = h
          OBVIOUS
        <5> QED
          BY <4>2, <4>4, <5>1 DEF OwnMutex
      <4>5. ASSUME NEW t \in Tasks, vTaskDelete(t, h) PROVE FALSE
        <5>1. OnAList(h)
          BY <2>3, <4>5 DEF vTaskDelete, Deletable, OnAList, Sides
        <5>2. home[h] \in Waiting
          BY <1>0, <5>1 DEF Placing, OnAList
        <5> QED
          BY <2>3, <5>2 DEF Waiting, Delayed, Suspended
      <4>6. home'[h] >= 0
        BY <1>0, <2>3, <4>4, <4>5, ReadyStays
      <4>7. Above(h, q)'
        BY <2>1, <2>3, <4>2, <4>3 DEF Above
      <4> QED
        BY <2>3, <4>1, <4>6, <4>7 DEF Takes, Still, Tries
    <3> QED
      BY <3>1, <3>2
  <2> QED
    BY <1>3, <2>4, RunsAbove DEF Quiet
<1>4. ASSUME NEW q \in Mutexes, queue'[q].holder = NoTask, Waiters(q)' # {}
      PROVE  Right(q)'
  <2>1. \/ queue[q].holder = NoTask
        \/ \E t \in Tasks : TrySend(t) /\ loc[t].queue = q
    BY <1>0, <1>1, <1>4, HolderMoves
  <2> QED
    BY <1>2, <1>3, <1>4, <2>1
<1> QED
  BY <1>4 DEF Relayed


LEMMA InheritanceKept ==
  ASSUME IInv, IInv', Inheritance, OwnMutex, [Next]_vars
  PROVE  Inheritance'
<1>1. CASE Next
  <2>1. Typed /\ Locking
    BY DEF IInv
  <2> QED
    BY <1>1, <2>1, UsageKept, OrderKept, NoneMissedKept, RelayedKept DEF Inheritance
<1>2. CASE UNCHANGED vars
  <2> USE <1>2 DEF vars
  <2>1. Usage'
    BY DEF Inheritance, Usage, HoldersUse, HoldsNot, Tries
  <2>2. Sorted'
    BY DEF Inheritance, Order, Sorted, Rank, OrderedBy
  <2>3. HolderAbove' /\ Raised'
    BY DEF Inheritance, Order, HolderAbove, Raised, Above, Waiters, Tries
  <2>4. NoneMissed' /\ Relayed'
    BY DEF Inheritance, NoneMissed, Relayed, Takes, Above, Waiters, Tries
  <2> QED
    BY <2>1, <2>2, <2>3, <2>4 DEF Inheritance, Order
<1> QED
  BY <1>1, <1>2

LEMMA InheritanceInit ==
  ASSUME Init
  PROVE  Inheritance
<1>1. \A q \in Mutexes : queue[q].holder = NoTask /\ blocked[q]["receive"] = <<>>
  BY MutexQueues DEF Init, Created
<1>2. \A t \in Tasks : pc[t] = "run"
  BY DEF Init
<1>3. \A q \in Mutexes : Waiters(q) = {}
  <2>1. ASSUME NEW q \in Mutexes PROVE ToSet(blocked[q]["receive"]) = {}
    <3>1. <<>> \in Seq(Tasks)
      OBVIOUS
    <3> QED
      BY <1>1, <3>1, NoEntries
  <2> QED
    BY <2>1 DEF Waiters
<1>4. Usage
  BY <1>1, <1>2 DEF Usage, HoldersUse, HoldsNot, Tries
<1>5. Order
  <2>1. Sorted
    BY <1>1 DEF Sorted, OrderedBy
  <2> QED
    BY <1>1, <1>2, <2>1 DEF Order, HolderAbove, Raised
<1>6. NoneMissed /\ Relayed
  BY <1>3 DEF Init, NoneMissed, Relayed
<1> QED
  BY <1>4, <1>5, <1>6 DEF Inheritance

LEMMA InheritanceImplies ==
  ASSUME IInv, Inheritance
  PROVE  NoInversion
<1>0. Typed /\ Placing
  BY DEF IInv
<1>1. ASSUME NEW q \in Mutexes, NEW t \in ToSet(blocked[q]["receive"])
      PROVE  \/ queue[q].holder # NoTask /\ priority[queue[q].holder] >= priority[t]
             \/ \E x \in EnRoute(q, "receive") : priority[x] >= priority[t]
  <2>1. t \in Waiters(q) /\ t \in Tasks /\ q \in Queues
    BY <1>0, <1>1, WaitersTyped DEF Waiters
  <2>2. CASE queue[q].holder # NoTask
    <3>1. queue[q].holder \in Tasks
      BY <2>2 DEF Inheritance, Usage, HoldersUse, Users
    <3>2. priority[t] <= priority[queue[q].holder]
      BY <2>1, <2>2 DEF Inheritance, Order, HolderAbove, Above
    <3> QED
      BY <1>0, <2>1, <2>2, <3>1, <3>2, PlacesTyped
  <2>3. CASE queue[q].holder = NoTask
    <3>1. PICK x \in Tasks : Takes(x, q)
      BY <2>1, <2>3 DEF Inheritance, Relayed
    <3>2. priority[x] >= priority[t]
      BY <1>0, <2>1, <3>1, PlacesTyped DEF Takes, Above
    <3>3. x \notin ToSet(blocked[q]["receive"])
      BY <1>0, <3>1, WaitersOf, PlacesTyped DEF Takes, Waiters
    <3>4. ~Gone(x)
      BY <3>1 DEF Takes, Gone, Terminated, Freed
    <3>5. x \in EnRoute(q, "receive")
      BY <3>1, <3>3, <3>4 DEF EnRoute, Takes, Tries, Side
    <3> QED
      BY <3>2, <3>5
  <2> QED
    BY <2>2, <2>3
<1> QED
  BY <1>1 DEF NoInversion

(* Priority inheritance works where each task uses one mutex at most, and   *)
(* nobody sets the priority of a task that uses one, or suspends it: while  *)
(* a task waits for a mutex, whoever holds it is no less important, nor is, *)
(* once it is given back, the task that was woken to take it next           *)
(* (vTaskPriorityInherit, vTaskPriorityDisinherit and                       *)
(* xTaskRemoveFromEventList).                                               *)
THEOREM NoneInverted == Spec => [](OwnMutex => NoInversion)
<1>1. Init => (OwnMutex => Inheritance)
  BY InheritanceInit
<1>2. IInv /\ IInv' /\ (OwnMutex => Inheritance) /\ [Next]_vars => (OwnMutex => Inheritance)'
  <2>1. OwnMutex' <=> OwnMutex
    BY DEF OwnMutex, Users
  <2> QED
    BY <2>1, InheritanceKept
<1>3. IInv /\ (OwnMutex => Inheritance) => (OwnMutex => NoInversion)
  BY InheritanceImplies
<1> QED
  BY <1>1, <1>2, <1>3, Invariance, PTL DEF Spec
=============================================================================

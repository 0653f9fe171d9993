------------------------------ MODULE MCQueue ------------------------------
(***************************************************************************)
(* FromaQueue for the runs Queue (one queue, three tasks and interrupts)   *)
(* and Mutex.                                                              *)
(***************************************************************************)
EXTENDS FromaQueue, TLC

CONSTANTS high, low, other, channel, mutex, a, b

(* A queue of two that an urgent task reads, two others write and peek at,  *)
(* and interrupts write and read; every wait there is.                      *)
QueueTasks == {high, low, other}
QueuePriority == high :> 2 @@ low :> 1 @@ other :> 1
QueueKind == channel :> "queue"
QueueCapacity == channel :> 2
QueueCalls ==
  {<<high, "receive", channel, "some">>, <<high, "receive", channel, "none">>,
   <<low, "send", channel, "forever">>,
   <<other, "peek", channel, "forever">>, <<other, "front", channel, "some">>}
QueuePrioritySets == {<<low, other, 3>>}
QueueSuspends == {<<low, high>>}

(* A mutex that three tasks of different priorities take, and a semaphore   *)
(* that an interrupt gives, which a task may wait for with the mutex held.  *)
MutexPriority == high :> 3 @@ other :> 2 @@ low :> 1
MutexKind == mutex :> "mutex" @@ channel :> "semaphore"
MutexCapacity == mutex :> 1 @@ channel :> 1
MutexCalls ==
  {<<t, "take", mutex, w>> : t \in {high, low}, w \in {"some", "forever"}}
  \cup {<<t, "give", mutex, "none">> : t \in {high, low}}
  \cup {<<other, "receive", mutex, w>> : w \in {"some", "forever"}}
  \cup {<<other, "send", mutex, "none">>}
  \cup {<<t, "receive", channel, "forever">> : t \in QueueTasks}

(* The least important task may end itself, and each may be deleted by      *)
(* another, which finds it waiting for the mutex or for the semaphore.      *)
MutexDeletes == {<<low, low>>, <<other, low>>, <<high, other>>, <<other, high>>}

None == {}
=============================================================================

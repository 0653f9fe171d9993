---------------------------- MODULE FromaTimers ----------------------------
(***************************************************************************)
(* Software timers: the timer service task of source/timers.c, the queue   *)
(* its commands come by, and its clients.  FreeRTOSConfig.h leaves the     *)
(* option configUSE_TIMERS off; this is the code as the option builds it.  *)
(*                                                                         *)
(* Only the timer task touches the timer lists.  Clients, tasks as well as *)
(* interrupts, send commands at any time, and ticks come at any time but   *)
(* while the timer task holds the scheduler suspended.                     *)
(*                                                                         *)
(* Times are kept without wrapping, and wrapped where the code looks at    *)
(* them, as in FromaTick.                                                  *)
(***************************************************************************)
EXTENDS Integers, FiniteSets, SequencesExt, FromaWithout

CONSTANTS
  Timers, NoTimer,
  Width,           (* the number of values of a portTickType                *)
  Period,          (* xTimerPeriodInTicks of each timer, as created         *)
  AutoReload,      (* the timers created with uxAutoReload                  *)
  QueueLength,     (* configTIMER_QUEUE_LENGTH                              *)
  Commands,        (* <<timer, command, value>>: the other commands         *)
  MaxTicks,        (* model bound on ticks                                  *)
  MaxLate          (* model bound on the age of what waits to be handled    *)

W(x) == x % Width
CommandIDs == {"start", "stop", "period", "delete"}

ASSUME TimersAssumption ==
  /\ IsFiniteSet(Timers) /\ NoTimer \notin Timers
  /\ Width \in Nat \ {0, 1}
  /\ Period \in [Timers -> 1 .. Width - 1]
  /\ AutoReload \subseteq Timers
  /\ QueueLength \in Nat \ {0} /\ MaxTicks \in Nat /\ MaxLate \in Nat
  /\ Commands \subseteq Timers \X (CommandIDs \ {"start"}) \X (1 .. Width - 1)

VARIABLES
  ticks,        (* the tick count                                           *)
  queue,        (* xTimerQueue                                              *)
  client,       (* the start a client has made up and not sent yet          *)
  gone,         (* the timers whose deletion clients have commanded         *)
  list,         (* xActiveTimerList1 and xActiveTimerList2                  *)
  current,      (* which of them is pxCurrentTimerList                      *)
  expiry,       (* the value of xTimerListItem                              *)
  period,       (* xTimerPeriodInTicks                                      *)
  freed,        (* the timers whose memory is free                          *)
  revived,      (* history: the timers started after their memory was free  *)
  pc,           (* where the timer task is                                  *)
  last,         (* xLastTime, and so xTimeNow once the time is sampled      *)
  called,       (* the timers whose callback the last step called           *)
  stale         (* history: a start was later than the timer task's time    *)

timers == <<list, current, expiry, period, freed, revived>>
vars == <<ticks, queue, client, gone, timers, pc, last, called, stale>>

-----------------------------------------------------------------------------
(* Clients, and time.                                                       *)

Command(i, t, v) == [id |-> i, timer |-> t, value |-> v]
NoCommand == Command("none", NoTimer, 0)

(* xTimerStart and its like: the value of a start is the time, read before  *)
(* the command is sent.                                                     *)
ReadTime(t) ==
  /\ client = NoCommand /\ t \notin gone
  /\ client' = Command("start", t, ticks)
  /\ called' = {}
  /\ UNCHANGED <<ticks, queue, gone, timers, pc, last, stale>>

(* xTimerGenericCommand; a full queue refuses the command.  Who has had a   *)
(* timer deleted uses it no more.                                           *)
Sends(c) ==
  /\ IF Len(queue) < QueueLength
     THEN /\ queue' = Append(queue, c)
          /\ gone' = IF c.id = "delete" THEN gone \cup {c.timer} ELSE gone
     ELSE UNCHANGED <<queue, gone>>
  /\ called' = {}
  /\ UNCHANGED <<ticks, timers, pc, last, stale>>
SendStart == client # NoCommand /\ Sends(client) /\ client' = NoCommand
SendOther(t, id, v) ==
  /\ t \notin gone \cup {client.timer}
  /\ Sends(Command(id, t, v)) /\ UNCHANGED client

overflow == 3 - current
xTimerIsTimerActive(t) == \E n \in {1, 2} : t \in ToSet(list[n])

(* prvGetNextExpireTime: zero, the wrap of the count, when no timer is      *)
(* listed.                                                                  *)
IsEmpty == list[current] = <<>>
NextExpireTime == IF IsEmpty THEN 0 ELSE expiry[Head(list[current])]

(* vTaskPlaceOnEventListRestricted: when the time of the timer task, blocked *)
(* at the time last, has come.                                              *)
Wake == last + (IF W(NextExpireTime) = W(last) THEN 1 ELSE W(NextExpireTime - last))

(* The bound on lateness: the timer task, the commands, and the timers that *)
(* are due, are never left waiting for MaxLate ticks.  A whole cycle of the *)
(* count would be more than the code can tell.                              *)
OnTime ==
  /\ ticks - (IF pc = "blocked" THEN Wake ELSE last) < MaxLate
  /\ \A c \in ToSet(queue) \cup {client} :
       c.id = "start" => ticks - c.value < MaxLate
  /\ \A t \in Timers : xTimerIsTimerActive(t) => ticks - expiry[t] < MaxLate

(* No tick is counted while the scheduler is suspended.                     *)
Tick ==
  /\ pc # "switchBefore" /\ ticks < MaxTicks /\ OnTime
  /\ ticks' = ticks + 1
  /\ called' = {}
  /\ UNCHANGED <<queue, client, gone, timers, pc, last, stale>>

-----------------------------------------------------------------------------
(* The timer task.                                                          *)

Goto(l) == pc' = l

(* Its own commands, which must find room in the queue.                     *)
Restart(t, v, then) ==
  IF Len(queue) < QueueLength
  THEN queue' = Append(queue, Command("start", t, v)) /\ Goto(then)
  ELSE Goto("halted") /\ UNCHANGED queue

(* vListInsert, and the two lists after it.                                 *)
InsertPlace(s, v) ==
  CHOOSE n \in 0 .. Len(s) : /\ \A m \in 1 .. n : W(expiry[s[m]]) <= W(v)
                             /\ n < Len(s) => W(expiry[s[n + 1]]) > W(v)
Inserted(l, n, t, v) == [l EXCEPT ![n] = InsertAt(@, InsertPlace(@, v) + 1, t)]

(* Mutant: it is looked for on the current list only.                       *)
RemovedFromCurrent(t) ==
  [list EXCEPT ![current] = Without(@, {t})]

(* vListRemove, for a timer that is on a list.                              *)
Removed(t) == [n \in {1, 2} |-> Without(list[n], {t})]

(* Mutant: one tick too soon.                                               *)
ExpiredSooner(v, p, since) ==
  IF W(v) <= W(last) THEN W(last - since) + 1 >= p
                     ELSE W(last) < W(since) /\ W(v) >= W(since)

(* prvInsertTimerInActiveList, for a timer of period p that is on no list:  *)
(* has it expired already, and if not, which list does it go to?            *)
Expired(v, p, since) ==
  IF W(v) <= W(last) THEN W(last - since) >= p
                     ELSE W(last) < W(since) /\ W(v) >= W(since)

(* Mutant: a time beyond the wrap goes with those before it.                *)
ListForCurrent(v) == current

ListFor(v) == IF W(v) <= W(last) THEN overflow ELSE current
InsertTimer(t, v, p, since) ==
  /\ expiry' = [expiry EXCEPT ![t] = v]
  /\ list' = IF Expired(v, p, since) THEN Removed(t)
             ELSE Inserted(Removed(t), ListFor(v), t, v)

(* prvSampleTimeNow: a count less than the last time's has wrapped.         *)
Wrapped == W(ticks) < W(last)

(* prvProcessTimerOrBlockTask, with prvGetNextExpireTime.                   *)
IsDue == ~IsEmpty /\ W(NextExpireTime) <= W(ticks)
prvProcessTimerOrBlockTask ==
  /\ pc = "process"
  /\ last' = ticks
  /\ \/ Wrapped /\ Goto("switchBefore")
     \/ ~Wrapped /\ IsDue /\ Goto("expire")
     \/ ~Wrapped /\ ~IsDue /\ Goto("blocked")
  /\ called' = {}
  /\ UNCHANGED <<ticks, queue, client, gone, timers, stale>>

(* prvProcessExpiredTimer.                                                  *)
prvProcessExpiredTimer ==
  LET t == Head(list[current])
      v == expiry[t] + period[t]
  IN
  /\ pc = "expire"
  /\ IF t \in AutoReload
     THEN /\ InsertTimer(t, v, period[t], expiry[t])
          /\ IF Expired(v, period[t], expiry[t])
             THEN Restart(t, expiry[t], "sample")
             ELSE Goto("sample") /\ UNCHANGED queue
     ELSE /\ list' = Removed(t)
          /\ Goto("sample")
          /\ UNCHANGED <<expiry, queue>>
  /\ called' = {t}
  /\ UNCHANGED <<ticks, client, gone, current, period, freed, revived, last, stale>>

(* prvSwitchTimerLists: one timer of the list that the wrap leaves behind,  *)
(* and at last the switch.                                                  *)
Switching == pc \in {"switchBefore", "switchAfter"}
SwitchOne ==
  LET t == Head(list[current])
      v == expiry[t] + period[t]
  IN
  /\ Switching /\ ~IsEmpty
  /\ IF t \in AutoReload
     THEN IF W(v) > W(expiry[t])
          THEN /\ expiry' = [expiry EXCEPT ![t] = v]
               /\ list' = Inserted(Removed(t), current, t, v)
               /\ UNCHANGED <<queue, pc>>
          ELSE /\ Restart(t, expiry[t], pc)
               /\ list' = Removed(t) /\ UNCHANGED expiry
     ELSE list' = Removed(t) /\ UNCHANGED <<expiry, queue, pc>>
  /\ called' = {t}
  /\ UNCHANGED <<ticks, client, gone, current, period, freed, revived, last, stale>>
Switched ==
  /\ Switching /\ IsEmpty
  /\ current' = overflow
  /\ Goto(IF pc = "switchBefore" THEN "sample" ELSE "receive")
  /\ called' = {}
  /\ UNCHANGED <<ticks, queue, client, gone, list, expiry, period, freed, revived,
                 last, stale>>

(* vQueueWaitForMessageRestricted: the timer task goes on when there is a   *)
(* command, from before it blocked or since, or when its time has come.     *)
Unblocked == queue # <<>> \/ ticks >= Wake

(* prvProcessReceivedCommands takes the time once, before the commands.     *)
Sample ==
  /\ pc = "sample" \/ (pc = "blocked" /\ Unblocked)
  /\ last' = ticks
  /\ Goto(IF Wrapped THEN "switchAfter" ELSE "receive")
  /\ called' = {}
  /\ UNCHANGED <<ticks, queue, client, gone, timers, stale>>

NoMoreCommands ==
  /\ pc = "receive" /\ queue = <<>>
  /\ Goto("process")
  /\ called' = {}
  /\ UNCHANGED <<ticks, queue, client, gone, timers, last, stale>>

(* A command is obeyed whether or not the memory of its timer is free: the  *)
(* code does not look.  What vPortFree leaves of a timer is all of it, until*)
(* somebody else is given the memory; nobody is in this model.              *)
(*                                                                          *)
(* A timer that has expired by the time it is started is called at once,    *)
(* and if it reloads, started again: by a command for which clients may     *)
(* have left no room by then, in spite of the one just received.            *)
Start(t, since) ==
  LET v == since + period[t] IN
  /\ InsertTimer(t, v, period[t], since)
  /\ stale' = (stale \/ since > last)
  /\ \/ ~Expired(v, period[t], since)
        /\ queue' = Tail(queue) /\ called' = {} /\ UNCHANGED pc
     \/ Expired(v, period[t], since) /\ called' = {t}
        /\ \/ t \in AutoReload /\ queue' = Append(Tail(queue), Command("start", t, v))
              /\ UNCHANGED pc
           \/ t \in AutoReload /\ queue' = Tail(queue) /\ Goto("halted")
           \/ t \notin AutoReload /\ queue' = Tail(queue) /\ UNCHANGED pc
  /\ revived' = revived \cup ({t} \cap freed)
  /\ UNCHANGED <<period, freed>>
ChangePeriod(t, p) ==
  /\ period' = [period EXCEPT ![t] = p]
  /\ InsertTimer(t, last + p, p, last)
  /\ queue' = Tail(queue) /\ called' = {}
  /\ UNCHANGED <<freed, revived, stale, pc>>
Stop(t) ==
  /\ list' = Removed(t)
  /\ queue' = Tail(queue) /\ called' = {}
  /\ UNCHANGED <<expiry, period, freed, revived, stale, pc>>
Delete(t) ==
  /\ list' = Removed(t)
  /\ freed' = freed \cup {t}
  /\ queue' = Tail(queue) /\ called' = {}
  /\ UNCHANGED <<expiry, period, revived, stale, pc>>
Received ==
  /\ pc = "receive" /\ queue # <<>>
  /\ LET t == Head(queue).timer
         v == Head(queue).value
     IN \/ Head(queue).id = "start" /\ Start(t, v)
        \/ Head(queue).id = "period" /\ ChangePeriod(t, v)
        \/ Head(queue).id = "stop" /\ Stop(t)
        \/ Head(queue).id = "delete" /\ Delete(t)
  /\ UNCHANGED <<ticks, client, gone, current, last>>

-----------------------------------------------------------------------------

(* The timers are created before the scheduler is started.  Whoever is      *)
(* first, xTimerCreate or xTimerCreateTimerTask, finds no queue and         *)
(* initialises it, and the lists.                                           *)
prvCheckForValidListAndQueue ==
  queue = <<>> /\ list = [n \in {1, 2} |-> <<>>] /\ current = 1
xTimerCreate ==
  expiry = [t \in Timers |-> 0] /\ period = Period /\ freed = {}
  /\ revived = {}
xTimerCreateTimerTask == pc = "process" /\ last = 0

Init ==
  /\ prvCheckForValidListAndQueue /\ xTimerCreate /\ xTimerCreateTimerTask
  /\ ticks = 0 /\ client = NoCommand /\ gone = {}
  /\ called = {} /\ stale = FALSE

TimerTask ==
  \/ prvProcessTimerOrBlockTask \/ prvProcessExpiredTimer
  \/ SwitchOne \/ Switched \/ Sample \/ NoMoreCommands \/ Received

Next ==
  \/ TimerTask \/ Tick \/ SendStart
  \/ \E t \in Timers : ReadTime(t)
  \/ \E c \in Commands : SendOther(c[1], c[2], c[3])

Spec == Init /\ [][Next]_vars

-----------------------------------------------------------------------------
(* Properties.                                                              *)

(* The type invariant.                                                      *)
TypeOK ==
  /\ ticks \in 0 .. MaxTicks /\ last \in 0 .. ticks
  /\ queue \in Seq([id : CommandIDs, timer : Timers, value : Nat])
  /\ Len(queue) <= QueueLength
  /\ gone \subseteq Timers /\ freed \subseteq gone /\ revived \subseteq freed
  /\ \A n \in {1, 2} : list[n] \in Seq(Timers)
  /\ current \in {1, 2}
  /\ expiry \in [Timers -> Nat]
  /\ period \in [Timers -> 1 .. Width - 1]
  /\ pc \in {"process", "blocked", "expire", "switchBefore",
             "sample", "switchAfter", "receive", "halted"}
  /\ called \subseteq Timers /\ stale \in BOOLEAN

(* However commands, expiries and wraps of the count interleave, a timer is *)
(* on the two lists once at most: the code removes an item by its own       *)
(* pointers, whichever list it is on, and an item inserted twice breaks the *)
(* list.  Its deletion takes a timer off the lists for ever, but for one way*)
(* back: a restart of the timer task's own, queued behind the deletion, has *)
(* listed the freed memory of a timer that reloads.  No command of a client *)
(* does, for it comes before the deletion in the queue.                     *)
ListedOnce ==
  /\ TypeOK
  /\ IsInjective(list[1] \o list[2])
  /\ \A t \in freed : xTimerIsTimerActive(t) => t \in revived
  /\ revived \subseteq AutoReload

(* What prvProcessReceivedCommands says at a deletion: "The timer has       *)
(* already been removed from the active list, just free up the memory."     *)
FreedUnlisted == \A t \in freed : ~xTimerIsTimerActive(t)

(* The lists divide the timers by the cycle of the count they expire in,    *)
(* and each is in the order of the times: the wrapped values the code       *)
(* compares mean what they say.                                             *)
Cycle(n) == last \div Width + (IF n = current THEN 0 ELSE 1)
InOwnCycle ==
  ~Switching /\ pc # "halted" /\ ~stale =>
    \A n \in {1, 2} :
      /\ \A t \in ToSet(list[n]) : expiry[t] \div Width = Cycle(n)
      /\ \A i, j \in DOMAIN list[n] :
           i < j => expiry[list[n][i]] <= expiry[list[n][j]]

(* A callback is never called before its timer expires, unless the command  *)
(* was sent after prvProcessReceivedCommands took the time.                 *)
ExpiresAt(t) == IF pc = "receive" THEN expiry'[t] ELSE expiry[t]
NeverEarly ==
  [][~stale' => \A t \in called' : ticks >= ExpiresAt(t)]_vars

(* What timers.h promises: the callback of a timer is called so many ticks  *)
(* after it is started, and not before.                                     *)
NotBeforeItsTime ==
  [][\A t \in called' : ticks >= ExpiresAt(t)]_vars
=============================================================================

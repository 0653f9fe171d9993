---------------------------- MODULE FromaTickProofs ----------------------------
(***************************************************************************)
(* Ticks, delays and timeouts: proofs about FromaTick, for every number of *)
(* tasks, width of the tick count, set of calls and number of interrupts.  *)
(***************************************************************************)
EXTENDS FromaTick, FromaSequences

-----------------------------------------------------------------------------
(* The inductive invariant: Typed, Placed, Asked and Counts hold always,    *)
(* Housed until the cores clash, and the rest while the count has not       *)
(* wrapped and no update was overwritten, which is to say that they do not  *)
(* clash before.                                                            *)

Kernel ==
  [ticks : Nat, suspended : {0, 1}, missed : Nat, unblock : 0 .. portMAX_DELAY,
   overflows : Nat, list : [{1, 2} -> Seq(Tasks)], delayed : {1, 2},
   overflow : {1, 2}, wake : [Tasks -> Nat], ready : SUBSET Tasks]
Locals ==
  [op : Operations \cup {"none"}, asked : 0 .. portMAX_DELAY,
   left : 0 .. portMAX_DELAY, target : Nat, start : Nat, entered : Nat,
   overflows : Nat, expired : BOOLEAN]

(* Where a core is: in vTaskIncrementTick before and after it has counted,  *)
(* or with the missed tick that it has unwound still to be taken off, ...   *)
Uncounted == {"tick", "count", "counted"}
Missing == {"miss", "missed"}
Renewing == {"next", "newhead", "newvalue", "newset"}
Waking == {"wake", "head", "value", "due", "unlist", "move", "set"}
CountedIn == {"wrap", "swap", "swapped", "check", "ticked", "unmiss", "halted"}
             \cup Renewing \cup Waking
(* ... or core 0 in a call of its task: until that sleeps with the          *)
(* scheduler running and suspended, then on the way to a list and after.    *)
Entering == {"enter", "entered", "suspend"}
Deciding == {"target", "until", "decide", "timeout", "passed", "elapsed", "left",
             "reenter", "reentered", "sleep"}
Asleep == {"which", "later", "insert", "forever"}
Joined == {"sooner", "lower", "resume"}
Places == {"run", "idle", "unwind"} \cup Uncounted \cup Missing \cup CountedIn
          \cup Entering \cup Deciding \cup Asleep \cup Joined

Typed ==
  /\ k \in Kernel /\ pc \in [{0, 1} -> Places] /\ tmp \in [{0, 1} -> Nat]
  /\ running \in Tasks \cup {NoTask} /\ call \in [Tasks -> Locals]
  /\ previous \in [Tasks -> Nat] /\ interrupts \in Nat /\ slipped \in BOOLEAN
  /\ hand \in [{0, 1} -> Tasks \cup {NoTask}] /\ asleep \subseteq Tasks
  /\ clashed \in BOOLEAN

(* Where the cores can be, and what goes with it.                           *)
Placed ==
  /\ pc[0] \notin {"idle"} \cup Missing
  /\ pc[1] \in {"idle"} \cup Uncounted \cup Missing \cup (CountedIn \ {"unmiss"})
  /\ pc[0] # "run" => running \in Tasks
  /\ k.suspended = IF pc[0] \in Deciding \cup Asleep \cup Joined THEN 1 ELSE 0
  /\ pc[0] \in Uncounted \cup CountedIn => k.missed > 0
  /\ pc[0] = "unmiss" => tmp[0] > 0
  /\ \A c \in {0, 1} : pc[c] \in {"swap", "swapped"} => tmp[c] \in {1, 2}
  /\ pc[0] \in {"until", "decide"} => call[running].op = "until"
  /\ \A c \in {0, 1} : pc[c] \in {"due", "set", "newset"} => tmp[c] <= portMAX_DELAY

(* A call asks for a tick at least.                                         *)
Asked ==
  /\ \A t \in Tasks : call[t].op # "none" => call[t].asked > 0
  /\ pc[0] \in Entering \cup Deciding => call[running].op # "none"

(* A task is in one place, and the one in the hands of a core is a task.    *)
Housed ==
  /\ \A c \in {0, 1} : pc[c] \in {"value", "due", "unlist", "move", "newvalue"} =>
                          hand[c] \in Tasks
  /\ \A n \in {1, 2} : IsInjective(k.list[n])
  /\ \A t \in Tasks : \E p \in Whereabouts : \A q \in Whereabouts : At(q, t) <=> q = p

(* What this says of the lists, and of the task that core 0 runs.           *)
On(t, n) == t \in ToSet(k.list[n])
Apart ==
  /\ \A n \in {1, 2} : IsInjective(k.list[n])
  /\ \A t \in Tasks : /\ ~(On(t, 1) /\ On(t, 2))
                      /\ On(t, 1) \/ On(t, 2) => t \notin k.ready
Homes ==
  /\ Apart
  /\ running \in Tasks /\ pc[0] \in {"run"} \cup Entering \cup Deciding =>
       running \in k.ready
  /\ pc[0] \in Asleep => running \notin k.ready /\ ~On(running, 1) /\ ~On(running, 2)

(* Every tick is counted, or missed, or about to be; a missed one that is   *)
(* unwound is counted before it is no longer missed.                        *)
Counts ==
  ~slipped =>
    k.ticks + k.missed + (IF pc[1] \in Uncounted \cup Missing THEN 1 ELSE 0)
      = interrupts + (IF pc[0] \in CountedIn THEN 1 ELSE 0)

(* While the count has not wrapped: there was no overflow, ...              *)
NotWrapped ==
  /\ k.delayed = 1 /\ k.overflow = 2 /\ k.overflows = 0
  /\ \A c \in {0, 1} : /\ pc[c] \notin {"swap", "swapped", "halted"} \cup Renewing
                       /\ pc[c] = "wrap" => k.ticks > 0
  /\ pc[0] = "passed" => tmp[0] = 0
  /\ \A t \in Tasks : call[t].overflows = 0

(* ... the delayed list is in order, and xNextTaskUnblockTime is not late,  *)
(* or the task that has just joined will see to it, ...                     *)
Sorted(s) ==
  \A m, n \in DOMAIN s : m <= n => k.wake[s[m]] <= k.wake[s[n]]
Covered ==
  /\ \A t \in ToSet(k.list[1]) : k.wake[t] < Width
  /\ Sorted(k.list[1])
  /\ pc[0] \in Asleep \cup {"sooner", "lower"} => k.wake[running] = Mine.target
  /\ pc[0] \in {"sleep", "which"} => Mine.target < k.ticks + Width
  /\ pc[0] \in {"insert", "sooner", "lower"} => Mine.target < Width
  /\ \A t \in ToSet(k.list[1]) :
       /\ pc[0] \notin {"sooner", "lower"} => k.unblock <= k.wake[t]
       /\ pc[0] = "sooner" /\ t # running => k.unblock <= k.wake[t]
       /\ pc[0] = "lower" => Mine.target <= k.wake[t]

(* ... every time to wake is after 0, which is all that core 1 sees of the  *)
(* time, ...                                                                *)
Positive ==
  /\ k.unblock > 0
  /\ \A t \in ToSet(k.list[1]) : k.wake[t] > 0
  /\ pc[0] \in Asleep \cup {"sleep", "sooner", "lower"} => Mine.target > 0

(* ... so that core 0 alone wakes tasks, and they are still as it has read  *)
(* them; and what it runs is ready, ...                                     *)
Alone ==
  /\ pc[1] \notin Waking
  /\ pc[0] \in {"head", "value", "due", "unlist"} => k.list[1] # <<>>
  /\ pc[0] \in {"value", "due", "unlist"} => hand[0] = Head(k.list[1])
  /\ pc[0] = "due" => tmp[0] = k.wake[hand[0]]
  /\ pc[0] = "set" => tmp[0] > 0 /\ \A t \in ToSet(k.list[1]) : tmp[0] <= k.wake[t]
  /\ pc[0] \in {"unlist", "move"} => k.wake[hand[0]] <= k.ticks
  /\ pc[0] = "move" => previous[hand[0]] <= k.wake[hand[0]]
  /\ running \in Tasks /\ pc[0] \in {"run"} \cup Entering \cup Deciding =>
       running \in k.ready

(* ... a period begins before the task wakes, ...                           *)
Periods ==
  /\ \A t \in Tasks :
       /\ t \in k.ready =>
            \/ previous[t] <= k.ticks
            \/ t = running /\ pc[0] = "sleep" /\ call[t].op = "until"
       /\ On(t, 1) => previous[t] <= k.wake[t]
  /\ pc[0] \in Asleep \cup {"sleep"} => previous[running] <= Mine.target
  /\ pc[0] = "decide" => previous[running] <= tmp[0] /\ tmp[0] <= k.ticks

(* ... and what is left of a wait, with what has passed, is what was asked. *)
Waits ==
  \A t \in Tasks :
    /\ call[t].start <= call[t].entered /\ call[t].entered <= k.ticks
    /\ call[t].left + (IF t = running /\ pc[0] \in {"reenter", "reentered"}
                       THEN k.ticks ELSE call[t].entered) - call[t].start
         >= call[t].asked
    /\ call[t].expired => k.ticks - call[t].start >= call[t].asked
    /\ t = running /\ pc[0] \in {"enter", "entered"} =>
         call[t].left >= call[t].asked /\ ~call[t].expired

IInv ==
  /\ Typed /\ Placed /\ Asked /\ Counts
  /\ ~clashed => Housed
  /\ Regular => /\ ~clashed /\ NotWrapped /\ Covered /\ Positive
                /\ Alone /\ Periods /\ Waits

-----------------------------------------------------------------------------
(* What a portTickType holds of a time that is a width out of it at most.   *)
LEMMA Wrapping ==
  ASSUME NEW x \in Int
  PROVE  /\ W(x) \in 0 .. portMAX_DELAY
         /\ 0 <= x /\ x < Width => W(x) = x
         /\ Width <= x /\ x < 2 * Width => W(x) = x - Width
         /\ x < 0 /\ x >= 0 - Width => W(x) = x + Width
<1> DEFINE n == Width
<1>1. n \in Nat /\ n > 1
  BY TickAssumption
<1> HIDE DEF n
<1>2. x % n \in 0 .. n - 1
  BY <1>1
<1>3. 0 <= x /\ x < n => x % n = x
  BY <1>1
<1>4. n <= x /\ x < 2 * n => x % n = x - n
  BY <1>1
<1>5. x < 0 /\ x >= 0 - n => x % n = x + n
  BY <1>1
<1> QED
  BY <1>2, <1>3, <1>4, <1>5 DEF W, portMAX_DELAY, n

-----------------------------------------------------------------------------
(* The steps.                                                               *)

(* Core c goes to a place; the other stays where it is.                     *)
Moves(c, to) ==
  /\ pc' \in [{0, 1} -> Places] /\ pc'[c] = to
  /\ \A d \in {0, 1} : d # c => pc'[d] = pc[d]

LEMMA StepMoves ==
  ASSUME pc \in [{0, 1} -> Places], NEW c \in {0, 1}, NEW from, NEW to \in Places,
         Step(c, from, to)
  PROVE  pc[c] = from /\ Moves(c, to)
BY DEF Step, Moves

LEMMA ReadTyped ==
  ASSUME tmp \in [{0, 1} -> Nat], NEW c \in {0, 1}, NEW v \in Nat, Read(c, v)
  PROVE  /\ tmp' \in [{0, 1} -> Nat] /\ tmp'[c] = v
         /\ \A d \in {0, 1} : d # c => tmp'[d] = tmp[d]
BY DEF Read

(* What a step of vTaskIncrementTick changes of the kernel's variables.     *)
LEMMA KernelTyped ==
  ASSUME k \in Kernel
  PROVE  /\ k.ticks \in Nat /\ k.suspended \in {0, 1} /\ k.missed \in Nat
         /\ k.unblock \in 0 .. portMAX_DELAY /\ k.overflows \in Nat
         /\ k.list \in [{1, 2} -> Seq(Tasks)] /\ k.delayed \in {1, 2}
         /\ k.overflow \in {1, 2} /\ k.wake \in [Tasks -> Nat] /\ k.ready \subseteq Tasks
BY DEF Kernel

SameCounts == k'.ticks = k.ticks /\ k'.missed = k.missed
SameLists == k'.list = k.list /\ k'.wake = k.wake /\ k'.ready = k.ready
SameRoles ==
  k'.delayed = k.delayed /\ k'.overflow = k.overflow /\ k'.overflows = k.overflows
SameSuspended == k'.suspended = k.suspended
SameUnblock == k'.unblock = k.unblock

(* The steps of vTaskIncrementTick that count.                              *)
CountingChange(c) ==
  /\ UNCHANGED <<task, interrupts, waking>>
  /\ \/ /\ UNCHANGED <<k, tmp, slipped>>
        /\ \/ pc[c] = "tick" /\ Moves(c, IF k.suspended = 0 THEN "count" ELSE "miss")
           \/ pc[c] = "wrap" /\ W(k.ticks) # 0 /\ Moves(c, "check")
           \/ pc[c] = "wrap" /\ W(k.ticks) = 0 /\ Moves(c, "halted")
           \/ pc[c] = "check" /\ Moves(c, "ticked")
           \/ pc[c] = "check" /\ xTickCount(c) >= k.unblock /\ Moves(c, "wake")
           \/ pc[c] = "next" /\ Moves(c, "newhead")
           \/ pc[c] = "wake" /\ k.list[k.delayed] # <<>> /\ Moves(c, "head")
     \/ /\ UNCHANGED <<k, slipped>>
        /\ \/ pc[c] = "count" /\ Moves(c, "counted") /\ Read(c, k.ticks)
           \/ pc[c] = "miss" /\ Moves(c, "missed") /\ Read(c, k.missed)
           \/ pc[c] = "wrap" /\ W(k.ticks) = 0 /\ Moves(c, "swap") /\ Read(c, k.delayed)
           \/ /\ \/ pc[c] = "next" /\ Moves(c, "newset")
                 \/ pc[c] = "wake" /\ Moves(c, "set")
              /\ k.list[k.delayed] = <<>> /\ Read(c, portMAX_DELAY)
     \/ /\ UNCHANGED tmp
        /\ \/ /\ pc[c] = "counted" /\ Moves(c, "wrap") /\ Overwrites(c, k.ticks)
              /\ k' = [k EXCEPT !.ticks = tmp[c] + 1]
           \/ /\ pc[c] = "missed" /\ Moves(c, "ticked") /\ Overwrites(c, k.missed)
              /\ k' = [k EXCEPT !.missed = tmp[c] + 1]
     \/ /\ UNCHANGED <<tmp, slipped>>
        /\ \/ /\ pc[c] = "swap" /\ Moves(c, "swapped") /\ k' = [k EXCEPT !.delayed = k.overflow]
           \/ /\ pc[c] = "swapped" /\ Moves(c, "next")
              /\ k' = [k EXCEPT !.overflow = tmp[c], !.overflows = @ + 1]

(* The steps that wake a task, or find out when the next one wakes.         *)
HeadChange(c) ==
  /\ \/ pc[c] = "head" /\ Moves(c, "value")
     \/ pc[c] = "newhead" /\ Moves(c, "newvalue")
  /\ UNCHANGED <<k, tmp, asleep>>
  /\ \/ k.list[k.delayed] = <<>> /\ clashed' = TRUE /\ UNCHANGED hand
     \/ /\ k.list[k.delayed] # <<>> /\ UNCHANGED clashed
        /\ hand' = [hand EXCEPT ![c] = Head(k.list[k.delayed])]
ValueChange(c) ==
  /\ \/ pc[c] = "value" /\ Moves(c, "due") /\ UNCHANGED hand
     \/ pc[c] = "newvalue" /\ Moves(c, "newset") /\ hand' = [hand EXCEPT ![c] = NoTask]
  /\ Read(c, W(k.wake[hand[c]])) /\ UNCHANGED <<k, asleep, clashed>>
DueChange(c) ==
  /\ pc[c] = "due" /\ UNCHANGED <<k, tmp, asleep, clashed>>
  /\ \/ /\ xTickCount(c) < tmp[c] /\ Moves(c, "set")
        /\ hand' = [hand EXCEPT ![c] = NoTask]
     \/ ~(xTickCount(c) < tmp[c]) /\ Moves(c, "unlist") /\ UNCHANGED hand
SetChange(c) ==
  /\ \/ pc[c] = "set" /\ Moves(c, "ticked")
     \/ pc[c] = "newset" /\ Moves(c, "check")
  /\ k' = [k EXCEPT !.unblock = tmp[c]] /\ UNCHANGED <<tmp, waking>>
UnlistChange(c) ==
  /\ pc[c] = "unlist" /\ Moves(c, "move") /\ UNCHANGED <<tmp, hand>>
  /\ k' = [k EXCEPT !.ready = @ \ {hand[c]},
                    !.list = [n \in {1, 2} |-> Without(k.list[n], {hand[c]})]]
  /\ asleep' = asleep \ {hand[c]}
  /\ clashed' = (/\ hand[c] \notin k.ready \cup asleep
                 /\ \A n \in {1, 2} : hand[c] \notin ToSet(k.list[n]))
ReadyChange(c) ==
  /\ pc[c] = "move" /\ Moves(c, "wake") /\ UNCHANGED <<tmp, asleep, clashed>>
  /\ k' = [k EXCEPT !.ready = @ \cup {hand[c]}]
  /\ hand' = [hand EXCEPT ![c] = NoTask]
WakingChange(c) ==
  /\ UNCHANGED <<task, interrupts, slipped>>
  /\ \/ HeadChange(c) \/ ValueChange(c) \/ DueChange(c)
     \/ SetChange(c) \/ UnlistChange(c) \/ ReadyChange(c)
IncrementChange(c) == CountingChange(c) \/ WakingChange(c)

LEMMA IncrementChanges ==
  ASSUME pc \in [{0, 1} -> Places], NEW c \in {0, 1}, Increment(c)
  PROVE  IncrementChange(c)
<1>1. {"count", "miss", "counted", "missed", "wrap", "ticked", "check", "halted", "swap",
       "swapped"} \cup Renewing \cup Waking \subseteq Places
  BY DEF Places, Missing, Uncounted, CountedIn
<1>2. {"count", "miss", "counted", "missed", "wrap", "ticked", "check", "halted", "swap",
       "swapped", "next", "newhead", "newvalue", "newset", "wake", "head", "value", "due",
       "unlist", "move", "set"} \subseteq Places
  BY <1>1 DEF Renewing, Waking
<1>3. ASSUME NEW from, NEW to, to \in Places, Step(c, from, to)
      PROVE  pc[c] = from /\ Moves(c, to)
  BY <1>3, StepMoves
<1> USE <1>2, <1>3
<1>4. CASE IncrementTick(c)
  BY <1>4, Zenon DEF IncrementTick, IncrementChange, CountingChange
<1>5. CASE CountRead(c) \/ MissRead(c)
  BY <1>5, Zenon DEF CountRead, MissRead, IncrementChange, CountingChange
<1>6. CASE CountWrite(c) \/ MissWrite(c)
  BY <1>6, Zenon DEF CountWrite, MissWrite, IncrementChange, CountingChange
<1>7. CASE Overflow(c)
  BY <1>7, Zenon DEF Overflow, IncrementChange, CountingChange
<1>8. CASE Swap(c) \/ Swapped(c)
  BY <1>8, Zenon DEF Swap, Swapped, IncrementChange, CountingChange
<1>9. CASE CheckDelayed(c)
  BY <1>9, Zenon DEF CheckDelayed, IncrementChange, CountingChange
<1>10. CASE Next1(c) \/ Wake(c)
  BY <1>10, Zenon DEF Next1, Wake, IncrementChange, CountingChange
<1>11. CASE HeadRead(c)
  BY <1>11, Zenon DEF HeadRead, IncrementChange, WakingChange, HeadChange
<1>12. CASE ValueRead(c)
  BY <1>12, Zenon DEF ValueRead, IncrementChange, WakingChange, ValueChange
<1>13. CASE DueTest(c)
  BY <1>13, Zenon DEF DueTest, IncrementChange, WakingChange, DueChange
<1>14. CASE SetUnblock(c)
  BY <1>14, Zenon DEF SetUnblock, IncrementChange, WakingChange, SetChange
<1>15. CASE Unlist(c)
  BY <1>15, Zenon DEF Unlist, IncrementChange, WakingChange, UnlistChange
<1>16. CASE MakeReady(c)
  BY <1>16, Zenon DEF MakeReady, IncrementChange, WakingChange, ReadyChange
<1> QED
  BY <1>4, <1>5, <1>6, <1>7, <1>8, <1>9, <1>10, <1>11, <1>12, <1>13, <1>14, <1>15, <1>16
     DEF Increment

(* The steps of a call, on core 0.                                          *)
Own(r) == call' = [call EXCEPT ![running] = r]
CallNotes ==
  /\ UNCHANGED <<k, tmp, running, previous, slipped, waking>>
  /\ \/ pc[0] = "enter" /\ Moves(0, "entered") /\ Note("overflows", k.overflows)
     \/ pc[0] = "reenter" /\ Moves(0, "reentered") /\ Note("overflows", k.overflows)
     \/ /\ pc[0] = "entered" /\ Moves(0, "suspend")
        /\ call' = [call EXCEPT ![running].entered = k.ticks,
                                ![running].start = k.ticks]
     \/ pc[0] = "reentered" /\ Moves(0, "target") /\ Note("entered", k.ticks)
     \/ /\ \/ /\ pc[0] = "passed" /\ tmp[0] # Mine.overflows
              /\ W(k.ticks) >= W(Mine.entered)
           \/ pc[0] = "elapsed" /\ ~(W(k.ticks - Mine.entered) < Mine.left)
        /\ Moves(0, "resume") /\ Note("expired", TRUE)
     \/ /\ pc[0] = "left" /\ Moves(0, "reenter")
        /\ Note("left", W(Mine.left - W(k.ticks - Mine.entered)))
     \/ /\ pc[0] = "target" /\ Moves(0, "sleep")
        /\ Note("target", k.ticks + Mine.left)
CallGoesOn ==
  /\ UNCHANGED <<k, tmp, task, slipped, waking>>
  /\ \/ pc[0] = "timeout" /\ Moves(0, "target")
     \/ pc[0] = "passed" /\ Moves(0, "elapsed")
     \/ pc[0] = "elapsed" /\ Moves(0, "left")
     \/ /\ pc[0] = "which"
        /\ Moves(0, IF W(Mine.target) < W(k.ticks) THEN "later" ELSE "insert")
     \/ /\ pc[0] = "sooner"
        /\ Moves(0, IF W(Mine.target) < k.unblock THEN "lower" ELSE "resume")
     \/ pc[0] = "unwind" /\ k.missed > 0 /\ Moves(0, "tick")
CallReads ==
  /\ UNCHANGED <<k, task, slipped, waking>>
  /\ \/ pc[0] = "until" /\ Moves(0, "decide") /\ Read(0, k.ticks)
     \/ pc[0] = "timeout" /\ Moves(0, "passed") /\ Read(0, k.overflows)
     \/ pc[0] = "ticked" /\ Moves(0, "unmiss") /\ Read(0, k.missed)
CallDecides ==
  /\ UNCHANGED <<k, tmp, running, slipped, waking>>
  /\ pc[0] = "decide"
  /\ LET to == previous[running] + Mine.asked IN
     /\ Moves(0, IF ShouldDelay(tmp[0], k.ticks, previous[running], to)
                 THEN "sleep" ELSE "resume")
     /\ Note("target", to) /\ previous' = [previous EXCEPT ![running] = to]
CallUpdates ==
  /\ UNCHANGED <<tmp, task, slipped>>
  /\ pc[0] # "sleep" => UNCHANGED waking
  /\ \/ /\ pc[0] = "suspend" /\ k' = [k EXCEPT !.suspended = @ + 1]
        /\ Moves(0, CASE Mine.op = "delay" -> "target" [] Mine.op = "until" -> "until"
                      [] Mine.op = "wait" -> "timeout" [] OTHER -> "resume")
     \/ /\ pc[0] = "sleep" /\ \E to \in {"which", "forever"} : Moves(0, to)
        /\ k' = [k EXCEPT !.ready = @ \ {running}, !.wake[running] = Mine.target]
        /\ clashed' = (running \notin k.ready) /\ UNCHANGED <<hand, asleep>>
     \/ /\ pc[0] = "later" /\ Moves(0, "resume")
        /\ k' = [k EXCEPT !.list[k.overflow] = InsertByWake(@, running)]
     \/ /\ pc[0] = "insert" /\ Moves(0, "sooner")
        /\ k' = [k EXCEPT !.list[k.delayed] = InsertByWake(@, running)]
     \/ /\ pc[0] = "lower" /\ Moves(0, "resume")
        /\ k' = [k EXCEPT !.unblock = W(Mine.target)]
     \/ /\ pc[0] = "resume" /\ Moves(0, "unwind")
        /\ k' = [k EXCEPT !.suspended = @ - 1]
CallForever ==
  /\ UNCHANGED <<k, tmp, task, slipped, hand, clashed>>
  /\ pc[0] = "forever" /\ Moves(0, "resume") /\ asleep' = asleep \cup {running}
CallUnmisses ==
  /\ UNCHANGED <<tmp, task, waking>>
  /\ pc[0] = "unmiss" /\ Moves(0, "unwind") /\ Overwrites(0, k.missed)
  /\ k' = [k EXCEPT !.missed = tmp[0] - 1]
CallReturns ==
  /\ UNCHANGED <<k, tmp, previous, slipped, waking>>
  /\ pc[0] = "unwind" /\ k.missed = 0
  /\ Own(IF Mine.op = "wait" /\ ~Mine.expired THEN Mine ELSE NoCall)
  /\ running' \in k.ready \cup (IF k.ready = {} THEN {NoTask} ELSE {})
  /\ Moves(0, IF running' \in Tasks /\ call'[running'].op = "wait"
              THEN "suspend" ELSE "run")
CallChange ==
  /\ UNCHANGED interrupts
  /\ \/ CallNotes \/ CallGoesOn \/ CallReads \/ CallDecides
     \/ CallUpdates \/ CallForever \/ CallUnmisses \/ CallReturns

LEMMA CallChanges ==
  ASSUME pc \in [{0, 1} -> Places], InCall
  PROVE  CallChange
<1> USE Zenon DEF task
<1>1. Entering \cup Deciding \cup Asleep \cup Joined \cup {"unwind", "tick", "unmiss", "run"}
        \subseteq Places
  BY SMT DEF Places, Uncounted, CountedIn
<1>2. {"entered", "reentered", "suspend", "target", "resume", "reenter", "sleep", "elapsed",
       "left", "later", "insert", "lower", "tick", "decide", "passed", "unmiss", "until",
       "timeout", "which", "sooner", "unwind", "run", "forever"} \subseteq Places
  BY <1>1, SMT DEF Entering, Deciding, Asleep, Joined
<1>3. ASSUME NEW from, NEW to, to \in Places, Step(0, from, to)
      PROVE  pc[0] = from /\ Moves(0, to)
  BY <1>3, StepMoves, SMT
<1>4. CASE SetTimeOutOverflows \/ SetTimeOutTime
  BY <1>2, <1>3, <1>4 DEF SetTimeOutOverflows, SetTimeOutTime,
     CallChange, CallNotes
<1>5. CASE TimeOutPassed \/ TimeOutElapsed \/ TimeOutLeft \/ Target
  BY <1>2, <1>3, <1>5 DEF TimeOutPassed, TimeOutElapsed, TimeOutLeft, Target,
     CallChange, CallNotes, CallGoesOn
<1>6. CASE TimeOutOverflows \/ UntilWrapped \/ UnmissRead
  BY <1>2, <1>3, <1>6 DEF TimeOutOverflows, UntilWrapped, UnmissRead,
     CallChange, CallReads, CallGoesOn
<1>7. CASE WhichList \/ Sooner \/ Unwind
  BY <1>2, <1>3, <1>7 DEF WhichList, Sooner, Unwind,
     CallChange, CallGoesOn
<1>8. CASE UntilDecide
  BY <1>2, <1>3, <1>8 DEF UntilDecide,
     CallChange, CallDecides
<1>9. CASE vTaskSuspendAll
  BY <1>2, <1>3, <1>9 DEF vTaskSuspendAll,
     CallChange, CallUpdates
<1>10. CASE Sleep
  BY <1>2, <1>3, <1>10 DEF Sleep,
     CallChange, CallUpdates
<1>13. CASE Insert
  BY <1>2, <1>3, <1>13 DEF Insert,
     CallChange, CallUpdates
<1>14. CASE Forever
  BY <1>2, <1>3, <1>14 DEF Forever,
     CallChange, CallForever
<1>11. CASE Lower \/ ResumeAll \/ UnmissWrite
  BY <1>2, <1>3, <1>11 DEF Lower, ResumeAll, UnmissWrite,
     CallChange, CallUpdates, CallUnmisses
<1>12. CASE Done
  BY <1>2, <1>3, <1>12 DEF Done, Own, Mine,
     CallChange, CallReturns
<1> QED
  BY <1>4, <1>5, <1>6, <1>7, <1>8, <1>9, <1>10, <1>11, <1>12, <1>13, <1>14 DEF InCall

(* What becomes of the kernel's variables.                                  *)
LEMMA KernelUpdates ==
  ASSUME k \in Kernel
  PROVE  /\ \A v \in Nat : k' = [k EXCEPT !.ticks = v] =>
              /\ k' \in Kernel /\ k'.ticks = v /\ k'.missed = k.missed
              /\ SameLists /\ SameRoles /\ SameSuspended /\ SameUnblock
         /\ \A v \in Nat : k' = [k EXCEPT !.missed = v] =>
              /\ k' \in Kernel /\ k'.missed = v /\ k'.ticks = k.ticks
              /\ SameLists /\ SameRoles /\ SameSuspended /\ SameUnblock
         /\ \A v \in {0, 1} : k' = [k EXCEPT !.suspended = v] =>
              /\ k' \in Kernel /\ k'.suspended = v
              /\ SameCounts /\ SameLists /\ SameRoles /\ SameUnblock
         /\ \A v \in 0 .. portMAX_DELAY : k' = [k EXCEPT !.unblock = v] =>
              /\ k' \in Kernel /\ k'.unblock = v
              /\ SameCounts /\ SameLists /\ SameRoles /\ SameSuspended
<1> USE DEF Kernel, SameCounts, SameLists, SameRoles, SameSuspended, SameUnblock
<1>1. \A v \in Nat : k' = [k EXCEPT !.ticks = v] =>
        /\ k' \in Kernel /\ k'.ticks = v /\ k'.missed = k.missed
        /\ SameLists /\ SameRoles /\ SameSuspended /\ SameUnblock
  OBVIOUS
<1>2. \A v \in Nat : k' = [k EXCEPT !.missed = v] =>
        /\ k' \in Kernel /\ k'.missed = v /\ k'.ticks = k.ticks
        /\ SameLists /\ SameRoles /\ SameSuspended /\ SameUnblock
  OBVIOUS
<1>3. \A v \in {0, 1} : k' = [k EXCEPT !.suspended = v] =>
        /\ k' \in Kernel /\ k'.suspended = v
        /\ SameCounts /\ SameLists /\ SameRoles /\ SameUnblock
  OBVIOUS
<1>4. \A v \in 0 .. portMAX_DELAY : k' = [k EXCEPT !.unblock = v] =>
        /\ k' \in Kernel /\ k'.unblock = v
        /\ SameCounts /\ SameLists /\ SameRoles /\ SameSuspended
  OBVIOUS
<1> QED
  BY <1>1, <1>2, <1>3, <1>4

LEMMA RoleUpdates ==
  ASSUME k \in Kernel
  PROVE  /\ \A v \in {1, 2} : k' = [k EXCEPT !.delayed = v] =>
              /\ k' \in Kernel /\ k'.delayed = v /\ k'.overflow = k.overflow
              /\ k'.overflows = k.overflows
              /\ SameCounts /\ SameLists /\ SameSuspended /\ SameUnblock
         /\ \A v \in {1, 2} : k' = [k EXCEPT !.overflow = v, !.overflows = @ + 1] =>
              /\ k' \in Kernel /\ k'.overflow = v /\ k'.delayed = k.delayed
              /\ k'.overflows = k.overflows + 1
              /\ SameCounts /\ SameLists /\ SameSuspended /\ SameUnblock
<1> USE DEF Kernel, SameCounts, SameLists, SameSuspended, SameUnblock
<1>1. ASSUME NEW v \in {1, 2}, k' = [k EXCEPT !.delayed = v]
      PROVE  /\ k' \in Kernel /\ k'.delayed = v /\ k'.overflow = k.overflow
             /\ k'.overflows = k.overflows
             /\ SameCounts /\ SameLists /\ SameSuspended /\ SameUnblock
  BY <1>1
<1>2. ASSUME NEW v \in {1, 2}, k' = [k EXCEPT !.overflow = v, !.overflows = @ + 1]
      PROVE  /\ k' \in Kernel /\ k'.overflow = v /\ k'.delayed = k.delayed
             /\ k'.overflows = k.overflows + 1
             /\ SameCounts /\ SameLists /\ SameSuspended /\ SameUnblock
  <2>1. k.overflows + 1 \in Nat
    OBVIOUS
  <2>2. k' = [k EXCEPT !.overflow = v, !.overflows = k.overflows + 1]
    BY <1>2
  <2> QED
    BY <2>1, <2>2
<1> QED
  BY <1>1, <1>2, Zenon

(* What becomes of the lists: list n is s by then.                          *)
Relisted(n, s) ==
  /\ k'.list[n] = s /\ \A m \in {1, 2} : m # n => k'.list[m] = k.list[m]
  /\ SameCounts /\ SameRoles /\ SameSuspended /\ SameUnblock

LEMMA ListUpdates ==
  ASSUME k \in Kernel, NEW n \in {1, 2}, NEW s \in Seq(Tasks)
  PROVE  /\ k' = [k EXCEPT !.list[n] = s] =>
              k' \in Kernel /\ Relisted(n, s) /\ k'.ready = k.ready /\ k'.wake = k.wake
<1> DEFINE l == [k.list EXCEPT ![n] = s]
<1>1. /\ l \in [{1, 2} -> Seq(Tasks)] /\ l[n] = s
      /\ \A m \in {1, 2} : m # n => l[m] = k.list[m]
  BY KernelTyped
<1>2. k' = [k EXCEPT !.list[n] = s] => k' = [k EXCEPT !.list = l]
  OBVIOUS
<1> HIDE DEF l
<1>4. ASSUME k' = [k EXCEPT !.list = l]
      PROVE  k' \in Kernel /\ Relisted(n, s) /\ k'.ready = k.ready /\ k'.wake = k.wake
  <2>1. k' \in Kernel /\ k'.list = l /\ k'.ready = k.ready /\ k'.wake = k.wake
    BY <1>1, <1>4 DEF Kernel
  <2>2. SameCounts /\ SameRoles /\ SameSuspended /\ SameUnblock
    BY <1>4 DEF Kernel, SameCounts, SameRoles, SameSuspended, SameUnblock
  <2> QED
    BY <1>1, <2>1, <2>2 DEF Relisted
<1> QED
  BY <1>2, <1>4

LEMMA UnlistUpdates ==
  ASSUME k \in Kernel, NEW x,
         k' = [k EXCEPT !.ready = @ \ {x},
                        !.list = [n \in {1, 2} |-> Without(k.list[n], {x})]]
  PROVE  /\ k' \in Kernel /\ k'.ready = k.ready \ {x} /\ k'.wake = k.wake
         /\ \A n \in {1, 2} : k'.list[n] = Without(k.list[n], {x})
         /\ SameCounts /\ SameRoles /\ SameSuspended /\ SameUnblock
<1> DEFINE r == k.ready \ {x}
           l == [n \in {1, 2} |-> Without(k.list[n], {x})]
<1>1. ASSUME NEW n \in {1, 2} PROVE Without(k.list[n], {x}) \in Seq(Tasks)
  <2>1. k.list[n] \in Seq(Tasks)
    BY KernelTyped
  <2> QED
    BY <2>1, WithoutEntries
<1>2. \A n \in {1, 2} : l[n] = Without(k.list[n], {x})
  OBVIOUS
<1>8. l \in [{1, 2} -> Seq(Tasks)]
  BY <1>1
<1>3. k' = [k EXCEPT !.ready = r, !.list = l]
  OBVIOUS
<1>4. r \in SUBSET Tasks
  BY KernelTyped
<1>9. r = k.ready \ {x}
  OBVIOUS
<1> HIDE DEF l, r
<1>5. k' \in Kernel
  BY <1>3, <1>4, <1>8, Zenon DEF Kernel
<1>6. k'.ready = r /\ k'.list = l /\ k'.wake = k.wake
  BY <1>3 DEF Kernel
<1>7. SameCounts /\ SameRoles /\ SameSuspended /\ SameUnblock
  BY <1>3 DEF Kernel, SameCounts, SameRoles, SameSuspended, SameUnblock
<1> QED
  BY <1>2, <1>5, <1>6, <1>7, <1>9

LEMMA ReadyUpdates ==
  ASSUME k \in Kernel, NEW x \in Tasks, k' = [k EXCEPT !.ready = @ \cup {x}]
  PROVE  /\ k' \in Kernel /\ k'.ready = k.ready \cup {x} /\ k'.wake = k.wake
         /\ k'.list = k.list
         /\ SameCounts /\ SameRoles /\ SameSuspended /\ SameUnblock
<1>1. k.ready \cup {x} \in SUBSET Tasks
  BY KernelTyped
<1>2. k' = [k EXCEPT !.ready = k.ready \cup {x}]
  OBVIOUS
<1>3. k' \in Kernel
  BY <1>1, <1>2 DEF Kernel
<1>4. k'.ready = k.ready \cup {x} /\ k'.wake = k.wake /\ k'.list = k.list
  BY <1>2 DEF Kernel
<1>5. SameCounts /\ SameRoles /\ SameSuspended /\ SameUnblock
  BY <1>2 DEF Kernel, SameCounts, SameRoles, SameSuspended, SameUnblock
<1> QED
  BY <1>3, <1>4, <1>5

LEMMA SleepUpdates ==
  ASSUME k \in Kernel, NEW x \in Tasks, NEW v \in Nat,
         k' = [k EXCEPT !.ready = @ \ {x}, !.wake[x] = v]
  PROVE  /\ k' \in Kernel /\ k'.ready = k.ready \ {x} /\ k'.wake[x] = v
         /\ \A t \in Tasks \ {x} : k'.wake[t] = k.wake[t]
         /\ k'.list = k.list /\ SameCounts /\ SameRoles /\ SameSuspended /\ SameUnblock
<1> DEFINE w == [k.wake EXCEPT ![x] = v]
<1>1. w \in [Tasks -> Nat] /\ w[x] = v /\ \A t \in Tasks \ {x} : w[t] = k.wake[t]
  BY KernelTyped
<1>2. k' = [k EXCEPT !.ready = k.ready \ {x}, !.wake = w]
  OBVIOUS
<1> HIDE DEF w
<1>3. k.ready \ {x} \in SUBSET Tasks
  BY KernelTyped
<1>4. k' \in Kernel
  BY <1>1, <1>2, <1>3 DEF Kernel
<1>5. k'.ready = k.ready \ {x} /\ k'.wake = w /\ k'.list = k.list
  BY <1>2 DEF Kernel
<1>6. SameCounts /\ SameRoles /\ SameSuspended /\ SameUnblock
  BY <1>2 DEF Kernel, SameCounts, SameRoles, SameSuspended, SameUnblock
<1> QED
  BY <1>1, <1>4, <1>5, <1>6

(* What becomes of the locals of the call: but for those of F they stay.    *)
Fields == {"op", "asked", "left", "target", "start", "entered", "overflows", "expired"}
KeepsLocals(F) ==
  /\ call' \in [Tasks -> Locals] /\ \A t \in Tasks \ {running} : call'[t] = call[t]
  /\ \A g \in Fields \ F : call'[running][g] = call[running][g]

LEMMA NoteOverflows ==
  ASSUME call \in [Tasks -> Locals], running \in Tasks, NEW v \in Nat,
         Note("overflows", v)
  PROVE  KeepsLocals({"overflows"}) /\ call'[running].overflows = v
<1> DEFINE r == [call[running] EXCEPT !.overflows = v]
<1>1. r \in Locals /\ r.overflows = v /\ \A g \in Fields \ {"overflows"} : r[g] = call[running][g]
  BY DEF Locals, Fields
<1>2. call' = [call EXCEPT ![running] = r]
  BY DEF Note
<1> HIDE DEF r
<1>3. /\ call' \in [Tasks -> Locals] /\ call'[running] = r
      /\ \A t \in Tasks \ {running} : call'[t] = call[t]
  BY <1>1, <1>2
<1> QED
  BY <1>1, <1>3 DEF KeepsLocals

LEMMA NoteEntered ==
  ASSUME call \in [Tasks -> Locals], running \in Tasks, NEW v \in Nat,
         Note("entered", v)
  PROVE  KeepsLocals({"entered"}) /\ call'[running].entered = v
<1> DEFINE r == [call[running] EXCEPT !.entered = v]
<1>1. r \in Locals /\ r.entered = v /\ \A g \in Fields \ {"entered"} : r[g] = call[running][g]
  BY DEF Locals, Fields
<1>2. call' = [call EXCEPT ![running] = r]
  BY DEF Note
<1> HIDE DEF r
<1>3. /\ call' \in [Tasks -> Locals] /\ call'[running] = r
      /\ \A t \in Tasks \ {running} : call'[t] = call[t]
  BY <1>1, <1>2
<1> QED
  BY <1>1, <1>3 DEF KeepsLocals

LEMMA NoteTarget ==
  ASSUME call \in [Tasks -> Locals], running \in Tasks, NEW v \in Nat,
         Note("target", v)
  PROVE  KeepsLocals({"target"}) /\ call'[running].target = v
<1> DEFINE r == [call[running] EXCEPT !.target = v]
<1>1. r \in Locals /\ r.target = v /\ \A g \in Fields \ {"target"} : r[g] = call[running][g]
  BY DEF Locals, Fields
<1>2. call' = [call EXCEPT ![running] = r]
  BY DEF Note
<1> HIDE DEF r
<1>3. /\ call' \in [Tasks -> Locals] /\ call'[running] = r
      /\ \A t \in Tasks \ {running} : call'[t] = call[t]
  BY <1>1, <1>2
<1> QED
  BY <1>1, <1>3 DEF KeepsLocals

LEMMA NoteLeft ==
  ASSUME call \in [Tasks -> Locals], running \in Tasks, NEW v \in 0 .. portMAX_DELAY,
         Note("left", v)
  PROVE  KeepsLocals({"left"}) /\ call'[running].left = v
<1> DEFINE r == [call[running] EXCEPT !.left = v]
<1>1. r \in Locals /\ r.left = v /\ \A g \in Fields \ {"left"} : r[g] = call[running][g]
  BY DEF Locals, Fields
<1>2. call' = [call EXCEPT ![running] = r]
  BY DEF Note
<1> HIDE DEF r
<1>3. /\ call' \in [Tasks -> Locals] /\ call'[running] = r
      /\ \A t \in Tasks \ {running} : call'[t] = call[t]
  BY <1>1, <1>2
<1> QED
  BY <1>1, <1>3 DEF KeepsLocals

LEMMA NoteExpired ==
  ASSUME call \in [Tasks -> Locals], running \in Tasks, Note("expired", TRUE)
  PROVE  KeepsLocals({"expired"}) /\ call'[running].expired = TRUE
<1> DEFINE r == [call[running] EXCEPT !.expired = TRUE]
<1>1. r \in Locals /\ r.expired = TRUE /\ \A g \in Fields \ {"expired"} : r[g] = call[running][g]
  BY DEF Locals, Fields
<1>2. call' = [call EXCEPT ![running] = r]
  BY DEF Note
<1> HIDE DEF r
<1>3. /\ call' \in [Tasks -> Locals] /\ call'[running] = r
      /\ \A t \in Tasks \ {running} : call'[t] = call[t]
  BY <1>1, <1>2
<1> QED
  BY <1>1, <1>3 DEF KeepsLocals

LEMMA NoteStart ==
  ASSUME call \in [Tasks -> Locals], running \in Tasks, NEW v \in Nat,
         call' = [call EXCEPT ![running].entered = v, ![running].start = v]
  PROVE  /\ KeepsLocals({"entered", "start"})
         /\ call'[running].entered = v /\ call'[running].start = v
<1> DEFINE r == [call[running] EXCEPT !.entered = v, !.start = v]
<1>1. /\ r \in Locals /\ r.entered = v /\ r.start = v
      /\ \A g \in Fields \ {"entered", "start"} : r[g] = call[running][g]
  BY DEF Locals, Fields
<1>2. call' = [call EXCEPT ![running] = r]
  OBVIOUS
<1> HIDE DEF r
<1>3. /\ call' \in [Tasks -> Locals] /\ call'[running] = r
      /\ \A t \in Tasks \ {running} : call'[t] = call[t]
  BY <1>1, <1>2
<1> QED
  BY <1>1, <1>3 DEF KeepsLocals

LEMMA InsertFound ==
  ASSUME k \in Kernel, NEW s \in Seq(Tasks), NEW t \in Tasks
  PROVE  \E n \in 0 .. Len(s) :
           /\ InsertByWake(s, t) = InsertAt(s, n + 1, t)
           /\ \A m \in 1 .. n : W(k.wake[s[m]]) <= W(k.wake[t])
           /\ n < Len(s) => W(k.wake[s[n + 1]]) > W(k.wake[t])
<1> DEFINE before(x) == W(k.wake[x]) <= W(k.wake[t])
           P(n) == /\ \A m \in 1 .. n : before(s[m])
                   /\ n < Len(s) => ~before(s[n + 1])
           n0 == CHOOSE n \in 0 .. Len(s) : P(n)
           f == [m \in 1 .. Len(s) |-> W(k.wake[s[m]])]
<1>1. Len(s) \in Nat /\ \A m \in 1 .. Len(s) : s[m] \in Tasks
  OBVIOUS
<1>2. \A x \in Tasks : W(k.wake[x]) \in Int
  BY KernelTyped, Wrapping
<1>3. \A m \in 1 .. Len(s) : f[m] \in Int /\ f[m] = W(k.wake[s[m]])
  BY <1>1, <1>2
<1>4. W(k.wake[t]) \in Int
  BY <1>2
<1> HIDE DEF f
<1>5. PICK n \in 0 .. Len(s) : /\ \A m \in 1 .. n : f[m] <= W(k.wake[t])
                               /\ n < Len(s) => f[n + 1] > W(k.wake[t])
  BY <1>1, <1>3, <1>4, SortedPlace
<1>6. P(n)
  <2>1. \A m \in 1 .. n : m \in 1 .. Len(s)
    BY <1>1
  <2>2. \A m \in 1 .. n : before(s[m])
    BY <1>3, <1>5, <2>1
  <2>3. ASSUME n < Len(s) PROVE ~before(s[n + 1])
    <3>1. n + 1 \in 1 .. Len(s)
      BY <1>1, <2>3
    <3>2. f[n + 1] = W(k.wake[s[n + 1]]) /\ f[n + 1] \in Int /\ f[n + 1] > W(k.wake[t])
      BY <1>3, <1>5, <2>3, <3>1
    <3> QED
      BY <1>4, <3>2
  <2> QED
    BY <2>2, <2>3
<1>7. n0 \in 0 .. Len(s) /\ P(n0)
  BY <1>6
<1>8. InsertByWake(s, t) = InsertAt(s, n0 + 1, t)
  BY DEF InsertByWake
<1> HIDE DEF n0, P
<1>9. PICK j \in 0 .. Len(s) : P(j) /\ InsertByWake(s, t) = InsertAt(s, j + 1, t)
  BY <1>7, <1>8
<1>10. ASSUME j < Len(s) PROVE W(k.wake[s[j + 1]]) > W(k.wake[t])
  <2>1. j + 1 \in 1 .. Len(s) /\ ~(W(k.wake[s[j + 1]]) <= W(k.wake[t]))
    BY <1>1, <1>9, <1>10 DEF P
  <2>2. W(k.wake[s[j + 1]]) \in Int
    BY <1>1, <1>2, <2>1
  <2> QED
    BY <1>4, <2>1, <2>2
<1>11. \A m \in 1 .. j : W(k.wake[s[m]]) <= W(k.wake[t])
  BY <1>9 DEF P
<1> QED
  BY <1>9, <1>10, <1>11

LEMMA InsertJoins ==
  ASSUME k \in Kernel, NEW s \in Seq(Tasks), NEW t \in Tasks
  PROVE  /\ InsertByWake(s, t) \in Seq(Tasks)
         /\ IsInjective(s) /\ t \notin ToSet(s) =>
              /\ IsInjective(InsertByWake(s, t))
              /\ ToSet(InsertByWake(s, t)) = ToSet(s) \cup {t}
<1>1. PICK n \in 0 .. Len(s) : InsertByWake(s, t) = InsertAt(s, n + 1, t)
  BY InsertFound
<1>2. InsertAt(s, n + 1, t) \in Seq(Tasks)
  BY InsertEntries
<1>3. ASSUME IsInjective(s), t \notin ToSet(s)
      PROVE  /\ IsInjective(InsertAt(s, n + 1, t))
             /\ ToSet(InsertAt(s, n + 1, t)) = ToSet(s) \cup {t}
  BY <1>3, InsertNew
<1> QED
  BY <1>1, <1>2, <1>3

-----------------------------------------------------------------------------
(* Types.                                                                   *)

(* How vTaskIncrementTick changes the kernel's variables.                   *)
KernelChange(c) ==
  \/ /\ pc[c] \notin {"counted", "missed", "swap", "swapped", "set", "newset", "unlist", "move"}
     /\ UNCHANGED k
  \/ pc[c] = "counted" /\ k' = [k EXCEPT !.ticks = tmp[c] + 1]
  \/ pc[c] = "missed" /\ k' = [k EXCEPT !.missed = tmp[c] + 1]
  \/ pc[c] = "swap" /\ k' = [k EXCEPT !.delayed = k.overflow]
  \/ pc[c] = "swapped" /\ k' = [k EXCEPT !.overflow = tmp[c], !.overflows = @ + 1]
  \/ pc[c] \in {"set", "newset"} /\ k' = [k EXCEPT !.unblock = tmp[c]]
  \/ /\ pc[c] = "unlist"
     /\ k' = [k EXCEPT !.ready = @ \ {hand[c]},
                       !.list = [n \in {1, 2} |-> Without(k.list[n], {hand[c]})]]
  \/ pc[c] = "move" /\ k' = [k EXCEPT !.ready = @ \cup {hand[c]}]

LEMMA KernelChanges ==
  ASSUME NEW c, IncrementChange(c)
  PROVE  KernelChange(c)
BY Zenon DEF IncrementChange, CountingChange, WakingChange, HeadChange, ValueChange, DueChange,
   SetChange, UnlistChange, ReadyChange, KernelChange

LEMMA TypedIncrement ==
  ASSUME Typed, Placed, Housed, NEW c \in {0, 1}, IncrementChange(c)
  PROVE  Typed'
<1>1. k \in Kernel /\ tmp \in [{0, 1} -> Nat] /\ slipped \in BOOLEAN
  BY DEF Typed
<1>2. /\ tmp[c] \in Nat /\ k.ticks \in Nat /\ k.missed \in Nat /\ k.delayed \in {1, 2}
      /\ k.overflow \in {1, 2} /\ k.list[k.delayed] \in Seq(Tasks)
      /\ tmp[c] + 1 \in Nat /\ k.delayed \in Nat
  BY <1>1, KernelTyped
<1>10. portMAX_DELAY \in Nat /\ asleep \subseteq Tasks /\ clashed \in BOOLEAN
       /\ hand \in [{0, 1} -> Tasks \cup {NoTask}]
  BY TickAssumption DEF portMAX_DELAY, Typed
<1>3. k' \in Kernel
  <2>1. CASE UNCHANGED k
    BY <1>1, <2>1
  <2>2. CASE k' = [k EXCEPT !.ticks = tmp[c] + 1] \/ k' = [k EXCEPT !.missed = tmp[c] + 1]
    BY <1>1, <1>2, <2>2, KernelUpdates
  <2>3. CASE k' = [k EXCEPT !.delayed = k.overflow]
    BY <1>1, <1>2, <2>3, RoleUpdates
  <2>4. CASE pc[c] = "swapped" /\ k' = [k EXCEPT !.overflow = tmp[c], !.overflows = @ + 1]
    <3>1. tmp[c] \in {1, 2}
      BY <2>4 DEF Placed
    <3> QED
      BY <1>1, <2>4, <3>1, RoleUpdates
  <2>5. CASE pc[c] \in {"set", "newset"} /\ k' = [k EXCEPT !.unblock = tmp[c]]
    <3>1. tmp[c] \in 0 .. portMAX_DELAY
      BY <1>2, <1>10, <2>5 DEF Placed
    <3> QED
      BY <1>1, <2>5, <3>1, KernelUpdates
  <2>6. CASE k' = [k EXCEPT !.ready = @ \ {hand[c]},
                            !.list = [n \in {1, 2} |-> Without(k.list[n], {hand[c]})]]
    BY <1>1, <2>6, UnlistUpdates, Zenon
  <2>7. CASE pc[c] = "move" /\ k' = [k EXCEPT !.ready = @ \cup {hand[c]}]
    <3>1. hand[c] \in Tasks
      BY <2>7 DEF Housed
    <3> QED
      BY <1>1, <2>7, <3>1, ReadyUpdates
  <2> QED
    BY <2>1, <2>2, <2>3, <2>4, <2>5, <2>6, <2>7, KernelChanges, Zenon DEF KernelChange
<1>4. tmp' \in [{0, 1} -> Nat]
  <2>1. \/ UNCHANGED tmp
        \/ \E v \in {k.ticks, k.missed, k.delayed, portMAX_DELAY, W(k.wake[hand[c]])} :
             Read(c, v) /\ (v = W(k.wake[hand[c]]) => pc[c] \in {"value", "newvalue"} \/ v \in Nat)
    BY <1>2, <1>10, Zenon DEF IncrementChange, CountingChange, WakingChange, HeadChange, ValueChange, DueChange,
   SetChange, UnlistChange, ReadyChange
  <2>2. pc[c] \in {"value", "newvalue"} => W(k.wake[hand[c]]) \in Nat
    <3>1. pc[c] \in {"value", "newvalue"} => k.wake[hand[c]] \in Int
      BY <1>1, KernelTyped DEF Housed
    <3> QED
      BY <3>1, Wrapping
  <2> QED
    BY <1>1, <1>2, <1>10, <2>1, <2>2, ReadTyped
<1>5. slipped' \in BOOLEAN
  <2>1. UNCHANGED slipped \/ \E x : Overwrites(c, x)
    BY Zenon DEF IncrementChange, CountingChange, WakingChange, HeadChange, ValueChange, DueChange,
   SetChange, UnlistChange, ReadyChange
  <2> QED
    BY <1>1, <2>1 DEF Overwrites
<1>6. pc' \in [{0, 1} -> Places]
  <2>1. \E to : Moves(c, to)
    BY Zenon DEF IncrementChange, CountingChange, WakingChange, HeadChange, ValueChange, DueChange,
   SetChange, UnlistChange, ReadyChange
  <2> QED
    BY <2>1 DEF Moves
<1>7. UNCHANGED <<task, interrupts>>
  BY Zenon DEF IncrementChange, CountingChange, WakingChange, HeadChange, ValueChange, DueChange,
   SetChange, UnlistChange, ReadyChange
<1>8. hand' \in [{0, 1} -> Tasks \cup {NoTask}]
  <2>1. \/ UNCHANGED hand \/ hand' = [hand EXCEPT ![c] = NoTask]
        \/ /\ k.list[k.delayed] # <<>>
           /\ hand' = [hand EXCEPT ![c] = Head(k.list[k.delayed])]
    BY Zenon DEF IncrementChange, CountingChange, WakingChange, HeadChange, ValueChange, DueChange,
   SetChange, UnlistChange, ReadyChange, waking
  <2>2. k.list[k.delayed] # <<>> => Head(k.list[k.delayed]) \in Tasks
    BY <1>2
  <2> QED
    BY <1>10, <2>1, <2>2
<1>9. asleep' \subseteq Tasks /\ clashed' \in BOOLEAN
  <2>1. /\ UNCHANGED asleep \/ asleep' = asleep \ {hand[c]}
        /\ \/ UNCHANGED clashed \/ clashed' = TRUE
           \/ clashed' = (/\ hand[c] \notin k.ready \cup asleep
                          /\ \A n \in {1, 2} : hand[c] \notin ToSet(k.list[n]))
    BY Zenon DEF IncrementChange, CountingChange, WakingChange, HeadChange, ValueChange, DueChange,
   SetChange, UnlistChange, ReadyChange, waking
  <2> QED
    BY <1>10, <2>1
<1> QED
  BY <1>3, <1>4, <1>5, <1>6, <1>7, <1>8, <1>9 DEF Typed, task

(* How a step of a call changes the kernel's variables, ...                 *)
CallKernelChange ==
  \/ pc[0] \notin {"suspend", "sleep", "later", "insert", "lower", "resume", "unmiss"} /\ UNCHANGED k
  \/ pc[0] = "suspend" /\ k' = [k EXCEPT !.suspended = @ + 1]
  \/ pc[0] = "sleep" /\ k' = [k EXCEPT !.ready = @ \ {running}, !.wake[running] = Mine.target]
  \/ pc[0] = "later" /\ k' = [k EXCEPT !.list[k.overflow] = InsertByWake(@, running)]
  \/ pc[0] = "insert" /\ k' = [k EXCEPT !.list[k.delayed] = InsertByWake(@, running)]
  \/ pc[0] = "lower" /\ k' = [k EXCEPT !.unblock = W(Mine.target)]
  \/ pc[0] = "resume" /\ k' = [k EXCEPT !.suspended = @ - 1]
  \/ pc[0] = "unmiss" /\ k' = [k EXCEPT !.missed = tmp[0] - 1]

LEMMA CallKernelChanges == CallChange => CallKernelChange
BY Zenon DEF CallChange, CallNotes, CallGoesOn, CallReads, CallDecides, CallUpdates,
   CallForever, CallUnmisses, CallReturns, CallKernelChange

(* ... and the locals.                                                      *)
CallLocalsChange ==
  \/ /\ pc[0] \notin {"enter", "reenter", "entered", "reentered", "left", "target", "decide"}
     /\ UNCHANGED call
  \/ pc[0] \in {"enter", "reenter"} /\ Note("overflows", k.overflows)
  \/ /\ pc[0] = "entered"
     /\ call' = [call EXCEPT ![running].entered = k.ticks, ![running].start = k.ticks]
  \/ pc[0] = "reentered" /\ Note("entered", k.ticks)
  \/ /\ pc[0] \in {"passed", "elapsed"} /\ Note("expired", TRUE)
     /\ pc[0] = "passed" => tmp[0] # Mine.overflows
     /\ pc[0] = "elapsed" => ~(W(k.ticks - Mine.entered) < Mine.left)
  \/ pc[0] = "left" /\ Note("left", W(Mine.left - W(k.ticks - Mine.entered)))
  \/ pc[0] = "target" /\ Note("target", k.ticks + Mine.left)
  \/ pc[0] = "decide" /\ Note("target", previous[running] + Mine.asked)
  \/ pc[0] = "unwind" /\ Own(IF Mine.op = "wait" /\ ~Mine.expired THEN Mine ELSE NoCall)

LEMMA CallLocalsChanges == CallChange => CallLocalsChange
BY Zenon DEF CallChange, CallNotes, CallGoesOn, CallReads, CallDecides, CallUpdates,
   CallForever, CallUnmisses, CallReturns, CallLocalsChange, task

LEMMA LocalsTyped ==
  ASSUME call \in [Tasks -> Locals], NEW t \in Tasks
  PROVE  /\ call[t].op \in Operations \cup {"none"} /\ call[t].asked \in 0 .. portMAX_DELAY
         /\ call[t].left \in 0 .. portMAX_DELAY /\ call[t].target \in Nat
         /\ call[t].start \in Nat /\ call[t].entered \in Nat /\ call[t].overflows \in Nat
         /\ call[t].expired \in BOOLEAN
BY DEF Locals

LEMMA NoCallTyped ==
  /\ NoCall \in Locals /\ NoCall.op = "none" /\ NoCall.asked = 0 /\ NoCall.left = 0
  /\ NoCall.target = 0 /\ NoCall.start = 0 /\ NoCall.entered = 0 /\ NoCall.overflows = 0
  /\ NoCall.expired = FALSE
BY TickAssumption DEF NoCall, Locals, portMAX_DELAY

LEMMA TypedCall ==
  ASSUME Typed, Placed, running \in Tasks, CallChange
  PROVE  Typed'
<1>1. /\ k \in Kernel /\ tmp \in [{0, 1} -> Nat] /\ slipped \in BOOLEAN
      /\ call \in [Tasks -> Locals] /\ previous \in [Tasks -> Nat]
  BY DEF Typed
<1>2. /\ tmp[0] \in Nat /\ k.ticks \in Nat /\ k.missed \in Nat /\ k.overflows \in Nat
      /\ k.delayed \in {1, 2} /\ k.overflow \in {1, 2} /\ \A n \in {1, 2} : k.list[n] \in Seq(Tasks)
      /\ Mine.target \in Nat /\ Mine.left \in 0 .. portMAX_DELAY
      /\ Mine.asked \in 0 .. portMAX_DELAY /\ Mine.entered \in Nat
      /\ previous[running] \in Nat
  BY <1>1, KernelTyped, LocalsTyped DEF Mine
<1>3. k' \in Kernel
  <2>1. CASE UNCHANGED k
    BY <1>1, <2>1
  <2>2. CASE pc[0] = "suspend" /\ k' = [k EXCEPT !.suspended = @ + 1]
    <3>1. k.suspended = 0
      BY <2>2 DEF Placed, Deciding, Asleep, Joined
    <3>2. k' = [k EXCEPT !.suspended = 1]
      BY <2>2, <3>1
    <3> QED
      BY <1>1, <3>2, KernelUpdates
  <2>3. CASE k' = [k EXCEPT !.ready = @ \ {running}, !.wake[running] = Mine.target]
    BY <1>1, <1>2, <2>3, SleepUpdates, Zenon
  <2>4. ASSUME NEW n \in {1, 2}, k' = [k EXCEPT !.list[n] = InsertByWake(@, running)]
        PROVE  k' \in Kernel
    <3>1. InsertByWake(k.list[n], running) \in Seq(Tasks)
      BY <1>1, <1>2, InsertJoins
    <3>2. k' = [k EXCEPT !.list[n] = InsertByWake(k.list[n], running)]
      BY <2>4
    <3> QED
      BY <1>1, <3>1, <3>2, ListUpdates
  <2>5. CASE k' = [k EXCEPT !.unblock = W(Mine.target)]
    <3>1. W(Mine.target) \in 0 .. portMAX_DELAY
      <4>1. Mine.target \in Int
        BY <1>2
      <4> QED
        BY <4>1, Wrapping
    <3> QED
      BY <1>1, <2>5, <3>1, KernelUpdates
  <2>6. CASE pc[0] = "resume" /\ k' = [k EXCEPT !.suspended = @ - 1]
    <3>1. k.suspended = 1
      BY <2>6 DEF Placed, Deciding, Asleep, Joined
    <3>2. k' = [k EXCEPT !.suspended = 0]
      BY <2>6, <3>1
    <3> QED
      BY <1>1, <3>2, KernelUpdates
  <2>7. CASE pc[0] = "unmiss" /\ k' = [k EXCEPT !.missed = tmp[0] - 1]
    <3>1. tmp[0] - 1 \in Nat
      BY <1>2, <2>7 DEF Placed
    <3> QED
      BY <1>1, <2>7, <3>1, KernelUpdates
  <2> QED
    BY <1>2, <2>1, <2>2, <2>3, <2>4, <2>5, <2>6, <2>7, CallKernelChanges, Zenon
       DEF CallKernelChange
<1>4. tmp' \in [{0, 1} -> Nat]
  <2>1. UNCHANGED tmp \/ \E v \in {k.ticks, k.overflows, k.missed} : Read(0, v)
    BY Zenon DEF CallChange, CallNotes, CallGoesOn, CallReads, CallDecides, CallUpdates,
   CallForever, CallUnmisses, CallReturns
  <2> QED
    BY <1>1, <1>2, <2>1, ReadTyped
<1>5. slipped' \in BOOLEAN
  <2>1. UNCHANGED slipped \/ Overwrites(0, k.missed)
    BY Zenon DEF CallChange, CallNotes, CallGoesOn, CallReads, CallDecides, CallUpdates,
   CallForever, CallUnmisses, CallReturns
  <2> QED
    BY <1>1, <2>1 DEF Overwrites
<1>6. pc' \in [{0, 1} -> Places]
  <2>1. \E to : Moves(0, to)
    BY Zenon DEF CallChange, CallNotes, CallGoesOn, CallReads, CallDecides, CallUpdates,
   CallForever, CallUnmisses, CallReturns
  <2> QED
    BY <2>1 DEF Moves
<1>7. call' \in [Tasks -> Locals]
  <2>1. CASE UNCHANGED call
    BY <1>1, <2>1
  <2>2. CASE Note("overflows", k.overflows)
    BY <1>1, <1>2, <2>2, NoteOverflows DEF KeepsLocals
  <2>3. CASE call' = [call EXCEPT ![running].entered = k.ticks, ![running].start = k.ticks]
    BY <1>1, <1>2, <2>3, NoteStart, Zenon DEF KeepsLocals
  <2>4. CASE Note("entered", k.ticks)
    BY <1>1, <1>2, <2>4, NoteEntered DEF KeepsLocals
  <2>5. CASE Note("expired", TRUE)
    BY <1>1, <1>2, <2>5, NoteExpired DEF KeepsLocals
  <2>6. CASE Note("left", W(Mine.left - W(k.ticks - Mine.entered)))
    <3>1. Mine.left - W(k.ticks - Mine.entered) \in Int
      <4>1. k.ticks - Mine.entered \in Int /\ Mine.left \in Int
        BY <1>2
      <4>2. W(k.ticks - Mine.entered) \in 0 .. portMAX_DELAY
        BY <4>1, Wrapping
      <4> QED
        BY <4>1, <4>2
    <3>2. W(Mine.left - W(k.ticks - Mine.entered)) \in 0 .. portMAX_DELAY
      BY <3>1, Wrapping
    <3> QED
      BY <1>1, <2>6, <3>2, NoteLeft DEF KeepsLocals
  <2>7. CASE Note("target", k.ticks + Mine.left)
    <3>1. k.ticks + Mine.left \in Nat
      BY <1>2
    <3> QED
      BY <1>1, <2>7, <3>1, NoteTarget DEF KeepsLocals
  <2>8. CASE Note("target", previous[running] + Mine.asked)
    <3>1. previous[running] + Mine.asked \in Nat
      BY <1>2
    <3> QED
      BY <1>1, <2>8, <3>1, NoteTarget DEF KeepsLocals
  <2>9. CASE Own(IF Mine.op = "wait" /\ ~Mine.expired THEN Mine ELSE NoCall)
    BY <1>1, <2>9, NoCallTyped DEF Own, Mine
  <2> QED
    BY <2>1, <2>2, <2>3, <2>4, <2>5, <2>6, <2>7, <2>8, <2>9, CallLocalsChanges, Zenon
       DEF CallLocalsChange
<1>8. previous' \in [Tasks -> Nat]
  <2>1. UNCHANGED previous \/ previous' = [previous EXCEPT ![running] = previous[running] + Mine.asked]
    BY Zenon DEF CallChange, CallNotes, CallGoesOn, CallReads, CallDecides, CallUpdates,
   CallForever, CallUnmisses, CallReturns, task
  <2>2. previous[running] + Mine.asked \in Nat
    BY <1>2
  <2> QED
    BY <1>1, <2>1, <2>2
<1>9. running' \in Tasks \cup {NoTask} /\ UNCHANGED interrupts
  <2>1. UNCHANGED running \/ running' \in k.ready \cup (IF k.ready = {} THEN {NoTask} ELSE {})
    BY Zenon DEF CallChange, CallNotes, CallGoesOn, CallReads, CallDecides, CallUpdates,
   CallForever, CallUnmisses, CallReturns, task
  <2>2. UNCHANGED interrupts
    BY DEF CallChange
  <2> QED
    BY <1>1, <2>1, <2>2, KernelTyped
<1>10. /\ UNCHANGED hand /\ asleep' \subseteq Tasks /\ clashed' \in BOOLEAN
  <2>1. /\ UNCHANGED hand
        /\ UNCHANGED asleep \/ asleep' = asleep \cup {running}
        /\ UNCHANGED clashed \/ clashed' = (running \notin k.ready)
    BY Zenon DEF CallChange, CallNotes, CallGoesOn, CallReads, CallDecides, CallUpdates,
     CallForever, CallUnmisses, CallReturns,
       waking
  <2>2. asleep \subseteq Tasks /\ clashed \in BOOLEAN
    BY DEF Typed
  <2> QED
    BY <2>1, <2>2
<1> QED
  BY <1>3, <1>4, <1>5, <1>6, <1>7, <1>8, <1>9, <1>10 DEF Typed

(* The other steps: the tick interrupt comes and goes, and a task calls.    *)
OtherChange ==
  /\ UNCHANGED <<k, tmp, running, previous, slipped, waking>>
  /\ \/ /\ pc[1] = "idle" /\ Moves(1, "tick") /\ interrupts' = interrupts + 1
        /\ UNCHANGED call
     \/ pc[1] = "ticked" /\ Moves(1, "idle") /\ UNCHANGED <<call, interrupts>>
     \/ /\ pc[0] = "run" /\ running \in Tasks /\ UNCHANGED interrupts
        /\ \E to \in {"enter", "suspend"} : Moves(0, to)
        /\ \E op \in Operations, n \in 1 .. portMAX_DELAY :
             Own([NoCall EXCEPT !.op = op, !.asked = n, !.left = n])

LEMMA NextChanges ==
  ASSUME Typed, Next
  PROVE  /\ ~clashed
         /\ \/ \E c \in {0, 1} : IncrementChange(c)
            \/ running \in Tasks /\ CallChange
            \/ OtherChange
<1>1. pc \in [{0, 1} -> Places]
  BY DEF Typed
<1>2. {"tick", "idle", "enter", "suspend"} \subseteq Places
  BY DEF Places, Uncounted, Entering
<1>3. ASSUME TickInterrupt \/ TickReturns PROVE OtherChange
  <2>1. ASSUME NEW to \in Places, NEW from, Step(1, from, to) PROVE pc[1] = from /\ Moves(1, to)
    BY <1>1, <2>1, StepMoves
  <2>2. /\ UNCHANGED <<k, tmp, task, slipped, waking>>
        /\ \/ Step(1, "idle", "tick") /\ interrupts' = interrupts + 1
           \/ Step(1, "ticked", "idle") /\ UNCHANGED interrupts
    BY <1>3, Zenon DEF TickInterrupt, TickReturns
  <2>3. /\ UNCHANGED <<k, tmp, running, previous, slipped, waking>>
        /\ UNCHANGED call
    BY <2>2, Zenon DEF task
  <2>4. \/ /\ pc[1] = "idle" /\ Moves(1, "tick") /\ interrupts' = interrupts + 1
        \/ pc[1] = "ticked" /\ Moves(1, "idle") /\ UNCHANGED interrupts
    BY <1>2, <2>1, <2>2, Zenon
  <2> QED
    BY <2>3, <2>4 DEF OtherChange
<1>4. ASSUME NEW c \in Calls, Call(c[1], c[2], c[3]) PROVE OtherChange
  <2>1. c[1] \in Tasks /\ c[2] \in Operations /\ c[3] \in 1 .. portMAX_DELAY
    BY TickAssumption DEF portMAX_DELAY
  <2>2. ASSUME NEW to \in Places, NEW from, Step(0, from, to) PROVE pc[0] = from /\ Moves(0, to)
    BY <1>1, <2>2, StepMoves
  <2>3. \E to \in {"enter", "suspend"} : Step(0, "run", to)
    BY <1>4, Zenon DEF Call
  <2>4. pc[0] = "run" /\ \E to \in {"enter", "suspend"} : Moves(0, to)
    BY <1>2, <2>2, <2>3
  <2>5. running = c[1] /\ UNCHANGED <<k, tmp, running, previous, interrupts, slipped, waking>>
    BY <1>4, Zenon DEF Call
  <2>6. Own([NoCall EXCEPT !.op = c[2], !.asked = c[3], !.left = c[3]])
    BY <1>4, <2>5, Zenon DEF Call, Own
  <2> QED
    BY <2>1, <2>4, <2>5, <2>6, Zenon DEF OtherChange
<1> QED
  BY <1>1, <1>3, <1>4, IncrementChanges, CallChanges, Zenon DEF Next

LEMMA CalledTyped ==
  ASSUME NEW op \in Operations, NEW n \in 1 .. portMAX_DELAY
  PROVE  LET r == [NoCall EXCEPT !.op = op, !.asked = n, !.left = n]
         IN  /\ r \in Locals /\ r.op = op /\ r.asked = n /\ r.left = n /\ r.start = 0
             /\ r.entered = 0 /\ r.overflows = 0 /\ r.expired = FALSE
<1>1. n \in 0 .. portMAX_DELAY
  BY TickAssumption DEF portMAX_DELAY
<1> QED
  BY <1>1 DEF NoCall, Locals

LEMMA OwnUpdates ==
  ASSUME call \in [Tasks -> Locals], running \in Tasks, NEW r \in Locals, Own(r)
  PROVE  /\ call' \in [Tasks -> Locals] /\ call'[running] = r
         /\ \A t \in Tasks \ {running} : call'[t] = call[t]
BY DEF Own

LEMMA TypedOther ==
  ASSUME Typed, OtherChange
  PROVE  Typed'
<1>1. call' \in [Tasks -> Locals]
  <2>1. CASE UNCHANGED call
    BY <2>1 DEF Typed
  <2>2. ASSUME running \in Tasks, NEW op \in Operations, NEW n \in 1 .. portMAX_DELAY,
               Own([NoCall EXCEPT !.op = op, !.asked = n, !.left = n])
        PROVE  call' \in [Tasks -> Locals]
    <3>1. [NoCall EXCEPT !.op = op, !.asked = n, !.left = n] \in Locals
      BY CalledTyped
    <3> QED
      BY <2>2, <3>1, OwnUpdates, Zenon DEF Typed
  <2> QED
    BY <2>1, <2>2, Zenon DEF OtherChange
<1>2. pc' \in [{0, 1} -> Places]
  <2>1. \E c, to : Moves(c, to)
    BY Zenon DEF OtherChange
  <2> QED
    BY <2>1 DEF Moves
<1>3. interrupts' \in Nat
  <2>1. interrupts' = interrupts \/ interrupts' = interrupts + 1
    BY Zenon DEF OtherChange
  <2> QED
    BY <2>1 DEF Typed
<1>4. UNCHANGED <<k, tmp, running, previous, slipped, waking>>
  BY Zenon DEF OtherChange
<1> QED
  BY <1>1, <1>2, <1>3, <1>4 DEF Typed, waking

-----------------------------------------------------------------------------
(* The counts and the places.                                               *)

LEMMA IncrementCounts ==
  ASSUME Typed, Placed, Housed, NEW c \in {0, 1}, IncrementChange(c)
  PROVE  /\ k'.ticks = IF pc[c] = "counted" THEN tmp[c] + 1 ELSE k.ticks
         /\ k'.missed = IF pc[c] = "missed" THEN tmp[c] + 1 ELSE k.missed
         /\ SameSuspended
<1>1. k \in Kernel /\ tmp[c] \in Nat /\ tmp[c] + 1 \in Nat
  BY DEF Typed
<1>2. k.delayed \in {1, 2} /\ k.overflow \in {1, 2} /\ portMAX_DELAY \in Nat
  BY <1>1, KernelTyped, TickAssumption DEF portMAX_DELAY
<1>3. CASE /\ pc[c] \notin {"counted", "missed", "swap", "swapped", "set", "newset", "unlist",
                        "move"}
           /\ UNCHANGED k
  BY <1>3 DEF SameCounts, SameSuspended
<1>4. CASE pc[c] = "counted" /\ k' = [k EXCEPT !.ticks = tmp[c] + 1]
  BY <1>1, <1>4, KernelUpdates
<1>5. CASE pc[c] = "missed" /\ k' = [k EXCEPT !.missed = tmp[c] + 1]
  BY <1>1, <1>5, KernelUpdates
<1>6. CASE pc[c] = "swap" /\ k' = [k EXCEPT !.delayed = k.overflow]
  BY <1>1, <1>2, <1>6, RoleUpdates DEF SameCounts
<1>7. CASE pc[c] = "swapped" /\ k' = [k EXCEPT !.overflow = tmp[c], !.overflows = @ + 1]
  <2>1. tmp[c] \in {1, 2}
    BY <1>7 DEF Placed
  <2> QED
    BY <1>1, <1>7, <2>1, RoleUpdates DEF SameCounts
<1>8. CASE pc[c] \in {"set", "newset"} /\ k' = [k EXCEPT !.unblock = tmp[c]]
  <2>1. tmp[c] \in 0 .. portMAX_DELAY
    BY <1>1, <1>2, <1>8 DEF Placed
  <2> QED
    BY <1>1, <1>8, <2>1, KernelUpdates DEF SameCounts
<1>9. CASE /\ pc[c] = "unlist"
           /\ k' = [k EXCEPT !.ready = @ \ {hand[c]},
                             !.list = [n \in {1, 2} |-> Without(k.list[n], {hand[c]})]]
  <2>1. SameCounts /\ SameSuspended
    BY <1>1, <1>9, UnlistUpdates, Zenon
  <2> QED
    BY <1>9, <2>1 DEF SameCounts
<1>10. CASE pc[c] = "move" /\ k' = [k EXCEPT !.ready = @ \cup {hand[c]}]
  <2>1. hand[c] \in Tasks
    BY <1>10 DEF Housed
  <2> QED
    BY <1>1, <1>10, <2>1, ReadyUpdates DEF SameCounts
<1> QED
  BY <1>3, <1>4, <1>5, <1>6, <1>7, <1>8, <1>9, <1>10, KernelChanges, Zenon
     DEF KernelChange, SameCounts

LEMMA CallCounts ==
  ASSUME Typed, Placed, running \in Tasks, CallChange
  PROVE  /\ k'.ticks = k.ticks /\ SameRoles
         /\ k'.missed = IF pc[0] = "unmiss" THEN tmp[0] - 1 ELSE k.missed
         /\ k'.suspended = IF pc[0] = "suspend" THEN 1
                           ELSE IF pc[0] = "resume" THEN 0 ELSE k.suspended
<1>1. /\ k \in Kernel /\ tmp[0] \in Nat /\ Mine.target \in Nat /\ k.delayed \in {1, 2}
      /\ k.overflow \in {1, 2} /\ \A n \in {1, 2} : k.list[n] \in Seq(Tasks)
  BY LocalsTyped, KernelTyped DEF Typed, Mine
<1> DEFINE Rest == {"suspend", "sleep", "later", "insert", "lower", "resume", "unmiss"}
<1>2. CASE pc[0] \notin Rest /\ UNCHANGED k
  BY <1>2 DEF SameRoles
<1>3. CASE pc[0] = "suspend" /\ k' = [k EXCEPT !.suspended = @ + 1]
  <2>1. k.suspended = 0
    BY <1>3 DEF Placed, Deciding, Asleep, Joined
  <2>2. k' = [k EXCEPT !.suspended = 1]
    BY <1>3, <2>1
  <2> QED
    BY <1>1, <1>3, <2>2, KernelUpdates DEF SameCounts
<1>4. CASE /\ pc[0] = "sleep"
           /\ k' = [k EXCEPT !.ready = @ \ {running}, !.wake[running] = Mine.target]
  BY <1>1, <1>4, SleepUpdates, Zenon DEF SameCounts, SameSuspended
<1>5. ASSUME NEW n \in {1, 2}, pc[0] \in {"later", "insert"},
             k' = [k EXCEPT !.list[n] = InsertByWake(@, running)]
      PROVE  SameCounts /\ SameRoles /\ SameSuspended
  <2>1. InsertByWake(k.list[n], running) \in Seq(Tasks)
    BY <1>1, InsertJoins
  <2>2. k' = [k EXCEPT !.list[n] = InsertByWake(k.list[n], running)]
    BY <1>5
  <2> QED
    BY <1>1, <2>1, <2>2, ListUpdates DEF Relisted
<1>6. CASE pc[0] = "lower" /\ k' = [k EXCEPT !.unblock = W(Mine.target)]
  <2>1. W(Mine.target) \in 0 .. portMAX_DELAY
    <3>1. Mine.target \in Int
      BY <1>1
    <3> QED
      BY <3>1, Wrapping
  <2> QED
    BY <1>1, <1>6, <2>1, KernelUpdates DEF SameCounts, SameSuspended
<1>7. CASE pc[0] = "resume" /\ k' = [k EXCEPT !.suspended = @ - 1]
  <2>1. k.suspended = 1
    BY <1>7 DEF Placed, Deciding, Asleep, Joined
  <2>2. k' = [k EXCEPT !.suspended = 0]
    BY <1>7, <2>1
  <2> QED
    BY <1>1, <1>7, <2>2, KernelUpdates DEF SameCounts
<1>8. CASE pc[0] = "unmiss" /\ k' = [k EXCEPT !.missed = tmp[0] - 1]
  <2>1. tmp[0] - 1 \in Nat
    BY <1>1, <1>8 DEF Placed
  <2> QED
    BY <1>1, <1>8, <2>1, KernelUpdates DEF SameSuspended
<1>9. /\ pc[0] \in {"later", "insert"} /\ SameCounts /\ SameRoles /\ SameSuspended =>
           /\ k'.ticks = k.ticks /\ SameRoles
           /\ k'.missed = IF pc[0] = "unmiss" THEN tmp[0] - 1 ELSE k.missed
           /\ k'.suspended = IF pc[0] = "suspend" THEN 1
                             ELSE IF pc[0] = "resume" THEN 0 ELSE k.suspended
  BY DEF SameCounts, SameSuspended
<1>10. CASE pc[0] = "later" /\ k' = [k EXCEPT !.list[k.overflow] = InsertByWake(@, running)]
  BY <1>1, <1>5, <1>9, <1>10
<1>11. CASE pc[0] = "insert" /\ k' = [k EXCEPT !.list[k.delayed] = InsertByWake(@, running)]
  BY <1>1, <1>5, <1>9, <1>11
<1> QED
  BY <1>2, <1>3, <1>4, <1>6, <1>7, <1>8, <1>10, <1>11, CallKernelChanges, Zenon
     DEF CallKernelChange

(* Where a step of vTaskIncrementTick goes, ...                             *)
IncrementGoes(c, to) ==
  \/ pc[c] = "tick" /\ k.suspended = 0 /\ to = "count" /\ UNCHANGED tmp
  \/ pc[c] = "tick" /\ k.suspended # 0 /\ to = "miss" /\ UNCHANGED tmp
  \/ pc[c] = "count" /\ to = "counted" /\ Read(c, k.ticks)
  \/ pc[c] = "counted" /\ to = "wrap" /\ UNCHANGED tmp
  \/ pc[c] = "miss" /\ to = "missed" /\ Read(c, k.missed)
  \/ pc[c] = "missed" /\ to = "ticked" /\ UNCHANGED tmp
  \/ pc[c] = "wrap" /\ W(k.ticks) # 0 /\ to = "check" /\ UNCHANGED tmp
  \/ pc[c] = "wrap" /\ W(k.ticks) = 0 /\ to = "halted" /\ UNCHANGED tmp
  \/ pc[c] = "wrap" /\ W(k.ticks) = 0 /\ to = "swap" /\ Read(c, k.delayed)
  \/ /\ UNCHANGED tmp
     /\ \/ pc[c] = "check" /\ to = "ticked"
        \/ pc[c] = "check" /\ xTickCount(c) >= k.unblock /\ to = "wake"
        \/ pc[c] = "wake" /\ k.list[k.delayed] # <<>> /\ to = "head"
        \/ pc[c] = "next" /\ to = "newhead"
        \/ pc[c] = "head" /\ to = "value"
        \/ pc[c] = "newhead" /\ to = "newvalue"
        \/ pc[c] = "due" /\ xTickCount(c) < tmp[c] /\ to = "set"
        \/ pc[c] = "due" /\ ~(xTickCount(c) < tmp[c]) /\ to = "unlist"
        \/ pc[c] = "unlist" /\ to = "move"
        \/ pc[c] = "move" /\ to = "wake"
        \/ pc[c] = "set" /\ to = "ticked"
        \/ pc[c] = "newset" /\ to = "check"
  \/ /\ Read(c, portMAX_DELAY) /\ k.list[k.delayed] = <<>>
     /\ \/ pc[c] = "wake" /\ to = "set"
        \/ pc[c] = "next" /\ to = "newset"
  \/ /\ Read(c, W(k.wake[hand[c]]))
     /\ \/ pc[c] = "value" /\ to = "due"
        \/ pc[c] = "newvalue" /\ to = "newset"
  \/ pc[c] = "swap" /\ to = "swapped" /\ UNCHANGED tmp
  \/ pc[c] = "swapped" /\ to = "next" /\ UNCHANGED tmp

LEMMA IncrementMoves ==
  ASSUME NEW c, IncrementChange(c)
  PROVE  \E to : Moves(c, to) /\ IncrementGoes(c, to)
BY Zenon DEF IncrementChange, CountingChange, WakingChange, HeadChange, ValueChange, DueChange,
   SetChange, UnlistChange, ReadyChange, IncrementGoes

(* ... and one of a call.                                                   *)
CallGoes(to) ==
  \/ /\ pc[0] \in {"enter", "entered"} /\ to \in {"entered", "suspend"}
     /\ UNCHANGED <<tmp, running>>
  \/ /\ pc[0] = "suspend" /\ to \in {"target", "until", "timeout", "resume"}
     /\ to = "until" => Mine.op = "until"
     /\ UNCHANGED <<tmp, call, running>>
  \/ pc[0] = "until" /\ to = "decide" /\ UNCHANGED <<call, running>> /\ Read(0, k.ticks)
  \/ pc[0] = "timeout" /\ to = "passed" /\ UNCHANGED running /\ Read(0, k.overflows)
  \/ /\ \/ pc[0] \in {"timeout", "reentered"} /\ to = "target"
        \/ pc[0] = "passed" /\ to \in {"elapsed", "resume"}
        \/ pc[0] = "elapsed" /\ to \in {"left", "resume"}
        \/ pc[0] = "left" /\ to = "reenter"
        \/ pc[0] = "reenter" /\ to = "reentered"
        \/ pc[0] = "target" /\ to = "sleep"
        \/ /\ pc[0] = "decide"
           /\ to = IF ShouldDelay(tmp[0], k.ticks, previous[running],
                                  previous[running] + Mine.asked)
                   THEN "sleep" ELSE "resume"
     /\ UNCHANGED <<tmp, running>>
  \/ /\ \/ pc[0] = "sleep" /\ to \in {"which", "forever"}
        \/ pc[0] = "forever" /\ to = "resume"
        \/ /\ pc[0] = "which"
           /\ to = IF W(Mine.target) < W(k.ticks) THEN "later" ELSE "insert"
        \/ pc[0] = "later" /\ to = "resume"
        \/ pc[0] = "insert" /\ to = "sooner"
        \/ pc[0] = "sooner" /\ to = IF W(Mine.target) < k.unblock THEN "lower" ELSE "resume"
        \/ pc[0] = "lower" /\ to = "resume"
     /\ UNCHANGED <<tmp, running>>
  \/ pc[0] = "resume" /\ to = "unwind" /\ UNCHANGED <<tmp, running>>
  \/ pc[0] = "unwind" /\ k.missed > 0 /\ to = "tick" /\ UNCHANGED <<tmp, running>>
  \/ pc[0] = "ticked" /\ to = "unmiss" /\ UNCHANGED running /\ Read(0, k.missed)
  \/ pc[0] = "unmiss" /\ to = "unwind" /\ UNCHANGED <<tmp, running>>
  \/ /\ pc[0] = "unwind" /\ UNCHANGED tmp
     /\ to = "run" \/ (/\ to = "suspend" /\ running' \in Tasks
                       /\ call'[running'].op = "wait")

LEMMA CallMoves ==
  ASSUME CallChange
  PROVE  \E to : Moves(0, to) /\ CallGoes(to)
<1> USE DEF Deciding, Asleep, Joined
<1>1. CASE CallNotes
  <2>1. /\ UNCHANGED <<tmp, running>>
        /\ \/ pc[0] = "enter" /\ Moves(0, "entered")
           \/ pc[0] = "entered" /\ Moves(0, "suspend")
           \/ pc[0] = "reenter" /\ Moves(0, "reentered")
           \/ pc[0] = "reentered" /\ Moves(0, "target")
           \/ pc[0] = "passed" /\ Moves(0, "resume")
           \/ pc[0] = "elapsed" /\ Moves(0, "resume")
           \/ pc[0] = "left" /\ Moves(0, "reenter")
           \/ pc[0] = "target" /\ Moves(0, "sleep")
    BY <1>1, Zenon DEF CallNotes
  <2> QED
    BY <2>1 DEF CallGoes
<1>2. CASE CallGoesOn
  <2>1. /\ UNCHANGED <<tmp, running>>
        /\ \/ pc[0] = "timeout" /\ Moves(0, "target")
           \/ pc[0] = "passed" /\ Moves(0, "elapsed")
           \/ pc[0] = "elapsed" /\ Moves(0, "left")
           \/ /\ pc[0] = "which"
              /\ Moves(0, IF W(Mine.target) < W(k.ticks) THEN "later" ELSE "insert")
           \/ /\ pc[0] = "sooner"
              /\ Moves(0, IF W(Mine.target) < k.unblock THEN "lower" ELSE "resume")
           \/ pc[0] = "unwind" /\ k.missed > 0 /\ Moves(0, "tick")
    BY <1>2, Zenon DEF CallGoesOn, task
  <2> QED
    BY <2>1 DEF CallGoes
<1>3. CASE CallReads
  BY <1>3, Zenon DEF CallReads, CallGoes, task
<1>4. CASE CallDecides
  <2>1. /\ pc[0] = "decide" /\ UNCHANGED <<tmp, running>>
        /\ Moves(0, IF ShouldDelay(tmp[0], k.ticks, previous[running],
                                   previous[running] + Mine.asked)
                    THEN "sleep" ELSE "resume")
    BY <1>4, Zenon DEF CallDecides
  <2> QED
    BY <2>1 DEF CallGoes
<1>5. CASE CallUpdates
  <2> DEFINE to == CASE Mine.op = "delay" -> "target" [] Mine.op = "until" -> "until"
                     [] Mine.op = "wait" -> "timeout" [] OTHER -> "resume"
  <2>1. to \in {"target", "until", "timeout", "resume"} /\ (to = "until" => Mine.op = "until")
    OBVIOUS
  <2>2. CASE pc[0] = "suspend" /\ Moves(0, to) /\ UNCHANGED <<tmp, call, running>>
    BY <2>1, <2>2, Zenon DEF CallGoes
  <2>3. CASE pc[0] = "suspend"
    BY <1>5, <2>2, <2>3, Zenon DEF CallUpdates, task
  <2>4. CASE pc[0] # "suspend"
    BY <1>5, <2>4, Zenon DEF CallUpdates, CallGoes, task
  <2> QED
    BY <2>3, <2>4
<1>6. CASE CallUnmisses
  BY <1>6, Zenon DEF CallUnmisses, CallGoes, task
<1>7. CASE CallReturns
  BY <1>7, Zenon DEF CallReturns, CallGoes
<1>8. CASE CallForever
  BY <1>8, Zenon DEF CallForever, CallGoes, task
<1> QED
  BY <1>1, <1>2, <1>3, <1>4, <1>5, <1>6, <1>7, <1>8 DEF CallChange

LEMMA PlacedIncrement ==
  ASSUME Typed, Placed, Housed, NEW c \in {0, 1}, IncrementChange(c)
  PROVE  Placed'
<1>1. PICK to : Moves(c, to) /\ IncrementGoes(c, to)
  BY IncrementMoves
<1>2. /\ tmp \in [{0, 1} -> Nat] /\ k.ticks \in Nat /\ k.missed \in Nat /\ k.delayed \in {1, 2}
      /\ portMAX_DELAY \in Nat
  BY KernelTyped, TickAssumption DEF Typed, portMAX_DELAY
<1>14. pc[c] \in {"value", "newvalue"} => W(k.wake[hand[c]]) \in 0 .. portMAX_DELAY
  <2>1. pc[c] \in {"value", "newvalue"} => k.wake[hand[c]] \in Int
    BY KernelTyped DEF Housed, Typed
  <2> QED
    BY <2>1, Wrapping
<1>3. UNCHANGED <<running, call>>
  BY Zenon DEF IncrementChange, CountingChange, WakingChange, task
<1>4. /\ k'.missed = IF pc[c] = "missed" THEN tmp[c] + 1 ELSE k.missed
      /\ k'.suspended = k.suspended
  BY IncrementCounts DEF SameSuspended
<1>5. c = 0 => pc[0] \notin Missing /\ k.suspended = 0 /\ to \notin Missing
  <2>1. c = 0 => pc[0] \in {"tick", "count", "counted", "miss", "missed", "wrap", "check",
                            "swap", "swapped"} \cup Renewing \cup Waking
    BY <1>1 DEF IncrementGoes, Renewing, Waking
  <2>2. c = 0 => pc[0] \notin Missing /\ k.suspended = 0
    BY <2>1 DEF Placed, Deciding, Asleep, Joined, Missing, Renewing, Waking
  <2> QED
    BY <1>1, <2>2 DEF IncrementGoes, Missing
<1>6. /\ pc[c] \in (Uncounted \cup Missing \cup CountedIn) \ {"ticked", "unmiss", "halted"}
      /\ to \in (Uncounted \cup Missing \cup CountedIn) \ {"tick", "unmiss"}
  BY <1>1 DEF IncrementGoes, Uncounted, Missing, CountedIn, Renewing, Waking
<1>7. pc'[c] = to /\ \A d \in {0, 1} : d # c => pc'[d] = pc[d]
  BY <1>1 DEF Moves
<1>8. ASSUME NEW d \in {0, 1}, pc'[d] \in {"swap", "swapped"} PROVE tmp'[d] \in {1, 2}
  <2>1. CASE UNCHANGED tmp /\ to # "swap"
    <3>1. pc[d] \in {"swap", "swapped"}
      BY <1>1, <1>7, <1>8, <2>1 DEF IncrementGoes
    <3> QED
      BY <2>1, <3>1 DEF Placed
  <2>2. ASSUME NEW v \in Nat, Read(c, v), to \notin {"swap", "swapped"} \/ v \in {1, 2}
        PROVE  tmp'[d] \in {1, 2}
    <3>1. tmp'[c] = v /\ (d # c => tmp'[d] = tmp[d])
      BY <1>2, <2>2, ReadTyped
    <3> QED
      BY <1>7, <1>8, <2>2, <3>1 DEF Placed
  <2>3. ASSUME Read(c, W(k.wake[hand[c]])), pc[c] \in {"value", "newvalue"},
               to \notin {"swap", "swapped"}
        PROVE  tmp'[d] \in {1, 2}
    BY <1>2, <1>14, <2>2, <2>3
  <2> QED
    BY <1>1, <1>2, <2>1, <2>2, <2>3 DEF IncrementGoes
<1>15. ASSUME NEW d \in {0, 1}, pc'[d] \in {"due", "set", "newset"}
       PROVE  tmp'[d] <= portMAX_DELAY
  <2>1. CASE UNCHANGED tmp /\ to \notin {"due", "newset"} /\ (to = "set" => pc[c] = "due")
    <3>1. pc[d] \in {"due", "set", "newset"}
      BY <1>7, <1>15, <2>1
    <3> QED
      BY <2>1, <3>1 DEF Placed
  <2>2. ASSUME NEW v \in Nat, Read(c, v), to \notin {"due", "set", "newset"} \/ v <= portMAX_DELAY
        PROVE  tmp'[d] <= portMAX_DELAY
    <3>1. tmp'[c] = v /\ (d # c => tmp'[d] = tmp[d])
      BY <1>2, <2>2, ReadTyped
    <3> QED
      BY <1>7, <1>15, <2>2, <3>1 DEF Placed
  <2>3. ASSUME Read(c, W(k.wake[hand[c]])), pc[c] \in {"value", "newvalue"}
        PROVE  tmp'[d] <= portMAX_DELAY
    <3>1. W(k.wake[hand[c]]) \in Nat /\ W(k.wake[hand[c]]) <= portMAX_DELAY
      BY <1>2, <1>14, <2>3
    <3> QED
      BY <2>2, <2>3, <3>1
  <2>4. Read(c, portMAX_DELAY) => tmp'[d] <= portMAX_DELAY
    BY <1>2, <2>2
  <2> QED
    BY <1>1, <1>2, <2>1, <2>2, <2>3, <2>4 DEF IncrementGoes
<1>9. pc'[0] = "unmiss" => tmp'[0] > 0
  <2>1. ASSUME pc'[0] = "unmiss" PROVE c = 1 /\ pc[0] = "unmiss" /\ tmp'[0] = tmp[0]
    <3>1. c = 1
      BY <1>6, <1>7, <2>1
    <3>2. UNCHANGED tmp \/ \E v : Read(c, v)
      BY <1>1, Zenon DEF IncrementGoes
    <3>3. tmp'[0] = tmp[0]
      BY <1>2, <3>1, <3>2 DEF Read
    <3> QED
      BY <1>7, <2>1, <3>1, <3>3
  <2> QED
    BY <2>1 DEF Placed
<1>10. pc'[0] \in Uncounted \cup CountedIn => k'.missed > 0
  <2>1. ASSUME pc'[0] \in Uncounted \cup CountedIn PROVE pc[0] \in Uncounted \cup CountedIn
    <3>1. CASE c = 0
      BY <1>5, <1>6, <3>1
    <3>2. CASE c = 1
      BY <1>7, <2>1, <3>2
    <3> QED
      BY <3>1, <3>2
  <2>2. tmp[c] + 1 > 0
    BY <1>2
  <2> QED
    BY <1>4, <2>1, <2>2 DEF Placed
<1>11. /\ c = 0 => pc[0] # "run" /\ pc'[0] # "run"
       /\ pc'[0] \in {"until", "decide"} => pc[0] \in {"until", "decide"}
       /\ pc'[0] \in Deciding \cup Asleep \cup Joined <=> pc[0] \in Deciding \cup Asleep \cup Joined
  BY <1>6, <1>7 DEF Uncounted, Missing, CountedIn, Renewing, Waking, Deciding, Asleep, Joined
<1>12. /\ pc'[0] \notin {"idle"} \cup Missing
       /\ pc'[1] \in {"idle"} \cup Uncounted \cup Missing \cup (CountedIn \ {"unmiss"})
  <2>1. "idle" \notin Uncounted \cup Missing \cup CountedIn
    BY DEF Uncounted, Missing, CountedIn, Renewing, Waking
  <2> QED
    BY <1>5, <1>6, <1>7, <2>1 DEF Placed
<1> QED
  BY <1>3, <1>4, <1>7, <1>8, <1>9, <1>10, <1>11, <1>12, <1>15 DEF Placed

LEMMA PlacedCall ==
  ASSUME Typed, Placed, running \in Tasks, CallChange
  PROVE  Placed'
<1>1. PICK to : Moves(0, to) /\ CallGoes(to)
  BY CallMoves
<1>2. tmp \in [{0, 1} -> Nat] /\ k.ticks \in Nat /\ k.missed \in Nat /\ k.overflows \in Nat
  BY KernelTyped DEF Typed
<1>3. pc'[0] = to /\ pc'[1] = pc[1]
  BY <1>1 DEF Moves
<1>4. to \in {"run", "tick", "unwind", "unmiss"} \cup Entering \cup Deciding \cup Asleep \cup Joined
  BY <1>1 DEF CallGoes, Entering, Deciding, Asleep, Joined
<1>5. /\ to \notin {"idle", "swap", "swapped", "due", "set", "newset"} \cup Missing
      /\ to \in {"tick", "unmiss"} \/ to \notin Uncounted \cup CountedIn
  BY <1>4 DEF Uncounted, Missing, CountedIn, Renewing, Waking, Entering, Deciding, Asleep, Joined
<1>6. to # "run" => running' \in Tasks
  BY <1>1 DEF CallGoes
<1>7. k'.suspended = IF to \in Deciding \cup Asleep \cup Joined THEN 1 ELSE 0
  <2>1. k'.suspended = IF pc[0] = "suspend" THEN 1 ELSE IF pc[0] = "resume" THEN 0 ELSE k.suspended
    BY CallCounts
  <2>2. pc[0] = "suspend" => to \in Deciding \cup Joined
    BY <1>1 DEF CallGoes, Deciding, Asleep, Joined
  <2>3. pc[0] = "resume" => to \notin Deciding \cup Asleep \cup Joined
    BY <1>1 DEF CallGoes, Deciding, Asleep, Joined
  <2>4. pc[0] \notin {"suspend", "resume"} =>
          (to \in Deciding \cup Asleep \cup Joined <=> pc[0] \in Deciding \cup Asleep \cup Joined)
    BY <1>1 DEF CallGoes, Deciding, Asleep, Joined
  <2> QED
    BY <2>1, <2>2, <2>3, <2>4 DEF Placed
<1>8. to \in {"tick", "unmiss"} => k.missed > 0 /\ pc[0] # "unmiss"
  <2>1. to \in {"tick", "unmiss"} => (pc[0] = "unwind" /\ k.missed > 0) \/ pc[0] = "ticked"
    BY <1>1 DEF CallGoes, Deciding, Asleep, Joined
  <2> QED
    BY <2>1 DEF Placed, CountedIn
<1>9. to \in {"tick", "unmiss"} => k'.missed > 0
  BY <1>8, CallCounts
<1>10. UNCHANGED tmp \/ \E v \in {k.ticks, k.overflows, k.missed} : Read(0, v)
  BY <1>1, Zenon DEF CallGoes
<1>11. tmp'[1] = tmp[1]
  BY <1>2, <1>10, ReadTyped
<1>12. to = "unmiss" => tmp'[0] > 0
  <2>1. to = "unmiss" => Read(0, k.missed)
    BY <1>1 DEF CallGoes, Deciding, Asleep, Joined
  <2> QED
    BY <1>2, <1>8, <2>1, ReadTyped
<1>13. to \in {"until", "decide"} => call'[running'].op = "until"
  <2>1. to \in {"until", "decide"} =>
          UNCHANGED <<call, running>> /\ (pc[0] = "until" \/ Mine.op = "until")
    BY <1>1 DEF CallGoes, Deciding, Asleep, Joined
  <2> QED
    BY <2>1 DEF Placed, Mine
<1>14. \A d \in {0, 1} : pc'[d] \in {"swap", "swapped"} => tmp'[d] \in {1, 2}
  BY <1>3, <1>5, <1>11 DEF Placed
<1>15. \A d \in {0, 1} : pc'[d] \in {"due", "set", "newset"} => tmp'[d] <= portMAX_DELAY
  BY <1>3, <1>5, <1>11 DEF Placed
<1>16. to \in Uncounted \cup CountedIn => k'.missed > 0
  BY <1>5, <1>9
<1>17. /\ pc'[0] \notin {"idle"} \cup Missing
       /\ pc'[1] \in {"idle"} \cup Uncounted \cup Missing \cup (CountedIn \ {"unmiss"})
  BY <1>3, <1>5 DEF Placed
<1> QED
  BY <1>3, <1>6, <1>7, <1>12, <1>13, <1>14, <1>15, <1>16, <1>17 DEF Placed

LEMMA PlacedOther ==
  ASSUME Typed, Placed, OtherChange
  PROVE  Placed'
<1>1. UNCHANGED <<k, tmp, running>>
  BY Zenon DEF OtherChange
<1>2. \/ pc[1] = "idle" /\ Moves(1, "tick") /\ UNCHANGED call
      \/ pc[1] = "ticked" /\ Moves(1, "idle") /\ UNCHANGED call
      \/ pc[0] = "run" /\ running \in Tasks /\ \E to \in {"enter", "suspend"} : Moves(0, to)
  BY Zenon DEF OtherChange
<1>3. \/ /\ pc'[1] \in {"tick", "idle"} /\ UNCHANGED call /\ pc'[0] = pc[0]
      \/ /\ pc[0] = "run" /\ running \in Tasks /\ pc'[0] \in {"enter", "suspend"}
         /\ pc'[1] = pc[1]
  BY <1>2 DEF Moves
<1>4. CASE pc'[1] \in {"tick", "idle"} /\ UNCHANGED call /\ pc'[0] = pc[0]
  BY <1>1, <1>4 DEF Placed, Uncounted
<1>5. CASE /\ pc[0] = "run" /\ running \in Tasks /\ pc'[0] \in {"enter", "suspend"}
           /\ pc'[1] = pc[1]
  BY <1>1, <1>5 DEF Placed, Uncounted, Missing, CountedIn, Renewing, Waking, Deciding,
     Asleep, Joined
<1> QED
  BY <1>3, <1>4, <1>5

-----------------------------------------------------------------------------
(* Every tick interrupt is counted once.                                    *)

LEMMA IncrementSlips ==
  ASSUME slipped \in BOOLEAN, NEW c, IncrementChange(c), ~slipped'
  PROVE  /\ ~slipped
         /\ pc[c] = "counted" => tmp[c] = k.ticks
         /\ pc[c] = "missed" => tmp[c] = k.missed
<1>1. \/ pc[c] \notin {"counted", "missed"} /\ UNCHANGED slipped
      \/ pc[c] = "counted" /\ Overwrites(c, k.ticks)
      \/ pc[c] = "missed" /\ Overwrites(c, k.missed)
  BY Zenon DEF IncrementChange, CountingChange, WakingChange, HeadChange, ValueChange,
     DueChange, SetChange, UnlistChange, ReadyChange
<1> QED
  BY <1>1 DEF Overwrites

LEMMA CallSlips ==
  ASSUME slipped \in BOOLEAN, CallChange, ~slipped'
  PROVE  ~slipped /\ (pc[0] = "unmiss" => tmp[0] = k.missed)
<1>1. \/ pc[0] # "unmiss" /\ UNCHANGED slipped
      \/ pc[0] = "unmiss" /\ Overwrites(0, k.missed)
  BY Zenon DEF CallChange, CallNotes, CallGoesOn, CallReads, CallDecides, CallUpdates,
     CallForever, CallUnmisses, CallReturns
<1> QED
  BY <1>1 DEF Overwrites

LEMMA CountsIncrement ==
  ASSUME Typed, Placed, Housed, Counts, NEW c \in {0, 1}, IncrementChange(c), ~slipped'
  PROVE  Counts' /\ k'.ticks >= k.ticks
<1>1. PICK to : Moves(c, to) /\ IncrementGoes(c, to)
  BY IncrementMoves
<1>2. k.ticks \in Nat /\ k.missed \in Nat /\ interrupts \in Nat
  BY KernelTyped DEF Typed
<1>3. /\ k'.ticks = IF pc[c] = "counted" THEN k.ticks + 1 ELSE k.ticks
      /\ k'.missed = IF pc[c] = "missed" THEN k.missed + 1 ELSE k.missed
      /\ ~slipped /\ interrupts' = interrupts
  <2>1. interrupts' = interrupts
    BY Zenon DEF IncrementChange, CountingChange, WakingChange
  <2> QED
    BY <2>1, IncrementSlips, IncrementCounts DEF Typed
<1>4. pc'[c] = to /\ \A d \in {0, 1} : d # c => pc'[d] = pc[d]
  BY <1>1 DEF Moves
<1>5. CASE c = 0
  <2>1. pc[0] # "missed" /\ to # "miss"
    BY <1>1, <1>5 DEF Placed, Missing, IncrementGoes, Uncounted, CountedIn, Renewing, Waking,
       Deciding, Asleep, Joined
  <2>2. to \in CountedIn <=> (pc[0] \in CountedIn \/ pc[0] = "counted")
    BY <1>1, <1>5, <2>1 DEF IncrementGoes, CountedIn, Renewing, Waking
  <2>3. pc[0] = "counted" => pc[0] \notin CountedIn
    BY DEF CountedIn, Renewing, Waking
  <2> QED
    BY <1>2, <1>3, <1>4, <1>5, <2>1, <2>2, <2>3 DEF Counts
<1>6. CASE c = 1
  <2>1. to \in Uncounted \cup Missing <=>
          (pc[1] \in Uncounted \cup Missing /\ pc[1] \notin {"counted", "missed"})
    BY <1>1, <1>6 DEF IncrementGoes, Uncounted, Missing
  <2>2. {"counted", "missed"} \subseteq Uncounted \cup Missing
    BY DEF Uncounted, Missing
  <2> QED
    BY <1>2, <1>3, <1>4, <1>6, <2>1, <2>2 DEF Counts
<1> QED
  BY <1>5, <1>6

LEMMA CountsCall ==
  ASSUME Typed, Placed, Counts, running \in Tasks, CallChange, ~slipped'
  PROVE  Counts'
<1>1. PICK to : Moves(0, to) /\ CallGoes(to)
  BY CallMoves
<1>2. k.ticks \in Nat /\ k.missed \in Nat /\ interrupts \in Nat
  BY KernelTyped DEF Typed
<1>3. /\ k'.ticks = k.ticks
      /\ k'.missed = IF pc[0] = "unmiss" THEN k.missed - 1 ELSE k.missed
      /\ ~slipped /\ interrupts' = interrupts
  BY CallSlips, CallCounts DEF CallChange, Typed
<1>4. pc'[0] = to /\ pc'[1] = pc[1]
  BY <1>1 DEF Moves
<1>5. to \in CountedIn <=> (pc[0] \in CountedIn /\ pc[0] # "unmiss")
  BY <1>1 DEF CallGoes, CountedIn, Renewing, Waking, Deciding, Asleep, Joined
<1>6. "unmiss" \in CountedIn
  BY DEF CountedIn
<1> QED
  BY <1>2, <1>3, <1>4, <1>5, <1>6 DEF Counts

LEMMA CountsOther ==
  ASSUME Typed, Counts, OtherChange
  PROVE  Counts'
<1>1. UNCHANGED <<k, slipped>>
  BY Zenon DEF OtherChange
<1>2. \/ pc[1] = "idle" /\ Moves(1, "tick") /\ interrupts' = interrupts + 1
      \/ pc[1] = "ticked" /\ Moves(1, "idle") /\ UNCHANGED interrupts
      \/ /\ pc[0] = "run" /\ UNCHANGED interrupts
         /\ \E to \in {"enter", "suspend"} : Moves(0, to)
  BY Zenon DEF OtherChange
<1>3. k.ticks \in Nat /\ k.missed \in Nat /\ interrupts \in Nat
  BY KernelTyped DEF Typed
<1> QED
  BY <1>1, <1>2, <1>3 DEF Counts, Moves, Uncounted, Missing, CountedIn, Renewing, Waking

-----------------------------------------------------------------------------
(* The lists.                                                               *)

(* What a step of vTaskIncrementTick does to the lists, ...                 *)
LEMMA IncrementLists ==
  ASSUME Typed, Placed, Housed, NEW c \in {0, 1}, IncrementChange(c)
  PROVE  /\ pc[c] \notin {"set", "newset", "unlist", "move"} => SameLists /\ SameUnblock
         /\ pc[c] \in {"set", "newset"} => SameLists /\ k'.unblock = tmp[c]
         /\ pc[c] = "unlist" =>
              /\ k'.ready = k.ready \ {hand[c]} /\ k'.wake = k.wake /\ SameUnblock
              /\ \A n \in {1, 2} : k'.list[n] = Without(k.list[n], {hand[c]})
         /\ pc[c] = "move" =>
              /\ k'.ready = k.ready \cup {hand[c]} /\ k'.wake = k.wake /\ SameUnblock
              /\ k'.list = k.list
         /\ pc[c] \notin {"swap", "swapped"} => SameRoles
<1>1. k \in Kernel /\ tmp[c] \in Nat /\ tmp[c] + 1 \in Nat
  BY DEF Typed
<1>2. k.delayed \in {1, 2} /\ k.overflow \in {1, 2} /\ portMAX_DELAY \in Nat
  BY <1>1, KernelTyped, TickAssumption DEF portMAX_DELAY
<1>3. CASE /\ pc[c] \notin {"counted", "missed", "swap", "swapped", "set", "newset", "unlist",
                        "move"}
           /\ UNCHANGED k
  BY <1>3 DEF SameLists, SameUnblock, SameRoles
<1>4. CASE pc[c] = "counted" /\ k' = [k EXCEPT !.ticks = tmp[c] + 1]
  BY <1>1, <1>4, KernelUpdates
<1>5. CASE pc[c] = "missed" /\ k' = [k EXCEPT !.missed = tmp[c] + 1]
  BY <1>1, <1>5, KernelUpdates
<1>6. CASE pc[c] = "swap" /\ k' = [k EXCEPT !.delayed = k.overflow]
  BY <1>1, <1>2, <1>6, RoleUpdates
<1>7. CASE pc[c] = "swapped" /\ k' = [k EXCEPT !.overflow = tmp[c], !.overflows = @ + 1]
  <2>1. tmp[c] \in {1, 2}
    BY <1>7 DEF Placed
  <2> QED
    BY <1>1, <1>7, <2>1, RoleUpdates
<1>8. CASE pc[c] \in {"set", "newset"} /\ k' = [k EXCEPT !.unblock = tmp[c]]
  <2>1. tmp[c] \in 0 .. portMAX_DELAY
    BY <1>1, <1>2, <1>8 DEF Placed
  <2> QED
    BY <1>1, <1>8, <2>1, KernelUpdates
<1>9. CASE /\ pc[c] = "unlist"
           /\ k' = [k EXCEPT !.ready = @ \ {hand[c]},
                             !.list = [n \in {1, 2} |-> Without(k.list[n], {hand[c]})]]
  <2>1. /\ k'.ready = k.ready \ {hand[c]} /\ k'.wake = k.wake
        /\ \A n \in {1, 2} : k'.list[n] = Without(k.list[n], {hand[c]})
        /\ SameRoles /\ SameUnblock
    BY <1>1, <1>9, UnlistUpdates, Zenon
  <2> QED
    BY <1>9, <2>1
<1>10. CASE pc[c] = "move" /\ k' = [k EXCEPT !.ready = @ \cup {hand[c]}]
  <2>1. hand[c] \in Tasks
    BY <1>10 DEF Housed
  <2> QED
    BY <1>1, <1>10, <2>1, ReadyUpdates
<1> QED
  BY <1>3, <1>4, <1>5, <1>6, <1>7, <1>8, <1>9, <1>10, KernelChanges, Zenon DEF KernelChange

(* ... and to what the cores have in hand.                                  *)
Handling == {"value", "newvalue", "due", "unlist", "move"}
HandChange(c, to) ==
  \/ /\ pc[c] \notin {"head", "newhead"} \cup Handling /\ to \notin Handling
     /\ UNCHANGED waking
  \/ /\ pc[c] \in {"head", "newhead"} /\ to \in {"value", "newvalue"} /\ UNCHANGED asleep
     /\ \/ k.list[k.delayed] = <<>> /\ clashed' = TRUE /\ UNCHANGED hand
        \/ /\ k.list[k.delayed] # <<>> /\ UNCHANGED clashed
           /\ hand' = [hand EXCEPT ![c] = Head(k.list[k.delayed])]
  \/ /\ \/ pc[c] = "value" /\ to = "due"
        \/ pc[c] = "due" /\ to = "unlist"
     /\ UNCHANGED waking
  \/ /\ \/ pc[c] = "newvalue" /\ to = "newset"
        \/ pc[c] = "due" /\ to = "set"
        \/ pc[c] = "move" /\ to = "wake"
     /\ hand' = [hand EXCEPT ![c] = NoTask] /\ UNCHANGED <<asleep, clashed>>
  \/ /\ pc[c] = "unlist" /\ to = "move" /\ UNCHANGED hand
     /\ asleep' = asleep \ {hand[c]}
     /\ clashed' = (/\ hand[c] \notin k.ready \cup asleep
                    /\ \A n \in {1, 2} : hand[c] \notin ToSet(k.list[n]))

LEMMA IncrementHands ==
  ASSUME NEW c, IncrementChange(c)
  PROVE  \E to : Moves(c, to) /\ HandChange(c, to)
<1>1. CASE CountingChange(c)
  <2> DEFINE Froms == {"tick", "wrap", "check", "next", "wake", "count", "miss", "counted",
                       "missed", "swap", "swapped"}
             Tos == {"count", "miss", "check", "halted", "ticked", "wake", "newhead", "head",
                     "counted", "missed", "swap", "newset", "set", "wrap", "swapped", "next"}
  <2>1. UNCHANGED waking /\ pc[c] \in Froms
    BY <1>1, Zenon DEF CountingChange
  <2>2. \E to \in Tos : Moves(c, to)
    BY <1>1, Zenon DEF CountingChange
  <2>3. /\ \A from \in Froms : from \notin {"head", "newhead"} \cup Handling
        /\ \A to \in Tos : to \notin Handling
    BY DEF Handling
  <2> QED
    BY <2>1, <2>2, <2>3, Zenon DEF HandChange
<1>2. CASE HeadChange(c) \/ ValueChange(c) \/ DueChange(c)
  BY <1>2, Zenon DEF HeadChange, ValueChange, DueChange, HandChange, Handling, waking
<1>3. CASE SetChange(c) \/ UnlistChange(c) \/ ReadyChange(c)
  <2>1. CASE SetChange(c)
    <3>1. /\ UNCHANGED waking /\ pc[c] \in {"set", "newset"}
          /\ \E to \in {"ticked", "check"} : Moves(c, to)
      BY <2>1, Zenon DEF SetChange
    <3>2. /\ \A from \in {"set", "newset"} : from \notin {"head", "newhead"} \cup Handling
          /\ \A to \in {"ticked", "check"} : to \notin Handling
      BY DEF Handling
    <3> QED
      BY <3>1, <3>2, Zenon DEF HandChange
  <2>2. CASE UnlistChange(c)
    BY <2>2, Zenon DEF UnlistChange, HandChange
  <2>3. CASE ReadyChange(c)
    BY <2>3, Zenon DEF ReadyChange, HandChange
  <2> QED
    BY <1>3, <2>1, <2>2, <2>3
<1> QED
  BY <1>1, <1>2, <1>3 DEF IncrementChange, WakingChange

LEMMA CallLists ==
  ASSUME Typed, Placed, running \in Tasks, CallChange
  PROVE  \/ pc[0] \notin {"sleep", "later", "insert", "lower"} /\ SameLists /\ SameUnblock
         \/ pc[0] = "lower" /\ SameLists /\ k'.unblock = W(Mine.target)
         \/ /\ pc[0] = "sleep" /\ k'.list = k.list /\ k'.ready = k.ready \ {running}
            /\ k'.wake[running] = Mine.target /\ SameUnblock
            /\ \A t \in Tasks \ {running} : k'.wake[t] = k.wake[t]
         \/ /\ pc[0] \in {"later", "insert"} /\ k'.ready = k.ready /\ k'.wake = k.wake
            /\ LET n == IF pc[0] = "later" THEN k.overflow ELSE k.delayed
               IN  Relisted(n, InsertByWake(k.list[n], running))
<1>1. /\ k \in Kernel /\ tmp[0] \in Nat /\ Mine.target \in Nat /\ k.delayed \in {1, 2}
      /\ k.overflow \in {1, 2} /\ \A n \in {1, 2} : k.list[n] \in Seq(Tasks)
  BY LocalsTyped, KernelTyped DEF Typed, Mine
<1> DEFINE Rest == {"suspend", "sleep", "later", "insert", "lower", "resume", "unmiss"}
<1>2. CASE pc[0] \notin Rest /\ UNCHANGED k
  BY <1>2 DEF SameLists, SameUnblock
<1>3. CASE pc[0] = "suspend" /\ k' = [k EXCEPT !.suspended = @ + 1]
  <2>1. k.suspended = 0
    BY <1>3 DEF Placed, Deciding, Asleep, Joined
  <2>2. k' = [k EXCEPT !.suspended = 1]
    BY <1>3, <2>1
  <2> QED
    BY <1>1, <1>3, <2>2, KernelUpdates
<1>4. CASE /\ pc[0] = "sleep"
           /\ k' = [k EXCEPT !.ready = @ \ {running}, !.wake[running] = Mine.target]
  BY <1>1, <1>4, SleepUpdates
<1>5. ASSUME NEW n \in {1, 2}, k' = [k EXCEPT !.list[n] = InsertByWake(@, running)]
      PROVE  /\ Relisted(n, InsertByWake(k.list[n], running))
             /\ k'.ready = k.ready /\ k'.wake = k.wake
  <2>1. InsertByWake(k.list[n], running) \in Seq(Tasks)
    BY <1>1, InsertJoins
  <2>2. k' = [k EXCEPT !.list[n] = InsertByWake(k.list[n], running)]
    BY <1>5
  <2> QED
    BY <1>1, <2>1, <2>2, ListUpdates
<1>6. CASE pc[0] = "lower" /\ k' = [k EXCEPT !.unblock = W(Mine.target)]
  <2>1. W(Mine.target) \in 0 .. portMAX_DELAY
    <3>1. Mine.target \in Int
      BY <1>1
    <3> QED
      BY <3>1, Wrapping
  <2> QED
    BY <1>1, <1>6, <2>1, KernelUpdates
<1>7. CASE pc[0] = "resume" /\ k' = [k EXCEPT !.suspended = @ - 1]
  <2>1. k.suspended = 1
    BY <1>7 DEF Placed, Deciding, Asleep, Joined
  <2>2. k' = [k EXCEPT !.suspended = 0]
    BY <1>7, <2>1
  <2> QED
    BY <1>1, <1>7, <2>2, KernelUpdates
<1>8. CASE pc[0] = "unmiss" /\ k' = [k EXCEPT !.missed = tmp[0] - 1]
  <2>1. tmp[0] - 1 \in Nat
    BY <1>1, <1>8 DEF Placed
  <2> QED
    BY <1>1, <1>8, <2>1, KernelUpdates
<1>9. CASE pc[0] = "later" /\ k' = [k EXCEPT !.list[k.overflow] = InsertByWake(@, running)]
  BY <1>1, <1>5, <1>9
<1>10. CASE pc[0] = "insert" /\ k' = [k EXCEPT !.list[k.delayed] = InsertByWake(@, running)]
  BY <1>1, <1>5, <1>10
<1> QED
  BY <1>2, <1>3, <1>4, <1>6, <1>7, <1>8, <1>9, <1>10, CallKernelChanges, Zenon
     DEF CallKernelChange

-----------------------------------------------------------------------------
(* Where the tasks are.                                                     *)

OnePlace(t) == \E p \in Whereabouts : \A q \in Whereabouts : At(q, t) <=> q = p

LEMMA AtPlaces ==
  ASSUME NEW t
  PROVE  /\ At("ready", t) <=> t \in k.ready
         /\ At("first", t) <=> t \in ToSet(k.list[1])
         /\ At("second", t) <=> t \in ToSet(k.list[2])
         /\ At("asleep", t) <=> t \in asleep
         /\ At("hand 0", t) <=> pc[0] = "move" /\ hand[0] = t
         /\ At("hand 1", t) <=> pc[1] = "move" /\ hand[1] = t
         /\ At("between", t) <=> t = running /\ pc[0] \in Asleep
<1>1. At("ready", t) <=> t \in k.ready
  BY DEF At, Asleep
<1>2. At("first", t) <=> t \in ToSet(k.list[1])
  BY DEF At, Asleep
<1>3. At("second", t) <=> t \in ToSet(k.list[2])
  BY DEF At, Asleep
<1>4. At("asleep", t) <=> t \in asleep
  BY DEF At, Asleep
<1>5. At("hand 0", t) <=> pc[0] = "move" /\ hand[0] = t
  BY DEF At, Asleep
<1>6. At("hand 1", t) <=> pc[1] = "move" /\ hand[1] = t
  BY DEF At, Asleep
<1>7. At("between", t) <=> t = running /\ pc[0] \in Asleep
  BY DEF At, Asleep
<1> QED
  BY <1>1, <1>2, <1>3, <1>4, <1>5, <1>6, <1>7

LEMMA AtPlacesThen ==
  ASSUME NEW t
  PROVE  /\ At("ready", t)' <=> t \in k'.ready
         /\ At("first", t)' <=> t \in ToSet(k'.list[1])
         /\ At("second", t)' <=> t \in ToSet(k'.list[2])
         /\ At("asleep", t)' <=> t \in asleep'
         /\ At("hand 0", t)' <=> pc'[0] = "move" /\ hand'[0] = t
         /\ At("hand 1", t)' <=> pc'[1] = "move" /\ hand'[1] = t
         /\ At("between", t)' <=> t = running' /\ pc'[0] \in Asleep
<1>1. At("ready", t)' <=> t \in k'.ready
  BY DEF At, Asleep
<1>2. At("first", t)' <=> t \in ToSet(k'.list[1])
  BY DEF At, Asleep
<1>3. At("second", t)' <=> t \in ToSet(k'.list[2])
  BY DEF At, Asleep
<1>4. At("asleep", t)' <=> t \in asleep'
  BY DEF At, Asleep
<1>5. At("hand 0", t)' <=> pc'[0] = "move" /\ hand'[0] = t
  BY DEF At, Asleep
<1>6. At("hand 1", t)' <=> pc'[1] = "move" /\ hand'[1] = t
  BY DEF At, Asleep
<1>7. At("between", t)' <=> t = running' /\ pc'[0] \in Asleep
  BY DEF At, Asleep
<1> QED
  BY <1>1, <1>2, <1>3, <1>4, <1>5, <1>6, <1>7

(* The place of a task, ...                                                 *)
LEMMA Place ==
  ASSUME NEW t \in Tasks, Housed
  PROVE  \E p \in Whereabouts :
           /\ t \in k.ready <=> p = "ready"
           /\ t \in ToSet(k.list[1]) <=> p = "first"
           /\ t \in ToSet(k.list[2]) <=> p = "second"
           /\ t \in asleep <=> p = "asleep"
           /\ (pc[0] = "move" /\ hand[0] = t) <=> p = "hand 0"
           /\ (pc[1] = "move" /\ hand[1] = t) <=> p = "hand 1"
           /\ (t = running /\ pc[0] \in Asleep) <=> p = "between"
<1>1. PICK p \in Whereabouts : \A q \in Whereabouts : At(q, t) <=> q = p
  BY DEF Housed
<1>2. {"ready", "first", "second", "asleep", "hand 0", "hand 1", "between"} = Whereabouts
  BY DEF Whereabouts
<1> QED
  BY <1>1, <1>2, AtPlaces

(* ... the one that it goes to, ...                                         *)
LEMMA GoesTo ==
  ASSUME NEW t \in Tasks, NEW p \in Whereabouts,
         t \in k'.ready <=> p = "ready",
         t \in ToSet(k'.list[1]) <=> p = "first",
         t \in ToSet(k'.list[2]) <=> p = "second",
         t \in asleep' <=> p = "asleep",
         (pc'[0] = "move" /\ hand'[0] = t) <=> p = "hand 0",
         (pc'[1] = "move" /\ hand'[1] = t) <=> p = "hand 1",
         (t = running' /\ pc'[0] \in Asleep) <=> p = "between"
  PROVE  OnePlace(t)'
<1>1. {"ready", "first", "second", "asleep", "hand 0", "hand 1", "between"} = Whereabouts
  BY DEF Whereabouts
<1>2. \A q \in Whereabouts : At(q, t)' <=> q = p
  BY <1>1, AtPlacesThen
<1> QED
  BY <1>2 DEF OnePlace, Whereabouts

(* ... and one where it stays.                                              *)
LEMMA StaysPut ==
  ASSUME NEW t \in Tasks, Housed,
         t \in k'.ready <=> t \in k.ready,
         \A n \in {1, 2} : t \in ToSet(k'.list[n]) <=> t \in ToSet(k.list[n]),
         t \in asleep' <=> t \in asleep,
         \A d \in {0, 1} : (pc'[d] = "move" /\ hand'[d] = t) <=> (pc[d] = "move" /\ hand[d] = t),
         (t = running' /\ pc'[0] \in Asleep) <=> (t = running /\ pc[0] \in Asleep)
  PROVE  OnePlace(t)'
<1>1. PICK p \in Whereabouts :
           /\ t \in k.ready <=> p = "ready"
           /\ t \in ToSet(k.list[1]) <=> p = "first"
           /\ t \in ToSet(k.list[2]) <=> p = "second"
           /\ t \in asleep <=> p = "asleep"
           /\ (pc[0] = "move" /\ hand[0] = t) <=> p = "hand 0"
           /\ (pc[1] = "move" /\ hand[1] = t) <=> p = "hand 1"
           /\ (t = running /\ pc[0] \in Asleep) <=> p = "between"
  BY Place
<1> QED
  BY <1>1, GoesTo

LEMMA HousedIncrement ==
  ASSUME Typed, Placed, Housed, NEW c \in {0, 1}, IncrementChange(c), ~clashed'
  PROVE  Housed'
<1>1. PICK to : Moves(c, to) /\ HandChange(c, to)
  BY IncrementHands
<1>2. PICK way : Moves(c, way) /\ IncrementGoes(c, way)
  BY IncrementMoves
<1>3. way = to
  BY <1>1, <1>2 DEF Moves
<1>4. /\ hand \in [{0, 1} -> Tasks \cup {NoTask}] /\ k.delayed \in {1, 2}
      /\ \A n \in {1, 2} : k.list[n] \in Seq(Tasks)
  BY KernelTyped DEF Typed
<1>5. pc'[c] = to /\ \A d \in {0, 1} : d # c => pc'[d] = pc[d] /\ hand'[d] = hand[d]
  BY <1>1, <1>4 DEF Moves, HandChange, waking
<1>6. running' = running /\ (pc'[0] \in Asleep <=> pc[0] \in Asleep)
  <2>1. running' = running
    BY Zenon DEF IncrementChange, CountingChange, WakingChange, task
  <2>2. c = 0 => pc[0] \notin Asleep /\ to \notin Asleep
    BY <1>2, <1>3 DEF IncrementGoes, Asleep
  <2> QED
    BY <1>5, <2>1, <2>2
<1>7. ASSUME NEW d \in {0, 1}, pc'[d] \in Handling PROVE hand'[d] \in Tasks
  <2>1. CASE d # c
    BY <1>5, <1>7, <2>1 DEF Housed, Handling
  <2>2. CASE d = c
    <3>1. CASE pc[c] \in {"head", "newhead"}
      <4>1. /\ k.list[k.delayed] # <<>>
            /\ hand' = [hand EXCEPT ![c] = Head(k.list[k.delayed])]
        BY <1>1, <3>1 DEF HandChange, Handling
      <4> QED
        BY <1>4, <2>2, <4>1
    <3>2. CASE pc[c] \notin {"head", "newhead"}
      <4>1. pc[c] \in {"value", "due", "unlist"} /\ hand' = hand
        BY <1>1, <1>5, <1>7, <2>2, <3>2 DEF HandChange, Handling, waking
      <4> QED
        BY <2>2, <4>1 DEF Housed
    <3> QED
      BY <3>1, <3>2
  <2> QED
    BY <2>1, <2>2
<1>8. \A n \in {1, 2} : IsInjective(k'.list[n])
  <2>1. CASE pc[c] = "unlist"
    <3>1. ASSUME NEW n \in {1, 2} PROVE IsInjective(k'.list[n])
      <4>1. k.list[n] \in Seq(Tasks) /\ IsInjective(k.list[n])
        BY <1>4 DEF Housed
      <4>2. IsInjective(Without(k.list[n], {hand[c]}))
        BY <4>1, WithoutOnce
      <4> QED
        BY <2>1, <4>2, IncrementLists
    <3> QED
      BY <3>1
  <2>2. CASE pc[c] # "unlist"
    <3>1. k'.list = k.list
      BY <2>2, IncrementLists DEF SameLists
    <3> QED
      BY <3>1 DEF Housed
  <2> QED
    BY <2>1, <2>2
<1>9. ASSUME NEW t \in Tasks PROVE OnePlace(t)'
  <2>1. CASE pc[c] \notin {"unlist", "move"}
    <3>1. to # "move" /\ UNCHANGED asleep
      BY <1>1, <2>1 DEF HandChange, Handling, waking
    <3>2. k'.list = k.list /\ k'.ready = k.ready
      BY <2>1, IncrementLists DEF SameLists
    <3>3. ASSUME NEW d \in {0, 1}
          PROVE  (pc'[d] = "move" /\ hand'[d] = t) <=> (pc[d] = "move" /\ hand[d] = t)
      BY <1>5, <2>1, <3>1
    <3> QED
      BY <1>6, <3>1, <3>2, <3>3, StaysPut
  <2>2. CASE pc[c] = "unlist"
    <3>1. /\ to = "move" /\ UNCHANGED hand /\ asleep' = asleep \ {hand[c]}
          /\ \/ hand[c] \in k.ready \cup asleep
             \/ hand[c] \in ToSet(k.list[1]) \/ hand[c] \in ToSet(k.list[2])
      BY <1>1, <2>2 DEF HandChange, Handling, waking
    <3>2. /\ k'.ready = k.ready \ {hand[c]}
          /\ \A n \in {1, 2} : ToSet(k'.list[n]) = ToSet(k.list[n]) \ {hand[c]}
      <4>1. ASSUME NEW n \in {1, 2} PROVE ToSet(k'.list[n]) = ToSet(k.list[n]) \ {hand[c]}
        <5>1. ToSet(Without(k.list[n], {hand[c]})) = ToSet(k.list[n]) \ {hand[c]}
          BY <1>4, WithoutEntries
        <5> QED
          BY <2>2, <5>1, IncrementLists
      <4> QED
        BY <2>2, <4>1, IncrementLists
    <3>3. CASE t = hand[c]
      <4>1. PICK p \in Whereabouts :
               /\ t \in k.ready <=> p = "ready"
               /\ t \in ToSet(k.list[1]) <=> p = "first"
               /\ t \in ToSet(k.list[2]) <=> p = "second"
               /\ t \in asleep <=> p = "asleep"
               /\ (pc[0] = "move" /\ hand[0] = t) <=> p = "hand 0"
               /\ (pc[1] = "move" /\ hand[1] = t) <=> p = "hand 1"
               /\ (t = running /\ pc[0] \in Asleep) <=> p = "between"
        BY Place
      <4>2. p \in {"ready", "first", "second", "asleep"}
        BY <3>1, <3>3, <4>1
      <4>3. \A d \in {0, 1} : d # c => ~(pc'[d] = "move" /\ hand'[d] = t)
        BY <1>5, <4>1, <4>2
      <4>4. ~(t = running' /\ pc'[0] \in Asleep)
        BY <1>6, <4>1, <4>2
      <4>5. /\ t \notin k'.ready /\ t \notin ToSet(k'.list[1]) /\ t \notin ToSet(k'.list[2])
            /\ t \notin asleep' /\ pc'[c] = "move" /\ hand'[c] = t
        BY <1>5, <3>1, <3>2, <3>3
      <4>6. "hand 0" \in Whereabouts /\ "hand 1" \in Whereabouts
        BY DEF Whereabouts
      <4>7. CASE c = 0
        <5>1. pc'[0] = "move" /\ hand'[0] = t /\ ~(pc'[1] = "move" /\ hand'[1] = t)
          BY <4>3, <4>5, <4>7
        <5> QED
          BY <4>4, <4>5, <4>6, <5>1, GoesTo
      <4>8. CASE c = 1
        <5>1. pc'[1] = "move" /\ hand'[1] = t /\ ~(pc'[0] = "move" /\ hand'[0] = t)
          BY <4>3, <4>5, <4>8
        <5> QED
          BY <4>4, <4>5, <4>6, <5>1, GoesTo
      <4> QED
        BY <4>7, <4>8
    <3>4. CASE t # hand[c]
      <4>1. ASSUME NEW d \in {0, 1}
            PROVE  (pc'[d] = "move" /\ hand'[d] = t) <=> (pc[d] = "move" /\ hand[d] = t)
        BY <1>5, <2>2, <3>1, <3>4
      <4> QED
        BY <1>6, <3>1, <3>2, <3>4, <4>1, StaysPut
    <3> QED
      BY <3>3, <3>4
  <2>3. CASE pc[c] = "move"
    <3>1. to = "wake" /\ hand' = [hand EXCEPT ![c] = NoTask] /\ asleep' = asleep
      BY <1>1, <2>3 DEF HandChange, Handling
    <3>2. k'.list = k.list /\ k'.ready = k.ready \cup {hand[c]}
      BY <2>3, IncrementLists
    <3>3. CASE t = hand[c]
      <4>1. PICK p \in Whereabouts :
               /\ t \in k.ready <=> p = "ready"
               /\ t \in ToSet(k.list[1]) <=> p = "first"
               /\ t \in ToSet(k.list[2]) <=> p = "second"
               /\ t \in asleep <=> p = "asleep"
               /\ (pc[0] = "move" /\ hand[0] = t) <=> p = "hand 0"
               /\ (pc[1] = "move" /\ hand[1] = t) <=> p = "hand 1"
               /\ (t = running /\ pc[0] \in Asleep) <=> p = "between"
        BY Place
      <4>2. p = IF c = 0 THEN "hand 0" ELSE "hand 1"
        BY <2>3, <3>3, <4>1
      <4>3. /\ t \in k'.ready /\ t \notin ToSet(k'.list[1]) /\ t \notin ToSet(k'.list[2])
            /\ t \notin asleep' /\ ~(t = running' /\ pc'[0] \in Asleep)
        BY <1>6, <3>1, <3>2, <3>3, <4>1, <4>2
      <4>4. ASSUME NEW d \in {0, 1} PROVE ~(pc'[d] = "move" /\ hand'[d] = t)
        BY <1>5, <3>1, <4>1, <4>2
      <4>5. "ready" \in Whereabouts
        BY DEF Whereabouts
      <4> QED
        BY <4>3, <4>4, <4>5, GoesTo
    <3>4. CASE t # hand[c]
      <4>1. ASSUME NEW d \in {0, 1}
            PROVE  (pc'[d] = "move" /\ hand'[d] = t) <=> (pc[d] = "move" /\ hand[d] = t)
        BY <1>5, <2>3, <3>1, <3>4
      <4> QED
        BY <1>6, <3>1, <3>2, <3>4, <4>1, StaysPut
    <3> QED
      BY <3>3, <3>4
  <2> QED
    BY <2>1, <2>2, <2>3
<1> QED
  BY <1>7, <1>8, <1>9 DEF Housed, OnePlace, Handling

LEMMA CallRuns ==
  ASSUME CallChange
  PROVE  \/ UNCHANGED running /\ (pc[0] = "unwind" => Moves(0, "tick"))
         \/ /\ pc[0] = "unwind"
            /\ running' \in k.ready \cup (IF k.ready = {} THEN {NoTask} ELSE {})
BY Zenon DEF CallChange, CallNotes, CallGoesOn, CallReads, CallDecides, CallUpdates,
   CallForever, CallUnmisses, CallReturns, task

LEMMA CallHands ==
  ASSUME CallChange
  PROVE  /\ UNCHANGED hand
         /\ \/ pc[0] \notin {"sleep", "forever"} /\ UNCHANGED <<asleep, clashed>>
            \/ pc[0] = "sleep" /\ clashed' = (running \notin k.ready) /\ UNCHANGED asleep
            \/ pc[0] = "forever" /\ asleep' = asleep \cup {running} /\ UNCHANGED clashed
BY Zenon DEF CallChange, CallNotes, CallGoesOn, CallReads, CallDecides, CallUpdates,
   CallForever, CallUnmisses, CallReturns, waking

LEMMA HousedCall ==
  ASSUME Typed, Placed, Housed, running \in Tasks, CallChange, ~clashed'
  PROVE  Housed'
<1>1. PICK to : Moves(0, to) /\ CallGoes(to)
  BY CallMoves
<1>2. /\ pc'[0] = to /\ pc'[1] = pc[1] /\ k.delayed \in {1, 2} /\ k.overflow \in {1, 2}
      /\ k \in Kernel /\ \A n \in {1, 2} : k.list[n] \in Seq(Tasks)
  BY <1>1, KernelTyped DEF Moves, Typed
<1>3. /\ to \notin Handling /\ pc[0] \notin Handling
      /\ to \in Asleep <=> pc[0] \in {"sleep", "which"}
      /\ pc[0] \in {"sleep", "which", "later", "insert", "forever"} => running' = running
      /\ pc[0] = "unwind" => to \notin Asleep
      /\ pc[0] # "unwind" => running' = running
  BY <1>1 DEF CallGoes, Handling, Asleep
<1>4. UNCHANGED hand
  BY CallHands
<1>5. ASSUME NEW d \in {0, 1}, pc'[d] \in Handling PROVE hand'[d] \in Tasks
  BY <1>2, <1>3, <1>4, <1>5 DEF Housed, Handling
<1>6. ASSUME NEW t, NEW d \in {0, 1}
      PROVE  (pc'[d] = "move" /\ hand'[d] = t) <=> (pc[d] = "move" /\ hand[d] = t)
  <2>1. to # "move" /\ pc[0] # "move"
    BY <1>3 DEF Handling
  <2> QED
    BY <1>2, <1>4, <2>1
<1>7. CASE pc[0] \notin {"sleep", "later", "insert", "forever"}
  <2>1. SameLists /\ UNCHANGED asleep
    BY <1>7, CallLists, CallHands
  <2>2. \A n \in {1, 2} : IsInjective(k'.list[n])
    BY <2>1 DEF SameLists, Housed
  <2>3. ASSUME NEW t \in Tasks PROVE OnePlace(t)'
    <3>1. (t = running' /\ pc'[0] \in Asleep) <=> (t = running /\ pc[0] \in Asleep)
      <4>1. pc[0] = "unwind" => pc[0] \notin Asleep
        BY DEF Asleep
      <4>2. to \in Asleep <=> pc[0] \in Asleep
        BY <1>3, <1>7 DEF Asleep
      <4> QED
        BY <1>2, <1>3, <4>1, <4>2
    <3>2. k'.list = k.list /\ k'.ready = k.ready
      BY <2>1 DEF SameLists
    <3> QED
      BY <1>6, <2>1, <3>1, <3>2, StaysPut
  <2> QED
    BY <1>5, <2>2, <2>3 DEF Housed, OnePlace, Handling
<1>8. CASE pc[0] = "sleep"
  <2>1. /\ k'.list = k.list /\ k'.ready = k.ready \ {running} /\ UNCHANGED asleep
        /\ running \in k.ready /\ running' = running /\ to \in Asleep /\ pc[0] \notin Asleep
    BY <1>3, <1>8, CallLists, CallHands DEF Asleep
  <2>2. \A n \in {1, 2} : IsInjective(k'.list[n])
    BY <2>1 DEF Housed
  <2>3. ASSUME NEW t \in Tasks PROVE OnePlace(t)'
    <3>1. CASE t # running
      BY <1>6, <2>1, <3>1, StaysPut
    <3>2. CASE t = running
      <4>1. PICK p \in Whereabouts :
                /\ t \in k.ready <=> p = "ready"
                /\ t \in ToSet(k.list[1]) <=> p = "first"
                /\ t \in ToSet(k.list[2]) <=> p = "second"
                /\ t \in asleep <=> p = "asleep"
                /\ (pc[0] = "move" /\ hand[0] = t) <=> p = "hand 0"
                /\ (pc[1] = "move" /\ hand[1] = t) <=> p = "hand 1"
                /\ (t = running /\ pc[0] \in Asleep) <=> p = "between"
        BY Place
      <4>2. p = "ready"
        BY <2>1, <3>2, <4>1
      <4>3. /\ t \notin k'.ready /\ t \notin ToSet(k'.list[1]) /\ t \notin ToSet(k'.list[2])
            /\ t \notin asleep' /\ t = running' /\ pc'[0] \in Asleep
        BY <1>2, <2>1, <3>2, <4>1, <4>2
      <4>4. ASSUME NEW d \in {0, 1} PROVE ~(pc'[d] = "move" /\ hand'[d] = t)
        BY <1>6, <4>1, <4>2
      <4>5. "between" \in Whereabouts
        BY DEF Whereabouts
      <4> QED
        BY <4>3, <4>4, <4>5, GoesTo
    <3> QED
      BY <3>1, <3>2
  <2> QED
    BY <1>5, <2>2, <2>3 DEF Housed, OnePlace, Handling
<1>9. CASE pc[0] = "forever"
  <2>1. /\ k'.list = k.list /\ k'.ready = k.ready /\ asleep' = asleep \cup {running}
        /\ running' = running /\ to \notin Asleep /\ pc[0] \in Asleep
    BY <1>3, <1>9, CallLists, CallHands DEF Asleep, SameLists
  <2>2. \A n \in {1, 2} : IsInjective(k'.list[n])
    BY <2>1 DEF Housed
  <2>3. ASSUME NEW t \in Tasks PROVE OnePlace(t)'
    <3>1. CASE t # running
      BY <1>6, <2>1, <3>1, StaysPut
    <3>2. CASE t = running
      <4>1. PICK p \in Whereabouts :
                /\ t \in k.ready <=> p = "ready"
                /\ t \in ToSet(k.list[1]) <=> p = "first"
                /\ t \in ToSet(k.list[2]) <=> p = "second"
                /\ t \in asleep <=> p = "asleep"
                /\ (pc[0] = "move" /\ hand[0] = t) <=> p = "hand 0"
                /\ (pc[1] = "move" /\ hand[1] = t) <=> p = "hand 1"
                /\ (t = running /\ pc[0] \in Asleep) <=> p = "between"
        BY Place
      <4>2. p = "between"
        BY <2>1, <3>2, <4>1
      <4>3. /\ t \notin k'.ready /\ t \notin ToSet(k'.list[1]) /\ t \notin ToSet(k'.list[2])
            /\ t \in asleep' /\ ~(t = running' /\ pc'[0] \in Asleep)
        BY <1>2, <2>1, <3>2, <4>1, <4>2
      <4>4. ASSUME NEW d \in {0, 1} PROVE ~(pc'[d] = "move" /\ hand'[d] = t)
        BY <1>6, <4>1, <4>2
      <4>5. "asleep" \in Whereabouts
        BY DEF Whereabouts
      <4> QED
        BY <4>3, <4>4, <4>5, GoesTo
    <3> QED
      BY <3>1, <3>2
  <2> QED
    BY <1>5, <2>2, <2>3 DEF Housed, OnePlace, Handling
<1>10. CASE pc[0] \in {"later", "insert"}
  <2> DEFINE n == IF pc[0] = "later" THEN k.overflow ELSE k.delayed
  <2>1. n \in {1, 2} /\ Relisted(n, InsertByWake(k.list[n], running)) /\ k'.ready = k.ready
    BY <1>2, <1>10, CallLists
  <2> HIDE DEF n
  <2>2. /\ UNCHANGED asleep /\ running' = running /\ to \notin Asleep /\ pc[0] \in Asleep
    BY <1>3, <1>10, CallHands DEF Asleep
  <2>3. PICK p \in Whereabouts :
           /\ running \in k.ready <=> p = "ready"
           /\ running \in ToSet(k.list[1]) <=> p = "first"
           /\ running \in ToSet(k.list[2]) <=> p = "second"
           /\ running \in asleep <=> p = "asleep"
           /\ (pc[0] = "move" /\ hand[0] = running) <=> p = "hand 0"
           /\ (pc[1] = "move" /\ hand[1] = running) <=> p = "hand 1"
           /\ (running = running /\ pc[0] \in Asleep) <=> p = "between"
    BY Place
  <2>4. p = "between"
    BY <2>2, <2>3
  <2>5. running \notin ToSet(k.list[n])
    BY <2>1, <2>3, <2>4
  <2>6. /\ IsInjective(k'.list[n]) /\ ToSet(k'.list[n]) = ToSet(k.list[n]) \cup {running}
        /\ \A m \in {1, 2} : m # n => k'.list[m] = k.list[m]
    BY <1>2, <2>1, <2>5, InsertJoins DEF Relisted, Housed
  <2>7. \A m \in {1, 2} : IsInjective(k'.list[m])
    BY <2>6 DEF Housed
  <2>8. ASSUME NEW t \in Tasks PROVE OnePlace(t)'
    <3>1. CASE t # running
      <4>1. \A m \in {1, 2} : t \in ToSet(k'.list[m]) <=> t \in ToSet(k.list[m])
        BY <2>6, <3>1
      <4> QED
        BY <1>6, <2>1, <2>2, <3>1, <4>1, StaysPut
    <3>2. CASE t = running
      <4>1. /\ t \notin k'.ready /\ t \in ToSet(k'.list[n])
            /\ \A m \in {1, 2} : m # n => t \notin ToSet(k'.list[m])
            /\ t \notin asleep' /\ ~(t = running' /\ pc'[0] \in Asleep)
        BY <1>2, <2>1, <2>2, <2>3, <2>4, <2>6, <3>2
      <4>2. ASSUME NEW d \in {0, 1} PROVE ~(pc'[d] = "move" /\ hand'[d] = t)
        BY <1>6, <2>3, <2>4, <3>2
      <4>3. {"first", "second"} \subseteq Whereabouts
        BY DEF Whereabouts
      <4>4. CASE n = 1
        <5>1. t \in ToSet(k'.list[1]) /\ t \notin ToSet(k'.list[2])
          BY <4>1, <4>4
        <5>2. ~(pc'[0] = "move" /\ hand'[0] = t) /\ ~(pc'[1] = "move" /\ hand'[1] = t)
          BY <4>2
        <5> QED
          BY <4>1, <4>3, <5>1, <5>2, GoesTo
      <4>5. CASE n = 2
        <5>1. t \in ToSet(k'.list[2]) /\ t \notin ToSet(k'.list[1])
          BY <4>1, <4>5
        <5>2. ~(pc'[0] = "move" /\ hand'[0] = t) /\ ~(pc'[1] = "move" /\ hand'[1] = t)
          BY <4>2
        <5> QED
          BY <4>1, <4>3, <5>1, <5>2, GoesTo
      <4> QED
        BY <2>1, <4>4, <4>5
    <3> QED
      BY <3>1, <3>2
  <2> QED
    BY <1>5, <2>7, <2>8 DEF Housed, OnePlace, Handling
<1> QED
  BY <1>7, <1>8, <1>9, <1>10

LEMMA HousedOther ==
  ASSUME Typed, Placed, Housed, OtherChange
  PROVE  Housed'
<1>1. UNCHANGED <<k, running, waking>>
  BY Zenon DEF OtherChange
<1>2. \/ \E to \in {"tick", "idle"} : Moves(1, to) /\ pc[1] \in {"idle", "ticked"}
      \/ pc[0] = "run" /\ \E to \in {"enter", "suspend"} : Moves(0, to)
  BY Zenon DEF OtherChange
<1>3. \/ /\ pc[1] \notin Handling /\ pc'[1] \notin Handling /\ pc'[0] = pc[0]
      \/ /\ pc'[1] = pc[1] /\ pc[0] \notin Asleep \cup Handling
         /\ pc'[0] \notin Asleep \cup Handling
  BY <1>2 DEF Moves, Handling, Asleep
<1>4. \A d \in {0, 1} : pc'[d] \in Handling => pc[d] = pc'[d]
  BY <1>3
<1>5. ASSUME NEW d \in {0, 1}, pc'[d] \in Handling PROVE hand'[d] \in Tasks
  BY <1>1, <1>4, <1>5 DEF Housed, Handling, waking
<1>6. \A n \in {1, 2} : IsInjective(k'.list[n])
  BY <1>1 DEF Housed
<1>7. ASSUME NEW t \in Tasks PROVE OnePlace(t)'
  <2>1. ASSUME NEW d \in {0, 1}
        PROVE  (pc'[d] = "move" /\ hand'[d] = t) <=> (pc[d] = "move" /\ hand[d] = t)
    <3>1. pc'[d] = "move" <=> pc[d] = "move"
      BY <1>3 DEF Handling
    <3> QED
      BY <1>1, <3>1 DEF waking
  <2>2. (t = running' /\ pc'[0] \in Asleep) <=> (t = running /\ pc[0] \in Asleep)
    BY <1>1, <1>3
  <2> QED
    BY <1>1, <2>1, <2>2, StaysPut DEF waking
<1> QED
  BY <1>5, <1>6, <1>7 DEF Housed, OnePlace, Handling

LEMMA HomesNow ==
  ASSUME Typed, Placed, Housed, Alone
  PROVE  Homes
<1>1. ASSUME NEW t \in Tasks
      PROVE  /\ ~(On(t, 1) /\ On(t, 2))
             /\ On(t, 1) \/ On(t, 2) => t \notin k.ready
             /\ t = running /\ pc[0] \in Asleep =>
                  t \notin k.ready /\ ~On(t, 1) /\ ~On(t, 2)
  BY <1>1, Place DEF On
<1>2. pc[0] \in Asleep => running \in Tasks
  BY DEF Placed, Asleep
<1>3. running \in Tasks /\ pc[0] \in {"run"} \cup Entering \cup Deciding => running \in k.ready
  BY DEF Alone
<1>4. \A n \in {1, 2} : IsInjective(k.list[n])
  BY DEF Housed
<1> QED
  BY <1>1, <1>2, <1>3, <1>4 DEF Homes, Apart

LEMMA SameApart ==
  ASSUME Apart, k'.list = k.list, k'.ready = k.ready
  PROVE  Apart' /\ \A t, n : On(t, n)' <=> On(t, n)
<1>1. \A n : k'.list[n] = k.list[n]
  OBVIOUS
<1> QED
  BY <1>1, Zenon DEF Apart, On

-----------------------------------------------------------------------------
(* While the count has not wrapped.                                         *)

LEMMA TimeNow ==
  ASSUME Typed, Regular
  PROVE  /\ k.ticks \in Nat /\ k.ticks < Width /\ W(k.ticks) = k.ticks
         /\ \A c \in {0, 1} : xTickCount(c) <= k.ticks
<1>1. k.ticks \in Nat /\ k.ticks < Width /\ k.ticks \in Int
  BY KernelTyped DEF Typed, Regular
<1>2. W(k.ticks) = k.ticks
  BY <1>1, Wrapping
<1> QED
  BY <1>1, <1>2 DEF xTickCount

(* Core 0 in vTaskIncrementTick is not in a call; core 1 changes nothing of it. *)
Outside == {"run", "unwind"} \cup Entering \cup Deciding \cup Asleep \cup Joined
LEMMA IncrementApart ==
  ASSUME Typed, Placed, Housed, NEW c \in {0, 1}, IncrementChange(c)
  PROVE  /\ UNCHANGED <<running, call, previous>>
         /\ \/ pc'[0] \in Uncounted \cup CountedIn /\ pc[0] \in Uncounted \cup CountedIn
            \/ c = 1 /\ pc'[0] = pc[0] /\ tmp'[0] = tmp[0]
<1>1. PICK to : Moves(c, to) /\ IncrementGoes(c, to)
  BY IncrementMoves
<1>2. UNCHANGED <<running, call, previous>>
  BY Zenon DEF IncrementChange, CountingChange, WakingChange, task
<1>3. tmp \in [{0, 1} -> Nat]
  BY DEF Typed
<1>4. UNCHANGED tmp \/ \E v : Read(c, v)
  BY <1>1, Zenon DEF IncrementGoes
<1>5. c = 1 => tmp'[0] = tmp[0]
  BY <1>3, <1>4 DEF Read
<1>6. c = 0 => pc[0] \in Uncounted \cup CountedIn /\ to \in Uncounted \cup Missing \cup CountedIn
  BY <1>1 DEF IncrementGoes, Uncounted, Missing, CountedIn, Renewing, Waking, Placed
<1>7. c = 0 => to \notin Missing
  BY <1>1, PlacedIncrement DEF Placed, Moves
<1> QED
  BY <1>1, <1>2, <1>5, <1>6, <1>7 DEF Moves

LEMMA IncrementStays ==
  ASSUME Typed, Placed, Housed, NEW c \in {0, 1}, IncrementChange(c)
  PROVE  /\ UNCHANGED <<running, call, previous>> /\ Mine' = Mine
         /\ pc'[0] \in Outside \/ pc[0] \in Outside =>
              c = 1 /\ pc'[0] = pc[0] /\ tmp'[0] = tmp[0]
<1>1. ASSUME NEW p \in Outside PROVE p \notin Uncounted \cup CountedIn
  BY <1>1 DEF Outside, Uncounted, CountedIn, Renewing, Waking, Entering, Deciding, Asleep, Joined
<1> QED
  BY <1>1, IncrementApart DEF Mine

(* What a call does to its locals.                                          *)
CallKeeping ==
  \/ /\ pc[0] \notin {"enter", "reenter", "entered", "reentered", "left", "target", "decide"}
     /\ KeepsLocals({})
  \/ pc[0] = "unwind" /\ call'[running] = NoCall
  \/ /\ pc[0] \in {"enter", "reenter"} /\ KeepsLocals({"overflows"})
     /\ call'[running].overflows = k.overflows
  \/ /\ pc[0] = "entered" /\ KeepsLocals({"entered", "start"})
     /\ call'[running].entered = k.ticks /\ call'[running].start = k.ticks
  \/ pc[0] = "reentered" /\ KeepsLocals({"entered"}) /\ call'[running].entered = k.ticks
  \/ /\ pc[0] \in {"passed", "elapsed"} /\ KeepsLocals({"expired"})
     /\ pc[0] = "passed" => tmp[0] # Mine.overflows
     /\ pc[0] = "elapsed" => ~(W(k.ticks - Mine.entered) < Mine.left)
  \/ /\ pc[0] = "left" /\ KeepsLocals({"left"})
     /\ call'[running].left = W(Mine.left - W(k.ticks - Mine.entered))
  \/ /\ pc[0] = "target" /\ KeepsLocals({"target"})
     /\ call'[running].target = k.ticks + Mine.left
  \/ /\ pc[0] = "decide" /\ KeepsLocals({"target"})
     /\ call'[running].target = previous[running] + Mine.asked

LEMMA CallKeeps ==
  ASSUME Typed, Placed, running \in Tasks, CallChange
  PROVE  /\ CallKeeping /\ \A t \in Tasks \ {running} : call'[t] = call[t]
         /\ call' \in [Tasks -> Locals]
<1>1. call \in [Tasks -> Locals] /\ call' \in [Tasks -> Locals]
  BY TypedCall DEF Typed
<1>2. /\ k.ticks \in Nat /\ k.overflows \in Nat /\ Mine.left \in 0 .. portMAX_DELAY
      /\ Mine.asked \in 0 .. portMAX_DELAY /\ Mine.entered \in Nat /\ previous[running] \in Nat
  BY LocalsTyped, KernelTyped DEF Typed, Mine
<1> DEFINE Others == \A t \in Tasks \ {running} : call'[t] = call[t]
<1>3. CASE /\ pc[0] \notin {"enter", "reenter", "entered", "reentered", "left", "target", "decide"}
           /\ UNCHANGED call
  BY <1>1, <1>3 DEF CallKeeping, KeepsLocals
<1>4. CASE pc[0] \in {"enter", "reenter"} /\ Note("overflows", k.overflows)
  <2>1. KeepsLocals({"overflows"}) /\ call'[running].overflows = k.overflows
    BY <1>1, <1>2, <1>4, NoteOverflows
  <2> QED
    BY <1>1, <1>4, <2>1 DEF CallKeeping, KeepsLocals
<1>5. CASE /\ pc[0] = "entered"
           /\ call' = [call EXCEPT ![running].entered = k.ticks, ![running].start = k.ticks]
  <2>1. /\ KeepsLocals({"entered", "start"})
        /\ call'[running].entered = k.ticks /\ call'[running].start = k.ticks
    BY <1>1, <1>2, <1>5, NoteStart
  <2> QED
    BY <1>1, <1>5, <2>1 DEF CallKeeping, KeepsLocals
<1>6. CASE pc[0] = "reentered" /\ Note("entered", k.ticks)
  <2>1. KeepsLocals({"entered"}) /\ call'[running].entered = k.ticks
    BY <1>1, <1>2, <1>6, NoteEntered
  <2> QED
    BY <1>1, <1>6, <2>1 DEF CallKeeping, KeepsLocals
<1>7. CASE /\ pc[0] \in {"passed", "elapsed"} /\ Note("expired", TRUE)
           /\ pc[0] = "passed" => tmp[0] # Mine.overflows
           /\ pc[0] = "elapsed" => ~(W(k.ticks - Mine.entered) < Mine.left)
  <2>1. KeepsLocals({"expired"})
    BY <1>1, <1>7, NoteExpired
  <2> QED
    BY <1>1, <1>7, <2>1 DEF CallKeeping, KeepsLocals
<1>8. CASE pc[0] = "left" /\ Note("left", W(Mine.left - W(k.ticks - Mine.entered)))
  <2>1. k.ticks - Mine.entered \in Int /\ Mine.left \in Int
    BY <1>2
  <2>2. W(k.ticks - Mine.entered) \in 0 .. portMAX_DELAY
    BY <2>1, Wrapping
  <2>3. Mine.left - W(k.ticks - Mine.entered) \in Int
    BY <2>1, <2>2
  <2>4. W(Mine.left - W(k.ticks - Mine.entered)) \in 0 .. portMAX_DELAY
    BY <2>3, Wrapping
  <2>5. /\ KeepsLocals({"left"})
        /\ call'[running].left = W(Mine.left - W(k.ticks - Mine.entered))
    BY <1>1, <1>8, <2>4, NoteLeft
  <2> QED
    BY <1>1, <1>8, <2>5 DEF CallKeeping, KeepsLocals
<1>9. CASE pc[0] = "target" /\ Note("target", k.ticks + Mine.left)
  <2>1. k.ticks + Mine.left \in Nat
    BY <1>2
  <2>2. KeepsLocals({"target"}) /\ call'[running].target = k.ticks + Mine.left
    BY <1>1, <1>9, <2>1, NoteTarget
  <2> QED
    BY <1>1, <1>9, <2>2 DEF CallKeeping, KeepsLocals
<1>10. CASE pc[0] = "decide" /\ Note("target", previous[running] + Mine.asked)
  <2>1. previous[running] + Mine.asked \in Nat
    BY <1>2
  <2>2. KeepsLocals({"target"}) /\ call'[running].target = previous[running] + Mine.asked
    BY <1>1, <1>10, <2>1, NoteTarget
  <2> QED
    BY <1>1, <1>10, <2>2 DEF CallKeeping, KeepsLocals
<1>11. CASE /\ pc[0] = "unwind"
            /\ Own(IF Mine.op = "wait" /\ ~Mine.expired THEN Mine ELSE NoCall)
  <2>1. (IF Mine.op = "wait" /\ ~Mine.expired THEN Mine ELSE NoCall) \in {call[running], NoCall}
    BY DEF Mine
  <2>2. PICK r \in {call[running], NoCall} : Own(r)
    BY <1>11, <2>1
  <2>3. call'[running] = r /\ Others
    BY <1>1, <2>2 DEF Own
  <2>4. r = call[running] => KeepsLocals({})
    BY <1>1, <2>3 DEF KeepsLocals
  <2> QED
    BY <1>1, <1>11, <2>2, <2>3, <2>4 DEF CallKeeping
<1> QED
  BY <1>3, <1>4, <1>5, <1>6, <1>7, <1>8, <1>9, <1>10, <1>11, CallLocalsChanges
     DEF CallLocalsChange

LEMMA NotWrappedIncrement ==
  ASSUME Typed, Placed, Housed, Regular, NotWrapped, NEW c \in {0, 1}, IncrementChange(c),
         k'.ticks >= k.ticks
  PROVE  NotWrapped'
<1>1. PICK to : Moves(c, to) /\ IncrementGoes(c, to)
  BY IncrementMoves
<1>2. k.ticks \in Nat /\ W(k.ticks) = k.ticks /\ tmp[c] \in Nat
  BY TimeNow DEF Typed
<1>3. pc[c] \notin {"swap", "swapped", "halted"} \cup Renewing /\ (pc[c] = "wrap" => W(k.ticks) # 0)
  BY <1>2 DEF NotWrapped
<1>4. to \notin {"swap", "swapped", "halted"} \cup Renewing /\ (to = "wrap" => pc[c] = "counted")
  BY <1>1, <1>3 DEF IncrementGoes, Renewing
<1>5. k'.delayed = 1 /\ k'.overflow = 2 /\ k'.overflows = 0
  BY <1>3, IncrementLists DEF SameRoles, NotWrapped
<1>6. pc[c] = "counted" => k'.ticks = tmp[c] + 1
  BY IncrementCounts
<1>7. k'.ticks \in Nat
  BY <1>2, IncrementCounts
<1>8. ASSUME NEW d \in {0, 1}
      PROVE  /\ pc'[d] \notin {"swap", "swapped", "halted"} \cup Renewing
             /\ pc'[d] = "wrap" => k'.ticks > 0
  BY <1>1, <1>2, <1>4, <1>6, <1>7 DEF NotWrapped, Moves
<1>9. pc'[0] = "passed" => tmp'[0] = 0
  BY IncrementApart DEF NotWrapped, Uncounted, CountedIn, Renewing, Waking
<1>10. UNCHANGED call
  BY IncrementApart
<1> QED
  BY <1>5, <1>8, <1>9, <1>10 DEF NotWrapped

LEMMA NotWrappedCall ==
  ASSUME Typed, Placed, Regular, NotWrapped, running \in Tasks, CallChange
  PROVE  NotWrapped'
<1>1. PICK to : Moves(0, to) /\ CallGoes(to)
  BY CallMoves
<1>2. call \in [Tasks -> Locals] /\ k.ticks \in Nat /\ k.overflows = 0
  BY TimeNow DEF Typed, NotWrapped
<1>3. k'.delayed = 1 /\ k'.overflow = 2 /\ k'.overflows = 0 /\ k'.ticks = k.ticks
  BY CallCounts DEF SameRoles, NotWrapped
<1>4. to \notin {"swap", "swapped", "halted", "wrap"} \cup Renewing
  BY <1>1 DEF CallGoes, Renewing
<1>5. to = "passed" => tmp'[0] = 0
  <2>1. tmp \in [{0, 1} -> Nat]
    BY DEF Typed
  <2>2. to = "passed" => Read(0, k.overflows)
    BY <1>1 DEF CallGoes, Entering, Deciding, Asleep, Joined
  <2> QED
    BY <1>2, <2>1, <2>2, ReadTyped
<1>6. ASSUME NEW t \in Tasks PROVE call'[t].overflows = 0
  <2>1. call[t].overflows = 0 /\ call[running].overflows = 0
    BY DEF NotWrapped
  <2>2. CallKeeping /\ \A u \in Tasks \ {running} : call'[u] = call[u]
    BY CallKeeps
  <2>3. /\ \A F : KeepsLocals(F) /\ "overflows" \notin F =>
                  call'[running].overflows = call[running].overflows
    BY DEF KeepsLocals, Fields
  <2>4. call'[running].overflows = 0
    BY <1>2, <2>1, <2>2, <2>3, NoCallTyped DEF CallKeeping
  <2> QED
    BY <2>1, <2>2, <2>4
<1> QED
  BY <1>1, <1>3, <1>4, <1>5, <1>6 DEF NotWrapped, Moves

(* A list in order.                                                         *)
LEMMA SortedHead ==
  ASSUME k \in Kernel, NEW s \in Seq(Tasks), Sorted(s), s # <<>>
  PROVE  /\ \A t \in ToSet(s) : k.wake[Head(s)] <= k.wake[t]
         /\ Head(s) \in ToSet(s) /\ Head(s) \in Tasks
<1>1. /\ Len(s) \in Nat \ {0} /\ DOMAIN s = 1 .. Len(s) /\ Head(s) = s[1]
      /\ ToSet(s) = {s[n] : n \in 1 .. Len(s)}
  BY EntriesOf, EmptySeq
<1>2. \A t \in ToSet(s) : k.wake[Head(s)] <= k.wake[t]
  BY <1>1 DEF Sorted
<1>3. Head(s) \in ToSet(s)
  BY <1>1
<1> QED
  BY <1>2, <1>3, EntriesOf

LEMMA SortedWithout ==
  ASSUME k \in Kernel, NEW s \in Seq(Tasks), Sorted(s), NEW T
  PROVE  /\ Sorted(Without(s, T)) /\ ToSet(Without(s, T)) = ToSet(s) \ T
         /\ Without(s, T) \in Seq(Tasks)
<1> DEFINE r == Without(s, T)
<1>1. r \in Seq(Tasks) /\ ToSet(r) = ToSet(s) \ T
  BY WithoutEntries
<1>2. PICK f \in [1 .. Len(r) -> 1 .. Len(s)] :
        /\ \A i, j \in 1 .. Len(r) : i < j => f[i] < f[j]
        /\ \A i \in 1 .. Len(r) : r[i] = s[f[i]]
  BY WithoutEntries
<1>3. DOMAIN s = 1 .. Len(s)
  OBVIOUS
<1> HIDE DEF r
<1>4. DOMAIN r = 1 .. Len(r) /\ Len(r) \in Nat
  BY <1>1
<1>5. ASSUME NEW m \in DOMAIN r, NEW n \in DOMAIN r, m <= n
      PROVE  k.wake[r[m]] <= k.wake[r[n]]
  <2>1. m \in 1 .. Len(r) /\ n \in 1 .. Len(r) /\ (m = n \/ m < n)
    BY <1>4, <1>5
  <2>2. f[m] \in DOMAIN s /\ f[n] \in DOMAIN s /\ f[m] <= f[n]
    BY <1>2, <1>3, <2>1
  <2>3. k.wake[s[f[m]]] <= k.wake[s[f[n]]]
    BY <2>2 DEF Sorted
  <2> QED
    BY <1>2, <2>1, <2>3
<1>6. Sorted(r)
  BY <1>5 DEF Sorted
<1> QED
  BY <1>1, <1>6 DEF r

LEMMA SortedInsert ==
  ASSUME k \in Kernel, NEW s \in Seq(Tasks), Sorted(s), NEW t \in Tasks, k.wake[t] < Width,
         \A x \in ToSet(s) : k.wake[x] < Width
  PROVE  Sorted(InsertByWake(s, t))
<1>1. PICK i \in 0 .. Len(s) :
             /\ InsertByWake(s, t) = InsertAt(s, i + 1, t)
             /\ \A m \in 1 .. i : W(k.wake[s[m]]) <= W(k.wake[t])
             /\ i < Len(s) => W(k.wake[s[i + 1]]) > W(k.wake[t])
  BY InsertFound
<1> DEFINE r == InsertByWake(s, t)
           w(x) == k.wake[x]
<1>2. /\ Len(s) \in Nat /\ DOMAIN s = 1 .. Len(s)
      /\ \A m \in 1 .. Len(s) : s[m] \in ToSet(s) /\ s[m] \in Tasks
  BY EntriesOf
<1>3. /\ r \in Seq(Tasks) /\ Len(r) = Len(s) + 1
      /\ \A m \in 1 .. Len(s) + 1 :
           r[m] = IF m <= i THEN s[m] ELSE IF m = i + 1 THEN t ELSE s[m - 1]
  <2> DEFINE q == InsertAt(s, i + 1, t)
  <2>1. /\ q \in Seq(Tasks) /\ Len(q) = Len(s) + 1
        /\ \A m \in 1 .. Len(s) + 1 :
             q[m] = IF m <= i THEN s[m] ELSE IF m = i + 1 THEN t ELSE s[m - 1]
    BY InsertEntries
  <2>2. r = q
    BY <1>1
  <2> HIDE DEF q, r
  <2> QED
    BY <2>1, <2>2
<1>4. DOMAIN r = 1 .. Len(s) + 1
  BY <1>2, <1>3, EntriesOf
<1>5. ASSUME NEW x \in Tasks PROVE w(x) \in Nat /\ (w(x) < Width => W(w(x)) = w(x))
  <2>1. w(x) \in Nat
    BY KernelTyped
  <2>2. w(x) \in Int /\ 0 <= w(x)
    BY <2>1
  <2> QED
    BY <2>1, <2>2, Wrapping
<1>6. /\ \A m \in 1 .. Len(s) : w(s[m]) \in Nat /\ W(w(s[m])) = w(s[m])
      /\ w(t) \in Nat /\ W(w(t)) = w(t)
  BY <1>2, <1>5
<1>7. /\ \A m \in 1 .. i : w(s[m]) <= w(t)
      /\ i < Len(s) => w(s[i + 1]) > w(t)
  <2>1. \A m \in 1 .. i : m \in 1 .. Len(s)
    BY <1>2
  <2>2. i < Len(s) => i + 1 \in 1 .. Len(s)
    BY <1>2
  <2> QED
    BY <1>1, <1>6, <2>1, <2>2
<1>8. \A m, n \in 1 .. Len(s) : m <= n => w(s[m]) <= w(s[n])
  BY <1>2 DEF Sorted
<1> HIDE DEF r, w
<1>9. \A n \in 1 .. Len(s) : n > i => w(t) <= w(s[n])
  <2>1. ASSUME NEW n \in 1 .. Len(s), n > i PROVE w(t) <= w(s[n])
    <3>1. i + 1 \in 1 .. Len(s) /\ i < Len(s) /\ i + 1 <= n
      BY <1>2, <2>1
    <3>2. w(s[i + 1]) <= w(s[n]) /\ w(s[i + 1]) > w(t)
      BY <1>7, <1>8, <3>1
    <3> QED
      BY <1>6, <3>1, <3>2
  <2> QED
    BY <2>1
<1>10. ASSUME NEW m \in 1 .. Len(s) + 1, NEW n \in 1 .. Len(s) + 1, m <= n
       PROVE  w(r[m]) <= w(r[n])
  <2>1. /\ r[m] = IF m <= i THEN s[m] ELSE IF m = i + 1 THEN t ELSE s[m - 1]
        /\ r[n] = IF n <= i THEN s[n] ELSE IF n = i + 1 THEN t ELSE s[n - 1]
    BY <1>3
  <2>2. CASE n <= i
    <3>1. m \in 1 .. Len(s) /\ n \in 1 .. Len(s) /\ m <= i
      BY <1>2, <1>10, <2>2
    <3> QED
      BY <1>8, <1>10, <2>1, <2>2, <3>1
  <2>3. CASE n = i + 1
    <3>1. CASE m = i + 1
      BY <1>6, <2>1, <2>3, <3>1
    <3>2. CASE m # i + 1
      <4>1. m \in 1 .. i /\ ~(n <= i)
        BY <1>2, <1>10, <2>3, <3>2
      <4> QED
        BY <1>7, <2>1, <2>3, <4>1
    <3> QED
      BY <3>1, <3>2
  <2>4. CASE n > i + 1
    <3>1. n - 1 \in 1 .. Len(s) /\ n - 1 > i /\ r[n] = s[n - 1]
      BY <1>2, <2>1, <2>4
    <3>2. CASE m <= i
      <4>1. m \in 1 .. Len(s) /\ m <= n - 1 /\ r[m] = s[m]
        BY <1>2, <2>1, <2>4, <3>2
      <4> QED
        BY <1>8, <3>1, <4>1
    <3>3. CASE m = i + 1
      <4>1. r[m] = t
        BY <2>1, <3>3
      <4> QED
        BY <1>9, <3>1, <4>1
    <3>4. CASE m > i + 1
      <4>1. m - 1 \in 1 .. Len(s) /\ m - 1 <= n - 1 /\ r[m] = s[m - 1]
        BY <1>2, <1>10, <2>1, <3>4
      <4> QED
        BY <1>8, <3>1, <4>1
    <3> QED
      BY <3>2, <3>3, <3>4
  <2> QED
    BY <1>2, <2>2, <2>3, <2>4
<1> QED
  BY <1>4, <1>10 DEF Sorted, r, w

LEMMA CoveredIncrement ==
  ASSUME Typed, Placed, Housed, Regular, NotWrapped, Covered, Alone, NEW c \in {0, 1}, IncrementChange(c),
         k'.ticks >= k.ticks, k'.ticks \in Nat
  PROVE  Covered'
<1> DEFINE s == k.list[1]
           P == Asleep \cup {"sleep", "sooner", "lower"}
<1>1. /\ k \in Kernel /\ s \in Seq(Tasks) /\ k.ticks \in Nat /\ Width \in Nat
      /\ k.delayed = 1 /\ pc[c] \notin {"newset", "swap", "swapped"}
  BY KernelTyped, TickAssumption DEF Typed, NotWrapped, Renewing
<1>2. Sorted(s) /\ \A t \in ToSet(s) : k.wake[t] < Width
  BY DEF Covered
<1>3. /\ UNCHANGED <<running, call>>
      /\ pc'[0] \in P => pc'[0] = pc[0]
      /\ pc'[0] \notin P => pc[0] \notin P
  <2>1. P \subseteq Outside
    BY DEF Outside, Deciding, Joined
  <2> QED
    BY <2>1, IncrementStays
<1>4. P = {"which", "later", "insert", "forever", "sleep", "sooner", "lower"}
  BY DEF Asleep
<1>5. /\ pc'[0] \in Asleep \cup {"sooner", "lower"} =>
           pc'[0] = pc[0] /\ k.wake[running] = Mine.target
      /\ pc'[0] \in {"sleep", "which"} => Mine.target < k'.ticks + Width
      /\ pc'[0] \in {"insert", "sooner", "lower"} => Mine.target < Width
  <2>1. pc'[0] \in {"sleep", "which"} => Mine.target < k'.ticks + Width
    <3>1. Mine.target \in Nat \/ pc[0] \notin {"sleep", "which"}
      BY LocalsTyped DEF Mine, Typed, Placed
    <3>2. pc[0] \in {"sleep", "which"} => Mine.target < k.ticks + Width
      BY DEF Covered
    <3> QED
      BY <1>1, <1>3, <3>1, <3>2 DEF Asleep
  <2> QED
    BY <1>3, <2>1 DEF Covered, Asleep
<1>6. \A t \in ToSet(s) :
        /\ pc[0] \notin {"sooner", "lower"} => k.unblock <= k.wake[t]
        /\ pc[0] = "sooner" /\ t # running => k.unblock <= k.wake[t]
        /\ pc[0] = "lower" => Mine.target <= k.wake[t]
  BY DEF Covered
<1>7. Mine' = Mine
  BY <1>3 DEF Mine
<1>8. ASSUME k'.wake = k.wake, Sorted(k.list[1])', ToSet(k'.list[1]) \subseteq ToSet(s),
             \A t \in ToSet(k'.list[1]) :
               /\ pc'[0] \notin {"sooner", "lower"} => k'.unblock <= k.wake[t]
               /\ pc'[0] = "sooner" /\ t # running => k'.unblock <= k.wake[t]
               /\ pc'[0] = "lower" => Mine.target <= k.wake[t]
      PROVE  Covered'
  <2>1. \A t \in ToSet(k'.list[1]) : k'.wake[t] < Width
    BY <1>2, <1>8
  <2>2. /\ pc'[0] \in Asleep \cup {"sooner", "lower"} => k'.wake[running'] = Mine'.target
        /\ pc'[0] \in {"sleep", "which"} => Mine'.target < k'.ticks + Width
        /\ pc'[0] \in {"insert", "sooner", "lower"} => Mine'.target < Width
    BY <1>3, <1>5, <1>7, <1>8
  <2>3. \A t \in ToSet(k'.list[1]) :
          /\ pc'[0] \notin {"sooner", "lower"} => k'.unblock <= k'.wake[t]
          /\ pc'[0] = "sooner" /\ t # running' => k'.unblock <= k'.wake[t]
          /\ pc'[0] = "lower" => Mine'.target <= k'.wake[t]
    BY <1>3, <1>7, <1>8
  <2> QED
    BY <1>8, <2>1, <2>2, <2>3, Zenon DEF Covered
<1>9. CASE k'.list = k.list /\ k'.wake = k.wake /\ SameUnblock
  <2>1. k'.list[1] = s /\ k'.wake = k.wake /\ k'.unblock = k.unblock
    BY <1>9 DEF SameUnblock
  <2>2. Sorted(k.list[1])'
    BY <1>2, <2>1 DEF Sorted
  <2>3. \A t \in ToSet(s) :
          /\ pc'[0] \notin {"sooner", "lower"} => k.unblock <= k.wake[t]
          /\ pc'[0] = "sooner" /\ t # running => k.unblock <= k.wake[t]
          /\ pc'[0] = "lower" => Mine.target <= k.wake[t]
    BY <1>3, <1>4, <1>6
  <2> HIDE DEF s
  <2> QED
    BY <1>8, <2>1, <2>2, <2>3
<1>10. CASE pc[c] = "set"
  <2>1. k'.list[1] = s /\ k'.wake = k.wake /\ k'.unblock = tmp[0] /\ pc[0] = "set"
    BY <1>10, IncrementLists DEF SameLists, Alone, Waking
  <2>2. ASSUME NEW t \in ToSet(s) PROVE k'.unblock <= k.wake[t]
    BY <2>1, <2>2 DEF Alone
  <2>3. Sorted(k.list[1])'
    BY <1>2, <2>1 DEF Sorted
  <2>4. \A t \in ToSet(s) : pc'[0] = "lower" => Mine.target <= k.wake[t]
    BY <1>3, <1>4, <1>6
  <2> HIDE DEF s
  <2> QED
    BY <1>8, <2>1, <2>2, <2>3, <2>4
<1>11. CASE pc[c] = "unlist"
  <2> DEFINE r == Without(s, {hand[c]})
  <2>1. k'.list[1] = r /\ k'.wake = k.wake /\ k'.unblock = k.unblock
    BY <1>11, IncrementLists DEF SameUnblock
  <2>2. Sorted(r) /\ ToSet(r) \subseteq ToSet(s)
    BY <1>1, <1>2, SortedWithout
  <2>3. \A t \in ToSet(s) :
          /\ pc'[0] \notin {"sooner", "lower"} => k.unblock <= k.wake[t]
          /\ pc'[0] = "sooner" /\ t # running => k.unblock <= k.wake[t]
          /\ pc'[0] = "lower" => Mine.target <= k.wake[t]
    BY <1>3, <1>4, <1>6
  <2> HIDE DEF r
  <2>4. Sorted(k.list[1])'
    BY <2>1, <2>2 DEF Sorted
  <2>5. ToSet(k'.list[1]) \subseteq ToSet(s)
    BY <2>1, <2>2
  <2> HIDE DEF s
  <2> QED
    BY <1>8, <2>1, <2>3, <2>4, <2>5
<1> QED
  BY <1>1, <1>9, <1>10, <1>11, IncrementLists DEF SameLists

(* What Covered says when core 0 is at p, of the list s and the wakes.      *)
CoverAt(p, t0, s, wake, unblock, now, target) ==
  /\ p \in Asleep \cup {"sooner", "lower"} => wake[t0] = target
  /\ p \in {"sleep", "which"} => target < now + Width
  /\ p \in {"insert", "sooner", "lower"} => target < Width
  /\ \A t \in ToSet(s) :
       /\ p \notin {"sooner", "lower"} => unblock <= wake[t]
       /\ p = "sooner" /\ t # t0 => unblock <= wake[t]
       /\ p = "lower" => target <= wake[t]

LEMMA CoveredCall ==
  ASSUME Typed, Placed, Homes, Regular, NotWrapped, Covered, Periods, running \in Tasks,
         CallChange
  PROVE  Covered'
<1> DEFINE s == k.list[1]
           L == {"sleep", "which", "later", "insert", "forever", "sooner", "lower"}
<1>1. PICK to : Moves(0, to) /\ CallGoes(to)
  BY CallMoves
<1>2. pc'[0] = to
  BY <1>1 DEF Moves
<1>3. /\ k \in Kernel /\ s \in Seq(Tasks) /\ Width \in Nat /\ k.unblock \in Nat
      /\ k.delayed = 1 /\ k.overflow = 2 /\ k.wake \in [Tasks -> Nat]
  BY KernelTyped, TickAssumption DEF Typed, NotWrapped, portMAX_DELAY
<1>4. k.ticks \in Nat /\ k.ticks < Width /\ W(k.ticks) = k.ticks /\ k'.ticks = k.ticks
  BY TimeNow, CallCounts
<1>5. /\ Mine.target \in Nat /\ Mine.left \in 0 .. portMAX_DELAY
      /\ Mine.asked \in 0 .. portMAX_DELAY /\ previous[running] \in Nat
      /\ tmp[0] \in Nat
  BY LocalsTyped DEF Typed, Mine
<1>6. /\ Sorted(s) /\ \A t \in ToSet(s) : k.wake[t] < Width /\ k.wake[t] \in Nat
      /\ ToSet(s) \subseteq Tasks
  BY <1>3, EntriesOf DEF Covered
<1>7. CoverAt(pc[0], running, s, k.wake, k.unblock, k.ticks, Mine.target)
  BY DEF Covered, CoverAt
<1>8. to \in L => pc[0] \in L \cup {"target", "decide"} /\ running' = running
  BY <1>1 DEF CallGoes, Entering, Deciding, Asleep, Joined
<1>9. to \in L => Mine'.target = IF pc[0] = "target" THEN k.ticks + Mine.left
                                 ELSE IF pc[0] = "decide" THEN previous[running] + Mine.asked
                                 ELSE Mine.target
  <2>1. \A F : KeepsLocals(F) /\ "target" \notin F => call'[running].target = call[running].target
    BY DEF KeepsLocals, Fields
  <2>2. CallKeeping
    BY CallKeeps
  <2> QED
    BY <1>8, <2>1, <2>2 DEF CallKeeping, Mine
<1>10. Mine.target < Width => W(Mine.target) = Mine.target
  <2>1. Mine.target \in Int /\ 0 <= Mine.target
    BY <1>5
  <2> QED
    BY <2>1, Wrapping
<1>11. ASSUME Sorted(k.list[1])', \A t \in ToSet(k'.list[1]) : k'.wake[t] < Width,
              CoverAt(to, running', k'.list[1], k'.wake, k'.unblock, k.ticks, Mine'.target)
       PROVE  Covered'
  BY <1>2, <1>4, <1>11 DEF Covered, CoverAt
<1>12. CASE pc[0] \notin {"sleep", "later", "insert", "lower"} /\ SameLists /\ SameUnblock
  <2>1. k'.list[1] = s /\ k'.wake = k.wake /\ k'.unblock = k.unblock
    BY <1>12 DEF SameLists, SameUnblock
  <2>2. Sorted(k.list[1])'
    BY <1>6, <2>1 DEF Sorted
  <2> HIDE DEF s
  <2>3. CASE to = "sleep"
    <3>1. pc[0] \in {"target", "decide"} /\ running' = running
      BY <1>1, <2>3 DEF CallGoes, Entering, Deciding, Asleep, Joined
    <3>2. Mine'.target < k.ticks + Width
      <4>1. portMAX_DELAY < Width /\ portMAX_DELAY \in Nat /\ Width \in Nat
        BY TickAssumption DEF portMAX_DELAY
      <4>2. pc[0] = "decide" => previous[running] <= k.ticks
        BY <1>4, <1>5 DEF Periods
      <4>3. CASE pc[0] = "target"
        <5>1. Mine'.target = k.ticks + Mine.left
          BY <1>9, <2>3, <4>3
        <5> QED
          BY <1>4, <1>5, <4>1, <5>1
      <4>4. CASE pc[0] = "decide"
        <5>1. Mine'.target = previous[running] + Mine.asked
          BY <1>9, <2>3, <4>4
        <5> QED
          BY <1>4, <1>5, <4>1, <4>2, <4>4, <5>1
      <4> QED
        BY <3>1, <4>3, <4>4
    <3>3. \A t \in ToSet(s) : k.unblock <= k.wake[t]
      BY <1>7, <3>1 DEF CoverAt
    <3>4. CoverAt(to, running, s, k.wake, k.unblock, k.ticks, Mine'.target)
      BY <2>3, <3>2, <3>3 DEF CoverAt, Asleep
    <3> QED
      BY <1>6, <1>11, <2>1, <2>2, <3>1, <3>4
  <2>4. CASE to \in L \ {"sleep"}
    <3>1. /\ \/ pc[0] = "which" /\ to = IF W(Mine.target) < W(k.ticks) THEN "later" ELSE "insert"
             \/ pc[0] = "sooner" /\ to = "lower" /\ W(Mine.target) < k.unblock
          /\ running' = running
      BY <1>1, <1>12, <2>4 DEF CallGoes, Entering, Deciding, Asleep, Joined
    <3>2. Mine'.target = Mine.target
      BY <1>9, <2>4, <3>1
    <3>3. k.wake[running] = Mine.target
      BY <1>7, <3>1 DEF CoverAt, Asleep
    <3>4. CASE pc[0] = "which"
      <4>1. Mine.target < k.ticks + Width /\ \A t \in ToSet(s) : k.unblock <= k.wake[t]
        BY <1>7, <3>4 DEF CoverAt
      <4>2. ASSUME to = "insert", Mine.target >= Width PROVE FALSE
        <5>1. Mine.target \in Int /\ Width <= Mine.target /\ Mine.target < 2 * Width
          BY <1>3, <1>4, <1>5, <4>1, <4>2
        <5>2. W(Mine.target) = Mine.target - Width
          BY <5>1, Wrapping
        <5>3. ~(W(Mine.target) < k.ticks)
          BY <1>4, <3>1, <3>4, <4>2
        <5> QED
          BY <1>3, <1>4, <1>5, <4>1, <5>2, <5>3
      <4>3. to \in {"later", "insert"} /\ (to = "insert" => Mine.target < Width)
        BY <1>3, <1>5, <3>1, <3>4, <4>2
      <4>4. CoverAt(to, running, s, k.wake, k.unblock, k.ticks, Mine.target)
        BY <3>3, <4>1, <4>3 DEF CoverAt
      <4> QED
        BY <1>6, <1>11, <2>1, <2>2, <3>1, <3>2, <4>4
    <3>5. CASE pc[0] = "sooner" /\ to = "lower"
      <4>1. /\ Mine.target < Width /\ W(Mine.target) < k.unblock
            /\ \A t \in ToSet(s) : t # running => k.unblock <= k.wake[t]
        BY <1>7, <3>1, <3>5 DEF CoverAt
      <4>2. \A t \in ToSet(s) : Mine.target <= k.wake[t]
        BY <1>3, <1>5, <1>6, <1>10, <3>3, <4>1
      <4>3. CoverAt(to, running, s, k.wake, k.unblock, k.ticks, Mine.target)
        BY <3>3, <3>5, <4>1, <4>2 DEF CoverAt
      <4> QED
        BY <1>6, <1>11, <2>1, <2>2, <3>1, <3>2, <4>3
    <3> QED
      BY <3>1, <3>4, <3>5
  <2>5. CASE to \notin L
    <3>1. CASE pc[0] = "sooner"
      <4>1. /\ Mine.target < Width /\ k.wake[running] = Mine.target
            /\ \A t \in ToSet(s) : t # running => k.unblock <= k.wake[t]
        BY <1>7, <3>1 DEF CoverAt
      <4>2. ~(W(Mine.target) < k.unblock)
        BY <1>1, <2>5, <3>1 DEF CallGoes, Entering, Deciding, Asleep, Joined
      <4> QED
        BY <1>3, <1>5, <1>6, <1>10, <1>11, <2>1, <2>2, <2>5, <4>1, <4>2 DEF CoverAt, Asleep
    <3>2. CASE pc[0] # "sooner"
      <4>1. \A t \in ToSet(s) : k.unblock <= k.wake[t]
        BY <1>7, <1>12, <3>2 DEF CoverAt
      <4>2. CoverAt(to, running', s, k.wake, k.unblock, k.ticks, Mine'.target)
        BY <2>5, <4>1 DEF CoverAt, Asleep
      <4> QED
        BY <1>6, <1>11, <2>1, <2>2, <4>2
    <3> QED
      BY <3>1, <3>2
  <2> QED
    BY <2>3, <2>4, <2>5
<1>13. CASE pc[0] = "lower" /\ SameLists /\ k'.unblock = W(Mine.target)
  <2>1. k'.list[1] = s /\ k'.wake = k.wake
    BY <1>13 DEF SameLists
  <2>2. Sorted(k.list[1])'
    BY <1>6, <2>1 DEF Sorted
  <2>3. to = "resume"
    BY <1>1, <1>13 DEF CallGoes, Entering, Deciding, Asleep, Joined
  <2>4. k'.unblock = Mine.target /\ \A t \in ToSet(s) : Mine.target <= k.wake[t]
    BY <1>7, <1>10, <1>13 DEF CoverAt
  <2> HIDE DEF s
  <2>5. CoverAt(to, running', s, k.wake, k'.unblock, k.ticks, Mine'.target)
    BY <2>3, <2>4 DEF CoverAt, Asleep
  <2> QED
    BY <1>6, <1>11, <2>1, <2>2, <2>5
<1>14. CASE /\ pc[0] = "sleep" /\ k'.list = k.list /\ k'.ready = k.ready \ {running}
            /\ k'.wake[running] = Mine.target /\ SameUnblock
            /\ \A t \in Tasks \ {running} : k'.wake[t] = k.wake[t]
  <2>1. running \notin ToSet(s)
    BY <1>14 DEF Homes, Apart, On, Deciding
  <2>2. k'.list[1] = s /\ k'.unblock = k.unblock /\ \A t \in ToSet(s) : k'.wake[t] = k.wake[t]
    BY <1>6, <1>14, <2>1 DEF SameUnblock
  <2>3. Sorted(k.list[1])'
    <3>1. \A m \in DOMAIN s : s[m] \in ToSet(s)
      BY <1>3, EntriesOf
    <3> HIDE DEF s
    <3> QED
      BY <1>6, <2>2, <3>1 DEF Sorted
  <2>4. to \in {"which", "forever"} /\ running' = running
    BY <1>1, <1>14 DEF CallGoes, Entering, Deciding, Asleep, Joined
  <2>5. /\ Mine.target < k.ticks + Width /\ \A t \in ToSet(s) : k.unblock <= k.wake[t]
    BY <1>7, <1>14 DEF CoverAt
  <2>6. Mine'.target = Mine.target
    BY <1>9, <1>14, <2>4
  <2> HIDE DEF s
  <2>7. CoverAt(to, running', s, k'.wake, k'.unblock, k.ticks, Mine'.target)
    BY <1>14, <2>2, <2>4, <2>5, <2>6 DEF CoverAt, Asleep
  <2> QED
    BY <1>6, <1>11, <2>2, <2>3, <2>7
<1>15. CASE pc[0] = "later" /\ k'.wake = k.wake /\ Relisted(2, InsertByWake(k.list[2], running))
  <2>1. k'.list[1] = s /\ k'.unblock = k.unblock
    BY <1>15 DEF Relisted, SameUnblock
  <2>2. Sorted(k.list[1])'
    BY <1>6, <1>15, <2>1 DEF Sorted
  <2>3. to = "resume"
    BY <1>1, <1>15 DEF CallGoes, Entering, Deciding, Asleep, Joined
  <2>4. \A t \in ToSet(s) : k.unblock <= k.wake[t]
    BY <1>7, <1>15 DEF CoverAt
  <2> HIDE DEF s
  <2>5. CoverAt(to, running', s, k.wake, k.unblock, k.ticks, Mine'.target)
    BY <2>3, <2>4 DEF CoverAt, Asleep
  <2> QED
    BY <1>6, <1>11, <1>15, <2>1, <2>2, <2>5
<1>16. CASE pc[0] = "insert" /\ k'.wake = k.wake /\ Relisted(1, InsertByWake(s, running))
  <2> DEFINE r == InsertByWake(s, running)
  <2>1. k'.list[1] = r /\ k'.unblock = k.unblock
    BY <1>16 DEF Relisted, SameUnblock
  <2>2. /\ k.wake[running] = Mine.target /\ Mine.target < Width
        /\ \A t \in ToSet(s) : k.unblock <= k.wake[t]
    BY <1>7, <1>16 DEF CoverAt, Asleep
  <2>3. Sorted(r)
    BY <1>3, <1>6, <2>2, SortedInsert
  <2>4. IsInjective(s) /\ running \notin ToSet(s)
    BY <1>16 DEF Homes, Apart, On, Asleep
  <2>5. ToSet(r) = ToSet(s) \cup {running}
    BY <1>3, <2>4, InsertJoins
  <2> HIDE DEF r, s
  <2>6. Sorted(k.list[1])'
    BY <1>16, <2>1, <2>3 DEF Sorted
  <2>7. to = "sooner" /\ running' = running
    BY <1>1, <1>16 DEF CallGoes, Entering, Deciding, Asleep, Joined
  <2>8. Mine'.target = Mine.target
    BY <1>9, <1>16, <2>7
  <2>9. CoverAt(to, running', r, k.wake, k.unblock, k.ticks, Mine'.target)
    BY <2>2, <2>5, <2>7, <2>8 DEF CoverAt
  <2> QED
    BY <1>6, <1>11, <1>16, <2>1, <2>2, <2>5, <2>6, <2>9
<1> QED
  BY <1>3, <1>12, <1>13, <1>14, <1>15, <1>16, CallLists

LEMMA PeriodsIncrement ==
  ASSUME Typed, Typed', Placed, Housed, Regular, NotWrapped, Alone, Periods,
         NEW c \in {0, 1}, IncrementChange(c), k'.ticks >= k.ticks
  PROVE  Periods'
<1>1. /\ UNCHANGED <<running, call, previous>> /\ Mine' = Mine
      /\ pc'[0] \in Outside \/ pc[0] \in Outside => pc'[0] = pc[0] /\ tmp'[0] = tmp[0]
  BY IncrementStays
<1>2. /\ k.ticks \in Nat /\ k'.ticks \in Nat /\ k.list[1] \in Seq(Tasks)
      /\ k.wake \in [Tasks -> Nat] /\ tmp[0] \in Nat /\ previous \in [Tasks -> Nat]
  BY KernelTyped, TimeNow DEF Typed, Kernel
<1>3. \A t \in Tasks : previous[t] <= k.ticks => previous[t] <= k'.ticks
  BY <1>2
<1>4. /\ pc[0] = "sleep" => pc'[0] = "sleep"
      /\ pc'[0] \in Asleep \cup {"sleep", "decide"} => pc'[0] = pc[0] /\ tmp'[0] = tmp[0]
  BY <1>1 DEF Outside, Deciding
<1>5. /\ pc'[0] \in Asleep \cup {"sleep"} => previous[running] <= Mine.target
      /\ pc'[0] = "decide" => previous[running] <= tmp'[0] /\ tmp'[0] <= k'.ticks
  BY <1>2, <1>4 DEF Periods, Asleep
<1>6. \A t \in Tasks : /\ t \in k.ready => \/ previous[t] <= k'.ticks
                                           \/ t = running /\ pc'[0] = "sleep" /\ call[t].op = "until"
                       /\ On(t, 1) => previous[t] <= k.wake[t]
  BY <1>3, <1>4 DEF Periods
<1>7. /\ k'.wake = k.wake /\ \A t : On(t, 1)' => On(t, 1)
      /\ \A t \in k'.ready : t \in k.ready \/ (pc[0] = "move" /\ t = hand[0])
  <2>1. CASE pc[c] \notin {"unlist", "move"}
    <3>1. k'.list = k.list /\ k'.wake = k.wake /\ k'.ready = k.ready
      BY <2>1, IncrementLists DEF SameLists
    <3>2. k'.list[1] = k.list[1]
      BY <3>1
    <3>3. \A t : On(t, 1)' => On(t, 1)
      BY <3>2, Zenon DEF On
    <3> QED
      BY <3>1, <3>3
  <2>2. CASE pc[c] = "unlist"
    <3>1. /\ k'.ready = k.ready \ {hand[c]} /\ k'.wake = k.wake
          /\ k'.list[1] = Without(k.list[1], {hand[c]})
      BY <2>2, IncrementLists
    <3>2. ToSet(k'.list[1]) = ToSet(k.list[1]) \ {hand[c]}
      BY <1>2, <3>1, WithoutEntries
    <3>3. \A t : On(t, 1)' => On(t, 1)
      <4>1. ToSet(k'.list[1]) \subseteq ToSet(k.list[1])
        BY <3>2
      <4> QED
        BY <4>1, Zenon DEF On
    <3> QED
      BY <3>1, <3>3
  <2>3. CASE pc[c] = "move"
    <3>1. k'.ready = k.ready \cup {hand[c]} /\ k'.wake = k.wake /\ k'.list = k.list
      BY <2>3, IncrementLists
    <3>2. c = 0
      BY <2>3 DEF Alone, Waking
    <3>3. k'.list[1] = k.list[1]
      BY <3>1
    <3>4. \A t : On(t, 1)' => On(t, 1)
      BY <3>3, Zenon DEF On
    <3> QED
      BY <2>3, <3>1, <3>2, <3>4
  <2> QED
    BY <2>1, <2>2, <2>3
<1>8. ASSUME pc[0] = "move" PROVE previous[hand[0]] <= k'.ticks
  <2>1. hand[0] \in Tasks
    BY <1>8 DEF Housed
  <2>2. previous[hand[0]] <= k.wake[hand[0]] /\ k.wake[hand[0]] <= k.ticks
    BY <1>8 DEF Alone
  <2>3. previous[hand[0]] \in Nat /\ k.wake[hand[0]] \in Nat
    BY <1>2, <2>1
  <2> QED
    BY <1>2, <2>2, <2>3
<1> QED
  BY <1>1, <1>5, <1>6, <1>7, <1>8 DEF Periods

(* vTaskDelayUntil lets the task go on only if its time has come.           *)
LEMMA NotDelayed ==
  ASSUME NEW first \in Nat, NEW second \in Nat, NEW from \in Nat, NEW n \in 0 .. portMAX_DELAY,
         from <= first, first <= second, second < Width,
         ~ShouldDelay(first, second, from, from + n)
  PROVE  from + n <= second
<1>1. Width \in Nat /\ n < Width /\ n \in Nat
  BY TickAssumption DEF portMAX_DELAY
<1>2. W(first) = first /\ W(from) = from /\ W(second) = second
  <2>1. /\ first \in Int /\ 0 <= first /\ first < Width
        /\ from \in Int /\ 0 <= from /\ from < Width
        /\ second \in Int /\ 0 <= second /\ second < Width
    BY <1>1
  <2> QED
    BY <2>1, Wrapping
<1>3. ~(W(from + n) < from) /\ ~(W(from + n) > second)
  <2>1. ~(W(first) < W(from))
    BY <1>2
  <2>2. ~(W(from + n) < W(from)) /\ ~(W(from + n) > W(second))
    BY <2>1, Zenon DEF ShouldDelay
  <2> QED
    BY <1>2, <2>2
<1>4. CASE from + n < Width
  <2>1. from + n \in Int /\ 0 <= from + n
    BY <1>1
  <2>2. W(from + n) = from + n
    BY <1>4, <2>1, Wrapping
  <2> QED
    BY <1>1, <1>3, <2>2
<1>5. CASE from + n >= Width
  <2> DEFINE x == from + n
  <2>1. x \in Int /\ Width <= x /\ x < 2 * Width
    BY <1>1, <1>5
  <2> HIDE DEF x
  <2>2. W(x) = x - Width
    BY <2>1, Wrapping
  <2>3. x - Width < from
    BY <1>1 DEF x
  <2> QED
    BY <1>3, <2>2, <2>3 DEF x
<1> QED
  BY <1>1, <1>4, <1>5

LEMMA CallPrevious ==
  ASSUME CallChange
  PROVE  IF pc[0] = "decide"
         THEN previous' = [previous EXCEPT ![running] = previous[running] + Mine.asked]
         ELSE UNCHANGED previous
<1>1. \/ pc[0] = "decide" /\ previous' = [previous EXCEPT ![running] = previous[running] + Mine.asked]
      \/ pc[0] # "decide" /\ UNCHANGED previous
  BY Zenon DEF CallChange, CallNotes, CallGoesOn, CallReads, CallDecides, CallUpdates,
     CallForever, CallUnmisses, CallReturns, task
<1> QED
  BY <1>1

LEMMA PeriodsCall ==
  ASSUME Typed, Typed', Placed, Homes, Regular, NotWrapped, Covered, Periods, running \in Tasks,
         CallChange
  PROVE  Periods'
<1>1. PICK to : Moves(0, to) /\ CallGoes(to)
  BY CallMoves
<1>2. pc'[0] = to
  BY <1>1 DEF Moves
<1>3. /\ k \in Kernel /\ k.delayed = 1 /\ k.overflow = 2 /\ k.wake \in [Tasks -> Nat]
      /\ k.list[1] \in Seq(Tasks) /\ tmp[0] \in Nat /\ previous \in [Tasks -> Nat]
      /\ tmp \in [{0, 1} -> Nat]
  BY KernelTyped DEF Typed, NotWrapped
<1>4. k.ticks \in Nat /\ k.ticks < Width /\ k'.ticks = k.ticks
  BY TimeNow, CallCounts
<1>5. /\ Mine.target \in Nat /\ Mine.left \in 0 .. portMAX_DELAY
      /\ Mine.asked \in 0 .. portMAX_DELAY /\ previous[running] \in Nat /\ portMAX_DELAY \in Nat
  BY LocalsTyped, TickAssumption DEF Typed, Mine, portMAX_DELAY
<1>6. pc[0] \in Deciding => running \in k.ready /\ ~On(running, 1)
  BY DEF Homes, Apart
<1>7. pc[0] \in Deciding \ {"sleep"} => previous[running] <= k.ticks
  BY <1>6 DEF Periods
<1>8. \A t \in Tasks : t \in k.ready /\ (pc[0] # "sleep" \/ t # running) => previous[t] <= k.ticks
  BY DEF Periods
<1>9. ASSUME to \in Asleep \cup {"sleep"} PROVE previous'[running'] <= Mine'.target
  <2>1. running' = running /\ pc[0] \in {"target", "decide", "sleep", "which"}
    BY <1>1, <1>9 DEF CallGoes, Entering, Deciding, Asleep, Joined
  <2>2. \A F : KeepsLocals(F) /\ "target" \notin F => call'[running].target = call[running].target
    BY DEF KeepsLocals, Fields
  <2>3. Mine'.target = IF pc[0] = "target" THEN k.ticks + Mine.left
                       ELSE IF pc[0] = "decide" THEN previous[running] + Mine.asked
                       ELSE Mine.target
    BY <2>1, <2>2, CallKeeps DEF CallKeeping, Mine
  <2>4. previous'[running] = IF pc[0] = "decide" THEN previous[running] + Mine.asked
                             ELSE previous[running]
    BY <1>3, CallPrevious
  <2>5. pc[0] \in {"sleep", "which"} => previous[running] <= Mine.target
    BY DEF Periods, Asleep
  <2>6. pc[0] = "target" => previous[running] <= k.ticks + Mine.left
    BY <1>4, <1>5, <1>7 DEF Deciding
  <2> QED
    BY <1>5, <2>1, <2>3, <2>4, <2>5, <2>6
<1>10. ASSUME to = "decide" PROVE previous'[running'] <= tmp'[0] /\ tmp'[0] <= k'.ticks
  <2>1. /\ pc[0] = "until" /\ running' = running /\ Read(0, k.ticks)
    BY <1>1, <1>10 DEF CallGoes, Entering, Deciding, Asleep, Joined
  <2>2. previous[running] <= k.ticks
    BY <1>7, <2>1 DEF Deciding
  <2>3. tmp'[0] = k.ticks
    BY <1>3, <1>4, <2>1, ReadTyped
  <2> QED
    BY <1>4, <2>1, <2>2, <2>3, CallPrevious
<1>11. ASSUME NEW t \in Tasks, t \in k'.ready
       PROVE  \/ previous'[t] <= k'.ticks
              \/ t = running' /\ pc'[0] = "sleep" /\ call'[t].op = "until"
  <2>1. t \in k.ready /\ (pc[0] = "sleep" => t # running)
    BY <1>11, CallLists DEF SameLists
  <2>2. previous[t] <= k.ticks
    BY <1>8, <2>1
  <2>3. CASE pc[0] # "decide" \/ t # running
    BY <1>3, <1>4, <2>2, <2>3, CallPrevious
  <2>4. CASE pc[0] = "decide" /\ t = running
    <3>1. previous'[running] = previous[running] + Mine.asked
      BY <1>3, <2>4, CallPrevious
    <3>2. /\ to = IF ShouldDelay(tmp[0], k.ticks, previous[running],
                                 previous[running] + Mine.asked)
                  THEN "sleep" ELSE "resume"
          /\ running' = running
      BY <1>1, <2>4 DEF CallGoes, Entering, Deciding, Asleep, Joined
    <3>3. CASE ShouldDelay(tmp[0], k.ticks, previous[running], previous[running] + Mine.asked)
      <4>1. call[running].op = "until"
        BY <2>4 DEF Placed
      <4>2. KeepsLocals({"target"})
        BY <2>4, CallKeeps DEF CallKeeping, KeepsLocals
      <4>3. call'[running].op = "until"
        BY <4>1, <4>2 DEF KeepsLocals, Fields
      <4> QED
        BY <1>2, <2>4, <3>2, <3>3, <4>3
    <3>4. CASE ~ShouldDelay(tmp[0], k.ticks, previous[running], previous[running] + Mine.asked)
      <4>1. previous[running] <= tmp[0] /\ tmp[0] <= k.ticks
        BY <2>4 DEF Periods
      <4>2. previous[running] + Mine.asked <= k.ticks
        BY <1>3, <1>4, <1>5, <3>4, <4>1, NotDelayed
      <4> QED
        BY <1>4, <2>4, <3>1, <4>2
    <3> QED
      BY <3>3, <3>4
  <2> QED
    BY <2>3, <2>4
<1>12. ASSUME NEW t \in Tasks, On(t, 1)' PROVE previous'[t] <= k'.wake[t]
  <2>1. CASE On(t, 1) /\ k'.wake[t] = k.wake[t]
    <3>1. pc[0] = "decide" => t # running
      BY <1>6, <2>1 DEF Deciding
    <3>2. previous'[t] = previous[t]
      BY <1>3, <3>1, CallPrevious
    <3> QED
      BY <2>1, <3>2 DEF Periods
  <2>2. CASE k'.list[1] = k.list[1] /\ k'.wake = k.wake
    BY <1>12, <2>1, <2>2 DEF On
  <2>3. CASE /\ pc[0] = "sleep" /\ k'.list = k.list
             /\ \A x \in Tasks \ {running} : k'.wake[x] = k.wake[x]
    <3>1. On(t, 1)
      BY <1>12, <2>3 DEF On
    <3>2. t # running
      BY <1>6, <2>3, <3>1 DEF Deciding
    <3> QED
      BY <2>1, <2>3, <3>1, <3>2
  <2>4. CASE pc[0] = "insert" /\ k'.wake = k.wake /\ Relisted(1, InsertByWake(k.list[1], running))
    <3>1. IsInjective(k.list[1]) /\ running \notin ToSet(k.list[1])
      BY <2>4 DEF Homes, Apart, On, Asleep
    <3>2. ToSet(InsertByWake(k.list[1], running)) = ToSet(k.list[1]) \cup {running}
      BY <1>3, <3>1, InsertJoins
    <3>3. k'.list[1] = InsertByWake(k.list[1], running)
      BY <2>4 DEF Relisted
    <3>4. On(t, 1) \/ t = running
      BY <1>12, <3>2, <3>3 DEF On
    <3>5. k.wake[running] = Mine.target /\ previous[running] <= Mine.target
      BY <2>4 DEF Covered, Periods, Asleep
    <3>6. t = running => previous'[t] <= k'.wake[t]
      BY <2>4, <3>5, CallPrevious
    <3> QED
      BY <2>1, <2>4, <3>4, <3>6
  <2>5. CASE pc[0] = "later" /\ k'.wake = k.wake /\ Relisted(2, InsertByWake(k.list[2], running))
    BY <2>2, <2>5 DEF Relisted
  <2> QED
    BY <1>3, <2>2, <2>3, <2>4, <2>5, CallLists DEF SameLists
<1> QED
  BY <1>2, <1>9, <1>10, <1>11, <1>12 DEF Periods, On

(* A wait, and whether it is being taken up again.                          *)
Waiting(r, again, now) ==
  /\ r.start <= r.entered /\ r.entered <= now
  /\ r.left + (IF again THEN now ELSE r.entered) - r.start >= r.asked
  /\ r.expired => now - r.start >= r.asked
Again(t) == t = running /\ pc[0] \in {"reenter", "reentered"}

LEMMA WaitingLater ==
  ASSUME NEW r \in Locals, NEW again \in BOOLEAN, NEW now \in Nat, NEW after \in Nat,
         now <= after, Waiting(r, again, now)
  PROVE  Waiting(r, again, after)
<1>1. /\ r.start \in Nat /\ r.entered \in Nat /\ r.left \in Nat /\ r.asked \in Nat
      /\ r.expired \in BOOLEAN
  BY TickAssumption DEF Locals, portMAX_DELAY
<1> QED
  BY <1>1 DEF Waiting

LEMMA WaitsIncrement ==
  ASSUME Typed, Typed', Placed, Housed, Regular, Waits, NEW c \in {0, 1}, IncrementChange(c),
         k'.ticks >= k.ticks
  PROVE  Waits'
<1>1. /\ UNCHANGED <<running, call>>
      /\ pc'[0] \in Outside \/ pc[0] \in Outside => pc'[0] = pc[0]
  BY IncrementStays
<1>2. k.ticks \in Nat /\ k'.ticks \in Nat /\ k.ticks <= k'.ticks
  BY TimeNow DEF Typed, Kernel
<1>3. /\ pc'[0] \in {"reenter", "reentered"} <=> pc[0] \in {"reenter", "reentered"}
      /\ pc'[0] \in {"enter", "entered"} <=> pc[0] \in {"enter", "entered"}
  BY <1>1 DEF Outside, Entering, Deciding
<1>4. ASSUME NEW t \in Tasks
      PROVE  /\ Waiting(call[t], Again(t), k'.ticks)
             /\ t = running /\ pc[0] \in {"enter", "entered"} =>
                  call[t].left >= call[t].asked /\ ~call[t].expired
  <2>1. call[t] \in Locals /\ Again(t) \in BOOLEAN
    BY DEF Typed, Again
  <2>2. Waiting(call[t], Again(t), k.ticks)
    BY DEF Waits, Waiting, Again
  <2> QED
    BY <1>2, <2>1, <2>2, WaitingLater DEF Waits
<1> QED
  BY <1>1, <1>3, <1>4 DEF Waits, Waiting, Again

(* The time that is left may be less than what has passed by now.           *)
LEMMA LeftWraps ==
  ASSUME NEW left \in 0 .. portMAX_DELAY, NEW past \in Nat, past < Width
  PROVE  W(past) = past /\ W(left - past) >= left - past
<1>1. Width \in Nat /\ left \in Nat /\ left < Width
  BY TickAssumption DEF portMAX_DELAY
<1>2. W(past) = past
  <2>1. past \in Int /\ 0 <= past
    OBVIOUS
  <2> QED
    BY <2>1, Wrapping
<1> DEFINE x == left - past
<1>3. x \in Int /\ x < Width /\ x >= 0 - Width
  BY <1>1
<1> HIDE DEF x
<1>4. W(x) >= x
  <2>1. CASE x >= 0
    <3>1. 0 <= x
      BY <1>3, <2>1
    <3>2. W(x) = x
      BY <1>3, <3>1, Wrapping
    <3> QED
      BY <1>3, <3>2
  <2>2. CASE x < 0
    <3>1. W(x) = x + Width
      BY <1>3, <2>2, Wrapping
    <3> QED
      BY <1>1, <1>3, <3>1
  <2> QED
    BY <1>3, <2>1, <2>2
<1> QED
  BY <1>2, <1>4 DEF x

LEMMA WaitsCall ==
  ASSUME Typed, Placed, Regular, NotWrapped, Waits, running \in Tasks, CallChange
  PROVE  Waits'
<1> DEFINE r == call[running]
           n == call'[running]
<1>1. PICK to : Moves(0, to) /\ CallGoes(to)
  BY CallMoves
<1>2. pc'[0] = to
  BY <1>1 DEF Moves
<1>3. k.ticks \in Nat /\ k.ticks < Width /\ k'.ticks = k.ticks
  BY TimeNow, CallCounts
<1>4. /\ \A t \in Tasks : call[t] \in Locals
      /\ \A t \in Tasks \ {running} : call'[t] = call[t]
      /\ n \in Locals /\ CallKeeping
  BY CallKeeps DEF Typed
<1>5. /\ r.start \in Nat /\ r.entered \in Nat /\ r.left \in 0 .. portMAX_DELAY
      /\ r.asked \in 0 .. portMAX_DELAY /\ r.expired \in BOOLEAN /\ portMAX_DELAY \in Nat
      /\ Width = portMAX_DELAY + 1
  BY LocalsTyped, TickAssumption DEF Typed, portMAX_DELAY
<1>6. /\ Waiting(r, pc[0] \in {"reenter", "reentered"}, k.ticks)
      /\ pc[0] \in {"enter", "entered"} => r.left >= r.asked /\ ~r.expired
  BY DEF Waits, Waiting
<1>7. \A t \in Tasks \ {running} : Waiting(call[t], FALSE, k.ticks)
  BY DEF Waits, Waiting
<1> DEFINE A == to \in {"reenter", "reentered"}
<1>8. /\ pc[0] # "unwind" => running' = running
      /\ pc[0] = "unwind" => to \notin {"reenter", "reentered", "enter", "entered"}
      /\ to \in {"enter", "entered"} => pc[0] \in {"enter", "entered"}
  BY <1>1 DEF CallGoes, Entering, Deciding, Asleep, Joined
<1>9. /\ to = "reenter" <=> pc[0] = "left"
      /\ to = "reentered" <=> pc[0] = "reenter"
  BY <1>1 DEF CallGoes, Entering, Deciding, Asleep, Joined
<1>10. ASSUME NEW F, KeepsLocals(F)
       PROVE  /\ "start" \notin F => n.start = r.start
              /\ "entered" \notin F => n.entered = r.entered
              /\ "left" \notin F => n.left = r.left
              /\ "asked" \notin F => n.asked = r.asked
              /\ "expired" \notin F => n.expired = r.expired
  BY <1>10 DEF KeepsLocals, Fields
<1>11. Waiting(n, A, k.ticks) /\ (to \in {"enter", "entered"} => n.left >= n.asked /\ ~n.expired)
  <2>1. CASE /\ KeepsLocals({}) \/ KeepsLocals({"overflows"}) \/ KeepsLocals({"target"})
             /\ pc[0] \notin {"left", "reentered"}
    <3>1. /\ n.start = r.start /\ n.entered = r.entered /\ n.left = r.left /\ n.asked = r.asked
          /\ n.expired = r.expired
      BY <1>10, <2>1
    <3>2. A <=> pc[0] \in {"reenter", "reentered"}
      BY <1>9, <2>1
    <3> QED
      BY <1>6, <1>8, <3>1, <3>2 DEF Waiting
  <2>2. CASE pc[0] = "unwind" /\ n = NoCall
    BY <1>3, <1>8, <2>2, NoCallTyped DEF Waiting
  <2>3. CASE /\ pc[0] = "entered" /\ KeepsLocals({"entered", "start"})
             /\ n.entered = k.ticks /\ n.start = k.ticks
    <3>1. n.left = r.left /\ n.asked = r.asked /\ n.expired = r.expired
      BY <1>10, <2>3
    <3>2. ~A /\ r.left >= r.asked /\ ~r.expired
      BY <1>6, <1>9, <2>3
    <3> QED
      BY <1>3, <1>5, <2>3, <3>1, <3>2 DEF Waiting
  <2>4. CASE pc[0] = "reentered" /\ KeepsLocals({"entered"}) /\ n.entered = k.ticks
    <3>1. /\ n.start = r.start /\ n.left = r.left /\ n.asked = r.asked
          /\ n.expired = r.expired
      BY <1>10, <2>4
    <3>2. ~A
      BY <1>9, <2>4
    <3> QED
      BY <1>3, <1>5, <1>6, <1>8, <2>4, <3>1, <3>2 DEF Waiting
  <2>5. CASE /\ pc[0] \in {"passed", "elapsed"} /\ KeepsLocals({"expired"})
             /\ pc[0] = "passed" => tmp[0] # Mine.overflows
             /\ pc[0] = "elapsed" => ~(W(k.ticks - Mine.entered) < Mine.left)
    <3>1. /\ n.start = r.start /\ n.entered = r.entered /\ n.left = r.left /\ n.asked = r.asked
      BY <1>10, <2>5
    <3>2. pc[0] = "elapsed"
      BY <2>5 DEF NotWrapped, Mine
    <3>3. k.ticks - r.entered \in Nat /\ k.ticks - r.entered < Width
      BY <1>3, <1>5, <1>6 DEF Waiting
    <3>4. k.ticks - r.entered >= r.left
      BY <1>5, <2>5, <3>2, <3>3, LeftWraps DEF Mine
    <3>5. ~A
      BY <1>9, <3>2
    <3> QED
      BY <1>3, <1>5, <1>6, <1>8, <3>1, <3>2, <3>4, <3>5 DEF Waiting
  <2>6. CASE /\ pc[0] = "left" /\ KeepsLocals({"left"})
             /\ n.left = W(Mine.left - W(k.ticks - Mine.entered))
    <3>1. /\ n.start = r.start /\ n.entered = r.entered /\ n.asked = r.asked
          /\ n.expired = r.expired
      BY <1>10, <2>6
    <3>2. k.ticks - r.entered \in Nat /\ k.ticks - r.entered < Width
      BY <1>3, <1>5, <1>6 DEF Waiting
    <3> DEFINE past == k.ticks - r.entered
    <3>3. n.left = W(r.left - past) /\ n.left >= r.left - past
      <4>1. n.left = W(r.left - W(past))
        BY <2>6 DEF Mine
      <4>2. past \in Nat /\ past < Width
        BY <3>2
      <4> HIDE DEF past
      <4>3. W(past) = past /\ W(r.left - past) >= r.left - past
        BY <1>5, <4>2, LeftWraps
      <4> QED
        BY <4>1, <4>3
    <3>4. A /\ n.left \in Nat
      BY <1>4, <1>9, <2>6 DEF Locals
    <3> QED
      BY <1>3, <1>5, <1>6, <1>8, <2>6, <3>1, <3>3, <3>4 DEF Waiting
  <2> QED
    BY <1>4, <2>1, <2>2, <2>3, <2>4, <2>5, <2>6 DEF CallKeeping
<1> QED
  BY <1>2, <1>3, <1>4, <1>7, <1>8, <1>11 DEF Waits, Waiting

-----------------------------------------------------------------------------
(* A call asks for a tick, so that no task wakes at 0.                      *)

LEMMA AskedIncrement ==
  ASSUME Typed, Placed, Housed, Asked, NEW c \in {0, 1}, IncrementChange(c)
  PROVE  Asked'
<1>1. /\ UNCHANGED <<running, call>>
      /\ pc'[0] \in Outside \/ pc[0] \in Outside => pc'[0] = pc[0]
  BY IncrementStays
<1>2. Entering \cup Deciding \subseteq Outside
  BY DEF Outside
<1> QED
  BY <1>1, <1>2 DEF Asked

LEMMA AskedCall ==
  ASSUME Typed, Placed, Asked, running \in Tasks, CallChange
  PROVE  Asked'
<1>1. PICK to : Moves(0, to) /\ CallGoes(to)
  BY CallMoves
<1>2. /\ CallKeeping /\ \A t \in Tasks \ {running} : call'[t] = call[t]
  BY CallKeeps
<1>3. \A F : KeepsLocals(F) /\ "op" \notin F /\ "asked" \notin F =>
              call'[running].op = call[running].op /\ call'[running].asked = call[running].asked
  BY DEF KeepsLocals, Fields
<1>4. \/ pc[0] = "unwind" /\ call'[running] = NoCall
      \/ call'[running].op = call[running].op /\ call'[running].asked = call[running].asked
  BY <1>2, <1>3 DEF CallKeeping
<1>5. \A t \in Tasks : call'[t].op # "none" => call'[t].asked > 0
  BY <1>2, <1>4 DEF Asked, NoCall
<1>6. ASSUME pc'[0] \in Entering \cup Deciding PROVE call'[running'].op # "none"
  <2>1. pc'[0] = to
    BY <1>1 DEF Moves
  <2>2. \/ /\ pc[0] \in Entering \cup Deciding /\ running' = running /\ pc[0] # "unwind"
         \/ call'[running'].op = "wait"
    BY <1>1, <1>6, <2>1 DEF CallGoes, Entering, Deciding, Asleep, Joined
  <2> QED
    BY <1>4, <2>2 DEF Asked
<1> QED
  BY <1>5, <1>6 DEF Asked

LEMMA AskedOther ==
  ASSUME Typed, Placed, Asked, OtherChange
  PROVE  Asked'
<1>1. UNCHANGED running
  BY Zenon DEF OtherChange
<1>2. \/ UNCHANGED call /\ \E to \in {"tick", "idle"} : Moves(1, to)
      \/ /\ pc[0] = "run" /\ running \in Tasks
         /\ \E to \in {"enter", "suspend"} : Moves(0, to)
         /\ \E op \in Operations, n \in 1 .. portMAX_DELAY :
              Own([NoCall EXCEPT !.op = op, !.asked = n, !.left = n])
  BY Zenon DEF OtherChange
<1>3. CASE UNCHANGED call /\ \E to \in {"tick", "idle"} : Moves(1, to)
  BY <1>1, <1>3 DEF Asked, Moves
<1>4. ASSUME running \in Tasks, NEW op \in Operations, NEW n \in 1 .. portMAX_DELAY,
             Own([NoCall EXCEPT !.op = op, !.asked = n, !.left = n])
      PROVE  Asked'
  <2> DEFINE r == [NoCall EXCEPT !.op = op, !.asked = n, !.left = n]
  <2>1. r.op = op /\ r.asked = n /\ r.asked > 0 /\ r.op # "none" /\ r \in Locals
    <3>1. n \in 0 .. portMAX_DELAY /\ n > 0
      BY TickAssumption DEF portMAX_DELAY
    <3> QED
      BY <3>1 DEF NoCall, Locals, Operations
  <2>2. Own(r)
    BY <1>4
  <2> HIDE DEF r
  <2>3. call'[running] = r /\ \A t \in Tasks \ {running} : call'[t] = call[t]
    BY <1>4, <2>1, <2>2, OwnUpdates DEF Typed
  <2> QED
    BY <1>1, <1>4, <2>1, <2>3 DEF Asked
<1> QED
  BY <1>2, <1>3, <1>4

LEMMA PositiveIncrement ==
  ASSUME Typed, Placed, Housed, NotWrapped, Positive, Alone, NEW c \in {0, 1},
         IncrementChange(c)
  PROVE  Positive'
<1> DEFINE P == Asleep \cup {"sleep", "sooner", "lower"}
<1>1. P \subseteq Outside
  BY DEF Outside, Deciding, Joined
<1>2. /\ Mine' = Mine
      /\ pc'[0] \in Outside => pc'[0] = pc[0]
  BY IncrementStays
<1>3. pc'[0] \in P => Mine'.target > 0
  BY <1>1, <1>2 DEF Positive
<1>4. k.list[1] \in Seq(Tasks)
  BY KernelTyped DEF Typed
<1>5. pc[c] # "newset" /\ (pc[c] = "set" => c = 0)
  BY DEF NotWrapped, Alone, Renewing, Waking
<1>6. k'.unblock = k.unblock \/ (pc[0] = "set" /\ k'.unblock = tmp[0])
  BY <1>5, IncrementLists DEF SameUnblock
<1>7. k'.unblock > 0
  BY <1>6 DEF Positive, Alone
<1>8. k'.wake = k.wake /\ ToSet(k'.list[1]) \subseteq ToSet(k.list[1])
  <2>1. CASE pc[c] = "unlist"
    <3>1. k'.wake = k.wake /\ k'.list[1] = Without(k.list[1], {hand[c]})
      BY <2>1, IncrementLists
    <3> QED
      BY <1>4, <3>1, WithoutEntries
  <2>2. CASE pc[c] # "unlist"
    <3>1. k'.list = k.list /\ k'.wake = k.wake
      BY <2>2, IncrementLists DEF SameLists
    <3> QED
      BY <3>1
  <2> QED
    BY <2>1, <2>2
<1> QED
  BY <1>3, <1>7, <1>8 DEF Positive

LEMMA PositiveCall ==
  ASSUME Typed, Placed, Homes, Asked, Regular, NotWrapped, Covered, Positive, Waits,
         running \in Tasks, CallChange
  PROVE  Positive'
<1> DEFINE L == {"sleep", "which", "later", "insert", "forever", "sooner", "lower"}
<1>1. PICK to : Moves(0, to) /\ CallGoes(to)
  BY CallMoves
<1>2. pc'[0] = to
  BY <1>1 DEF Moves
<1>3. /\ Mine.target \in Nat /\ Mine.left \in Nat /\ Mine.asked \in Nat
      /\ Mine.start \in Nat /\ Mine.entered \in Nat /\ previous[running] \in Nat
      /\ k.ticks \in Nat /\ k.wake \in [Tasks -> Nat] /\ k \in Kernel /\ k.list[1] \in Seq(Tasks)
  BY LocalsTyped, KernelTyped, TickAssumption DEF Typed, Mine, portMAX_DELAY
<1>4. to \in L => pc[0] \in L \cup {"target", "decide"} /\ running' = running
  BY <1>1 DEF CallGoes, Entering, Deciding, Asleep, Joined
<1>5. to \in L => Mine'.target = IF pc[0] = "target" THEN k.ticks + Mine.left
                                 ELSE IF pc[0] = "decide" THEN previous[running] + Mine.asked
                                 ELSE Mine.target
  <2>1. \A F : KeepsLocals(F) /\ "target" \notin F => call'[running].target = call[running].target
    BY DEF KeepsLocals, Fields
  <2>2. CallKeeping
    BY CallKeeps
  <2> QED
    BY <1>4, <2>1, <2>2 DEF CallKeeping, Mine
<1>6. pc[0] \in {"target", "decide"} => Mine.asked > 0
  BY DEF Asked, Mine, Deciding
<1>7. pc[0] = "target" => k.ticks + Mine.left > 0
  <2>1. pc[0] = "target" => Mine.left + Mine.entered - Mine.start >= Mine.asked
    BY DEF Waits, Mine
  <2>2. Mine.start <= Mine.entered /\ Mine.entered <= k.ticks
    BY DEF Waits, Mine
  <2> QED
    BY <1>3, <1>6, <2>1, <2>2
<1>8. pc[0] \in L => Mine.target > 0
  BY DEF Positive, Asleep
<1>9. to \in L => Mine'.target > 0
  BY <1>3, <1>4, <1>5, <1>6, <1>7, <1>8
<1>10. k'.unblock > 0
  <2>1. CASE pc[0] = "lower"
    <3>1. Mine.target \in Int /\ 0 <= Mine.target /\ Mine.target < Width
      BY <1>3, <2>1 DEF Covered
    <3>2. W(Mine.target) = Mine.target
      BY <3>1, Wrapping
    <3> QED
      BY <1>8, <2>1, <3>2, CallLists
  <2>2. CASE pc[0] # "lower"
    BY <2>2, CallLists DEF SameUnblock, Relisted, Positive
  <2> QED
    BY <2>1, <2>2
<1>11. ASSUME NEW t \in ToSet(k'.list[1]) PROVE k'.wake[t] > 0
  <2>1. \A x \in ToSet(k.list[1]) : k.wake[x] > 0
    BY DEF Positive
  <2>2. CASE k'.list[1] = k.list[1] /\ k'.wake = k.wake
    BY <1>11, <2>1, <2>2
  <2>3. CASE /\ pc[0] = "sleep" /\ k'.list = k.list /\ k'.wake[running] = Mine.target
             /\ \A x \in Tasks \ {running} : k'.wake[x] = k.wake[x]
    <3>1. t \in ToSet(k.list[1]) /\ t \in Tasks
      BY <1>3, <1>11, <2>3, EntriesOf
    <3> QED
      BY <1>8, <2>1, <2>3, <3>1
  <2>4. CASE pc[0] = "insert" /\ k'.wake = k.wake /\ Relisted(1, InsertByWake(k.list[1], running))
    <3>1. IsInjective(k.list[1]) /\ running \notin ToSet(k.list[1])
      BY <2>4 DEF Homes, Apart, On, Asleep
    <3>2. ToSet(InsertByWake(k.list[1], running)) = ToSet(k.list[1]) \cup {running}
      BY <1>3, <3>1, InsertJoins
    <3>3. k'.list[1] = InsertByWake(k.list[1], running)
      BY <2>4 DEF Relisted
    <3>4. k.wake[running] = Mine.target
      BY <2>4 DEF Covered, Asleep
    <3> QED
      BY <1>8, <1>11, <2>1, <2>4, <3>2, <3>3, <3>4
  <2>5. CASE pc[0] = "later" /\ k'.wake = k.wake /\ Relisted(2, InsertByWake(k.list[2], running))
    BY <2>2, <2>5 DEF Relisted
  <2>6. k.delayed = 1 /\ k.overflow = 2
    BY DEF NotWrapped
  <2> QED
    BY <2>2, <2>3, <2>4, <2>5, <2>6, CallLists DEF SameLists
<1>12. pc'[0] \in Asleep \cup {"sleep", "sooner", "lower"} => Mine'.target > 0
  BY <1>2, <1>9 DEF Asleep
<1> QED
  BY <1>10, <1>11, <1>12 DEF Positive

-----------------------------------------------------------------------------
(* Core 0 alone wakes tasks.                                                *)

(* Core 1 does not get past the check ...                                   *)
LEMMA AloneBeside ==
  ASSUME Typed, Placed, Housed, Regular, NotWrapped, Positive, Alone, ~clashed,
         IncrementChange(1),
         k'.ticks >= k.ticks, k'.ticks \in Nat
  PROVE  Alone' /\ ~clashed'
<1>1. PICK to : Moves(1, to) /\ IncrementGoes(1, to)
  BY IncrementMoves
<1>2. PICK to1 : Moves(1, to1) /\ HandChange(1, to1)
  BY IncrementHands
<1>3. pc[1] \notin Waking \cup Renewing \cup {"swapped"} /\ ~(xTickCount(1) >= k.unblock)
  <2>1. ~(0 >= k.unblock)
    BY KernelTyped DEF Typed, Positive, portMAX_DELAY
  <2> QED
    BY <2>1 DEF Alone, NotWrapped, xTickCount
<1>4. to \notin Waking
  BY <1>1, <1>3 DEF IncrementGoes, Waking, Renewing
<1>5. UNCHANGED waking
  BY <1>2, <1>3 DEF HandChange, Waking, Renewing, Handling
<1>6. k'.list = k.list /\ k'.wake = k.wake /\ k'.ready = k.ready
  BY <1>3, IncrementLists DEF SameLists, Waking, Renewing
<1>7. pc'[0] = pc[0] /\ pc'[1] = to
  BY <1>1 DEF Moves
<1>8. tmp'[0] = tmp[0]
  <2>1. UNCHANGED tmp \/ \E v : Read(1, v)
    BY <1>1, Zenon DEF IncrementGoes
  <2> QED
    BY <2>1 DEF Read, Typed
<1>9. UNCHANGED <<running, previous, hand>>
  BY <1>5, IncrementStays DEF waking
<1>10. pc[0] \in {"unlist", "move"} => k.wake[hand[0]] <= k'.ticks
  <2>1. pc[0] \in {"unlist", "move"} => hand[0] \in Tasks
    BY DEF Housed
  <2>2. \A t \in Tasks : k.wake[t] \in Nat
    BY KernelTyped DEF Typed
  <2>3. k.ticks \in Nat
    BY KernelTyped DEF Typed
  <2> QED
    BY <2>1, <2>2, <2>3 DEF Alone
<1>11. k'.list[1] = k.list[1]
  BY <1>6
<1> QED
  BY <1>4, <1>5, <1>6, <1>7, <1>8, <1>9, <1>10, <1>11 DEF Alone, waking

(* ... and core 0 takes the head of the list, if its time has come.         *)
LEMMA AloneWakes ==
  ASSUME Typed, Placed, Housed, Regular, NotWrapped, Covered, Positive, Alone, ~clashed, Periods,
         IncrementChange(0)
  PROVE  Alone' /\ ~clashed'
<1> DEFINE s == k.list[1]
           h == Head(s)
<1>1. PICK to : Moves(0, to) /\ IncrementGoes(0, to)
  BY IncrementMoves
<1>2. PICK to1 : Moves(0, to1) /\ HandChange(0, to1)
  BY IncrementHands
<1>3. pc'[0] = to /\ to1 = to /\ pc'[1] = pc[1] /\ pc'[1] \notin Waking
  BY <1>1, <1>2 DEF Moves, Alone
<1>4. /\ k \in Kernel /\ s \in Seq(Tasks) /\ k.delayed = 1 /\ k.wake \in [Tasks -> Nat]
      /\ k.ticks \in Nat /\ W(k.ticks) = k.ticks /\ tmp \in [{0, 1} -> Nat]
      /\ hand \in [{0, 1} -> Tasks \cup {NoTask}] /\ NoTask \notin Tasks /\ Width \in Nat /\ Width > 1
  BY KernelTyped, TimeNow, TickAssumption DEF Typed, NotWrapped
<1>5. pc[0] \notin Renewing
  BY DEF NotWrapped
<1>6. s # <<>> =>
        /\ h \in ToSet(s) /\ h \in Tasks /\ k.wake[h] \in Nat
        /\ W(k.wake[h]) = k.wake[h] /\ k.wake[h] > 0
        /\ \A t \in ToSet(s) : k.wake[h] <= k.wake[t]
  <2> SUFFICES ASSUME s # <<>> PROVE
        /\ h \in ToSet(s) /\ h \in Tasks /\ k.wake[h] \in Nat
        /\ W(k.wake[h]) = k.wake[h] /\ k.wake[h] > 0
        /\ \A t \in ToSet(s) : k.wake[h] <= k.wake[t]
    OBVIOUS
  <2>1. /\ \A t \in ToSet(s) : k.wake[h] <= k.wake[t]
        /\ h \in ToSet(s) /\ h \in Tasks
    BY <1>4, SortedHead DEF Covered
  <2>2. k.wake[h] \in Int /\ 0 <= k.wake[h] /\ k.wake[h] < Width /\ k.wake[h] > 0
    BY <1>4, <2>1 DEF Covered, Positive
  <2>3. W(k.wake[h]) = k.wake[h]
    BY <2>2, Wrapping
  <2> QED
    BY <1>4, <2>1, <2>2, <2>3
<1>7. /\ UNCHANGED previous /\ pc'[0] \notin Outside
  BY IncrementStays
<1>8. pc[0] # "set" => k'.wake = k.wake
  BY IncrementLists DEF SameLists
<1> HIDE DEF s
<1>9. to \in {"head", "value", "due", "unlist"} =>
        /\ pc[0] \in {"wake", "head", "value", "due"} /\ s # <<>>
        /\ k'.list[1] = s /\ k'.wake = k.wake /\ k'.ticks = k.ticks
  <2>1. to \in {"head", "value", "due", "unlist"} =>
          pc[0] \in {"wake", "head", "value", "due"} /\ (pc[0] = "wake" => s # <<>>)
    BY <1>1, <1>4, <1>5 DEF IncrementGoes, Renewing, s
  <2>2. pc[0] \in {"head", "value", "due"} => s # <<>>
    BY DEF Alone, s
  <2>3. pc[0] \in {"wake", "head", "value", "due"} =>
          k'.list = k.list /\ k'.wake = k.wake /\ k'.ticks = k.ticks
    BY IncrementLists, IncrementCounts DEF SameLists
  <2> QED
    BY <2>1, <2>2, <2>3 DEF s
<1>10. to \in {"value", "due", "unlist"} => hand'[0] = h
  <2>1. CASE to = "value"
    <3>1. pc[0] = "head" /\ s # <<>>
      BY <1>1, <1>9, <2>1 DEF IncrementGoes
    <3>2. hand' = [hand EXCEPT ![0] = h]
      BY <1>2, <1>4, <3>1 DEF HandChange, Handling, s
    <3> QED
      BY <1>4, <3>2
  <2>2. CASE to \in {"due", "unlist"}
    <3>1. pc[0] \in {"value", "due"}
      BY <1>1, <2>2 DEF IncrementGoes
    <3>2. UNCHANGED hand
      BY <1>2, <1>3, <2>2, <3>1 DEF HandChange, Handling, waking
    <3> QED
      BY <3>1, <3>2 DEF Alone, s
  <2> QED
    BY <2>1, <2>2
<1>11. to = "due" => tmp'[0] = k.wake[h]
  <2> SUFFICES ASSUME to = "due" PROVE tmp'[0] = k.wake[h]
    OBVIOUS
  <2>1. pc[0] = "value" /\ Read(0, W(k.wake[hand[0]])) /\ s # <<>>
    BY <1>1, <1>9 DEF IncrementGoes
  <2>2. hand[0] = h
    BY <2>1 DEF Alone, s
  <2> QED
    BY <1>4, <1>6, <2>1, <2>2, ReadTyped
<1>12. to = "unlist" => k.wake[h] <= k.ticks
  <2> SUFFICES ASSUME to = "unlist" PROVE k.wake[h] <= k.ticks
    OBVIOUS
  <2>1. pc[0] = "due" /\ ~(xTickCount(0) < tmp[0]) /\ s # <<>>
    BY <1>1, <1>9 DEF IncrementGoes
  <2>2. tmp[0] = k.wake[h]
    BY <2>1 DEF Alone, s
  <2> QED
    BY <1>4, <1>6, <2>1, <2>2 DEF xTickCount
<1>13. to = "set" => tmp'[0] > 0 /\ \A t \in ToSet(k'.list[1]) : tmp'[0] <= k'.wake[t]
  <2> SUFFICES ASSUME to = "set"
               PROVE  tmp'[0] > 0 /\ \A t \in ToSet(k'.list[1]) : tmp'[0] <= k'.wake[t]
    OBVIOUS
  <2>1. \/ pc[0] = "due" /\ UNCHANGED tmp
        \/ pc[0] = "wake" /\ Read(0, portMAX_DELAY) /\ s = <<>>
    BY <1>1, <1>4 DEF IncrementGoes, s
  <2>2. k'.list[1] = s /\ k'.wake = k.wake
    BY <2>1, IncrementLists DEF SameLists, s
  <2>3. CASE pc[0] = "due" /\ UNCHANGED tmp
    <3>1. tmp[0] = k.wake[h] /\ s # <<>>
      BY <2>3 DEF Alone, s
    <3> QED
      BY <1>6, <2>2, <2>3, <3>1
  <2>4. CASE pc[0] = "wake" /\ Read(0, portMAX_DELAY) /\ s = <<>>
    <3>1. ToSet(s) = {}
      BY <2>4 DEF ToSet
    <3>2. portMAX_DELAY \in Nat /\ portMAX_DELAY > 0
      BY <1>4 DEF portMAX_DELAY
    <3> QED
      BY <1>4, <2>2, <2>4, <3>1, <3>2, ReadTyped
  <2> QED
    BY <2>1, <2>3, <2>4
<1>14. to = "move" => /\ pc[0] = "unlist" /\ hand'[0] = h /\ k'.wake = k.wake
                      /\ k'.ticks = k.ticks /\ s # <<>> /\ k.wake[h] <= k.ticks
                      /\ previous[h] <= k.wake[h]
  <2> SUFFICES ASSUME to = "move"
               PROVE  /\ pc[0] = "unlist" /\ hand'[0] = h /\ k'.wake = k.wake
                      /\ k'.ticks = k.ticks /\ s # <<>> /\ k.wake[h] <= k.ticks
                      /\ previous[h] <= k.wake[h]
    OBVIOUS
  <2>1. pc[0] = "unlist"
    BY <1>1 DEF IncrementGoes
  <2>2. hand[0] = h /\ s # <<>> /\ k.wake[hand[0]] <= k.ticks
    BY <2>1 DEF Alone, s
  <2>3. UNCHANGED hand
    BY <1>2, <2>1 DEF HandChange, Handling
  <2>4. k'.wake = k.wake /\ k'.ticks = k.ticks
    BY <2>1, IncrementLists, IncrementCounts
  <2>5. previous[h] <= k.wake[h]
    BY <1>6, <2>2 DEF Periods, On, s
  <2> QED
    BY <2>1, <2>2, <2>3, <2>4, <2>5
<1>15. ~clashed'
  <2>1. CASE pc[0] = "unlist"
    <3>1. hand[0] \in ToSet(k.list[1])
      BY <1>6, <2>1 DEF Alone, s
    <3> QED
      BY <1>2, <2>1, <3>1 DEF HandChange, Handling
  <2>2. CASE pc[0] = "head"
    <3>1. s # <<>>
      BY <2>2 DEF Alone, s
    <3> QED
      BY <1>2, <1>4, <2>2, <3>1 DEF HandChange, Handling, s
  <2>3. CASE pc[0] \notin {"unlist", "head"}
    BY <1>2, <1>5, <2>3 DEF HandChange, Renewing, waking
  <2> QED
    BY <2>1, <2>2, <2>3
<1> QED
  BY <1>3, <1>7, <1>9, <1>10, <1>11, <1>12, <1>13, <1>14, <1>15 DEF Alone, Outside

LEMMA AloneCall ==
  ASSUME Typed, Placed, Alone, ~clashed, running \in Tasks, CallChange
  PROVE  Alone' /\ ~clashed'
<1>1. PICK to : Moves(0, to) /\ CallGoes(to)
  BY CallMoves
<1>2. pc'[0] = to /\ pc'[1] = pc[1]
  BY <1>1 DEF Moves
<1>3. to \notin Waking
  BY <1>1 DEF CallGoes, Waking
<1>4. running' \in Tasks /\ to \in {"run"} \cup Entering \cup Deciding => running' \in k'.ready
  <2> SUFFICES ASSUME running' \in Tasks, to \in {"run"} \cup Entering \cup Deciding
               PROVE  running' \in k'.ready
    OBVIOUS
  <2>1. k'.ready = k.ready \/ pc[0] = "sleep"
    BY CallLists DEF SameLists
  <2>2. pc[0] # "sleep"
    BY <1>1 DEF CallGoes, Entering, Deciding
  <2>3. CASE pc[0] \in Entering \cup Deciding /\ running' = running
    BY <2>1, <2>2, <2>3 DEF Alone
  <2>4. CASE pc[0] = "unwind"
    <3>1. Moves(0, "tick") => FALSE
      BY <1>2 DEF Moves, Entering, Deciding
    <3>2. running' \in k.ready \cup (IF k.ready = {} THEN {NoTask} ELSE {})
      BY <2>4, <3>1, CallRuns
    <3> QED
      BY <2>1, <2>2, <3>2, TickAssumption
  <2> QED
    BY <1>1, <2>3, <2>4 DEF CallGoes, Entering, Deciding, Asleep, Joined
<1>5. ~clashed'
  <2>1. pc[0] = "sleep" => running \in k.ready
    BY DEF Alone, Deciding
  <2> QED
    BY <2>1, CallHands
<1> QED
  BY <1>2, <1>3, <1>4, <1>5 DEF Alone, Waking

LEMMA RegularOther ==
  ASSUME Typed, Placed, Regular, NotWrapped, Covered, Positive, Alone, Periods, Waits,
         OtherChange
  PROVE  NotWrapped' /\ Covered' /\ Positive' /\ Alone' /\ Periods' /\ Waits'
<1>1. UNCHANGED <<k, tmp, running, previous, hand>>
  BY Zenon DEF OtherChange, waking
<1>2. \/ pc[1] = "idle" /\ Moves(1, "tick") /\ UNCHANGED call
      \/ pc[1] = "ticked" /\ Moves(1, "idle") /\ UNCHANGED call
      \/ /\ pc[0] = "run" /\ running \in Tasks
         /\ \E to \in {"enter", "suspend"} : Moves(0, to)
         /\ \E op \in Operations, n \in 1 .. portMAX_DELAY :
              Own([NoCall EXCEPT !.op = op, !.asked = n, !.left = n])
  BY Zenon DEF OtherChange
<1>3. CASE UNCHANGED call /\ \E to \in {"tick", "idle"} : Moves(1, to)
  <2>1. pc'[0] = pc[0] /\ pc'[1] \in {"tick", "idle"}
    BY <1>3 DEF Moves
  <2>2. NotWrapped'
    BY <1>1, <1>3, <2>1 DEF NotWrapped, Renewing
  <2>3. Mine' = Mine /\ (\A s : Sorted(s)' <=> Sorted(s)) /\ \A t, n : On(t, n)' <=> On(t, n)
    BY <1>1, <1>3 DEF Mine, Sorted, On
  <2>4. Covered'
    BY <1>1, <2>1, <2>3 DEF Covered, Sorted
  <2>5. Periods'
    BY <1>1, <1>3, <2>1, <2>3 DEF Periods
  <2>6. Waits'
    BY <1>1, <1>3, <2>1 DEF Waits
  <2>7. Positive'
    BY <1>1, <2>1, <2>3 DEF Positive
  <2>8. Alone'
    BY <1>1, <2>1 DEF Alone, Waking
  <2> QED
    BY <2>2, <2>4, <2>5, <2>6, <2>7, <2>8
<1>4. ASSUME pc[0] = "run", running \in Tasks, NEW to \in {"enter", "suspend"}, Moves(0, to),
             NEW op \in Operations, NEW n \in 1 .. portMAX_DELAY,
             Own([NoCall EXCEPT !.op = op, !.asked = n, !.left = n])
      PROVE  NotWrapped' /\ Covered' /\ Positive' /\ Alone' /\ Periods' /\ Waits'
  <2> DEFINE r == [NoCall EXCEPT !.op = op, !.asked = n, !.left = n]
  <2>1. n \in 0 .. portMAX_DELAY
    BY TickAssumption DEF portMAX_DELAY
  <2>2. /\ r \in Locals /\ r.asked = n /\ r.left = n /\ r.start = 0
        /\ r.entered = 0 /\ r.overflows = 0 /\ r.expired = FALSE
    BY <2>1 DEF NoCall, Locals
  <2>3. Own(r)
    BY <1>4
  <2> HIDE DEF r
  <2>4. call'[running] = r /\ \A t \in Tasks \ {running} : call'[t] = call[t]
    BY <1>4, <2>2, <2>3, OwnUpdates DEF Typed
  <2>5. pc'[0] = to /\ pc'[1] = pc[1]
    BY <1>4 DEF Moves
  <2>6. NotWrapped'
    BY <1>1, <1>4, <2>2, <2>4, <2>5 DEF NotWrapped, Renewing
  <2>7. Covered'
    BY <1>1, <1>4, <2>5 DEF Covered, Sorted, Asleep
  <2>8. Periods'
    BY <1>1, <1>4, <2>5 DEF Periods, On, Asleep
  <2>9. k.ticks \in Nat /\ n \in Nat
    BY <1>4, TimeNow, TickAssumption DEF portMAX_DELAY
  <2>10. Waits'
    BY <1>1, <1>4, <2>2, <2>4, <2>5, <2>9 DEF Waits
  <2>11. Positive'
    BY <1>1, <2>5 DEF Positive, Asleep
  <2>12. Alone'
    BY <1>1, <1>4, <2>5 DEF Alone
  <2> QED
    BY <2>6, <2>7, <2>8, <2>10, <2>11, <2>12
<1> QED
  BY <1>2, <1>3, <1>4

-----------------------------------------------------------------------------
(* The invariant.                                                           *)

LEMMA InitHolds == Init => IInv
<1> SUFFICES ASSUME Init PROVE IInv
  OBVIOUS
<1> DEFINE l == [n \in {1, 2} |-> <<>>]
           w == [t \in Tasks |-> 0]
<1>1. /\ Width \in Nat /\ Width > 1 /\ NoTask \notin Tasks /\ portMAX_DELAY \in Nat
  BY TickAssumption DEF portMAX_DELAY
<1>2. l \in [{1, 2} -> Seq(Tasks)] /\ w \in [Tasks -> Nat] /\ l[1] = <<>> /\ l[2] = <<>>
  OBVIOUS
<1>3. k = [ticks |-> 0, suspended |-> 0, missed |-> 0, unblock |-> portMAX_DELAY,
           overflows |-> 0, list |-> l, delayed |-> 1, overflow |-> 2,
           wake |-> w, ready |-> Tasks]
  BY DEF Init
<1> HIDE DEF l, w
<1>4. /\ k \in Kernel /\ k.ticks = 0 /\ k.suspended = 0 /\ k.missed = 0 /\ k.overflows = 0
      /\ k.list = l /\ k.delayed = 1 /\ k.overflow = 2 /\ k.ready = Tasks
  BY <1>1, <1>2, <1>3 DEF Kernel
<1>5. /\ pc \in [{0, 1} -> Places] /\ pc[0] = "run" /\ pc[1] = "idle"
  BY DEF Init, Places
<1>6. /\ tmp \in [{0, 1} -> Nat] /\ running \in Tasks /\ previous \in [Tasks -> Nat]
      /\ interrupts = 0 /\ slipped = FALSE /\ \A t \in Tasks : call[t] = NoCall /\ previous[t] = 0
      /\ call \in [Tasks -> Locals] /\ hand \in [{0, 1} -> Tasks \cup {NoTask}]
      /\ asleep = {} /\ clashed = FALSE
  BY NoCallTyped DEF Init
<1>7. Typed
  BY <1>4, <1>5, <1>6 DEF Typed
<1>8. Placed
  BY <1>4, <1>5, <1>6
     DEF Placed, Uncounted, Missing, CountedIn, Renewing, Waking, Deciding, Asleep, Joined
<1>9. \A n \in {1, 2} : k.list[n] = <<>> /\ ToSet(k.list[n]) = {} /\ IsInjective(k.list[n])
  <2>1. ToSet(<<>>) = {} /\ IsInjective(<<>>)
    BY DEF ToSet, IsInjective
  <2> QED
    BY <1>2, <1>4, <2>1
<1>10. Housed
  <2>1. ASSUME NEW t \in Tasks
        PROVE  \E p \in Whereabouts : \A q \in Whereabouts : At(q, t) <=> q = p
    <3>1. \A q \in Whereabouts : At(q, t) <=> q = "ready"
      <4>1. /\ At("ready", t) /\ ~At("first", t) /\ ~At("second", t) /\ ~At("asleep", t)
            /\ ~At("hand 0", t) /\ ~At("hand 1", t) /\ ~At("between", t)
        <5>1. /\ t \in k.ready /\ t \notin ToSet(k.list[1]) /\ t \notin ToSet(k.list[2])
              /\ t \notin asleep /\ pc[0] # "move" /\ pc[1] # "move" /\ pc[0] \notin Asleep
          BY <1>4, <1>5, <1>6, <1>9 DEF Asleep
        <5> QED
          BY <5>1, AtPlaces
      <4> QED
        BY <4>1 DEF Whereabouts
    <3>2. "ready" \in Whereabouts
      BY DEF Whereabouts
    <3> QED
      BY <3>1, <3>2
  <2> QED
    BY <1>5, <1>9, <2>1 DEF Housed
<1>11. Counts
  BY <1>4, <1>5, <1>6 DEF Counts, Uncounted, Missing, CountedIn, Renewing, Waking
<1>12. NotWrapped
  BY <1>4, <1>5, <1>6, NoCallTyped DEF NotWrapped, Renewing
<1>13. Covered
  BY <1>5, <1>9 DEF Covered, Sorted, Asleep
<1>14. Periods
  BY <1>4, <1>5, <1>6, <1>9 DEF Periods, On, Asleep
<1>15. Waits
  BY <1>4, <1>5, <1>6, NoCallTyped DEF Waits
<1>16. Asked
  BY <1>5, <1>6 DEF Asked, NoCall, Entering, Deciding
<1>17. Positive
  <2>1. k.unblock = portMAX_DELAY /\ portMAX_DELAY > 0
    BY <1>1, <1>3 DEF portMAX_DELAY
  <2> QED
    BY <1>5, <1>9, <2>1 DEF Positive, Asleep
<1>18. Alone
  BY <1>4, <1>5 DEF Alone, Waking
<1> QED
  BY <1>6, <1>7, <1>8, <1>10, <1>11, <1>12, <1>13, <1>14, <1>15, <1>16, <1>17, <1>18 DEF IInv

LEMMA IncrementKeeps ==
  ASSUME IInv, ~clashed, NEW c \in {0, 1}, IncrementChange(c)
  PROVE  IInv'
<1>1. Typed /\ Placed /\ Housed /\ Asked /\ Counts
  BY DEF IInv
<1>2. Typed' /\ Placed' /\ Asked'
  BY <1>1, TypedIncrement, PlacedIncrement, AskedIncrement
<1>3. ~slipped' => Counts' /\ k'.ticks >= k.ticks
  BY <1>1, CountsIncrement
<1>4. ~clashed' => Housed'
  BY <1>1, HousedIncrement
<1>5. ASSUME Regular'
      PROVE  /\ ~clashed' /\ NotWrapped' /\ Covered' /\ Positive'
             /\ Alone' /\ Periods' /\ Waits'
  <2>1. k.ticks \in Nat /\ k'.ticks \in Nat /\ Width \in Nat
    BY <1>1, <1>2, TickAssumption DEF Typed, Kernel
  <2>2. k'.ticks >= k.ticks /\ ~slipped
    BY <1>1, <1>3, <1>5, IncrementSlips DEF Regular, Typed
  <2>3. Regular
    BY <1>5, <2>1, <2>2 DEF Regular
  <2>4. NotWrapped /\ Covered /\ Positive /\ Alone /\ Periods /\ Waits
    BY <2>3 DEF IInv
  <2>5. NotWrapped' /\ Covered'
    BY <1>1, <2>1, <2>2, <2>3, <2>4, NotWrappedIncrement, CoveredIncrement
  <2>6. Positive'
    BY <1>1, <2>4, PositiveIncrement
  <2>7. Alone' /\ ~clashed'
    <3>1. CASE c = 0
      <4>1. IncrementChange(0)
        BY <3>1
      <4> QED
        BY <1>1, <2>3, <2>4, <4>1, AloneWakes
    <3>2. CASE c = 1
      <4>1. IncrementChange(1)
        BY <3>2
      <4> QED
        BY <1>1, <2>1, <2>2, <2>3, <2>4, <4>1, AloneBeside
    <3> QED
      BY <3>1, <3>2
  <2>8. Periods'
    BY <1>1, <1>2, <2>2, <2>3, <2>4, PeriodsIncrement
  <2>9. Waits'
    BY <1>1, <1>2, <2>2, <2>3, <2>4, WaitsIncrement
  <2> QED
    BY <2>5, <2>6, <2>7, <2>8, <2>9
<1> QED
  BY <1>2, <1>3, <1>4, <1>5 DEF IInv, Counts

LEMMA CallKeepsIInv ==
  ASSUME IInv, ~clashed, running \in Tasks, CallChange
  PROVE  IInv'
<1>1. Typed /\ Placed /\ Housed /\ Asked /\ Counts
  BY DEF IInv
<1>2. Typed' /\ Placed' /\ Asked'
  BY <1>1, TypedCall, PlacedCall, AskedCall
<1>3. ~slipped' => Counts'
  BY <1>1, CountsCall
<1>4. ~clashed' => Housed'
  BY <1>1, HousedCall
<1>5. ASSUME Regular'
      PROVE  /\ ~clashed' /\ NotWrapped' /\ Covered' /\ Positive'
             /\ Alone' /\ Periods' /\ Waits'
  <2>1. Regular
    BY <1>1, <1>5, CallCounts, CallSlips DEF Regular, Typed
  <2>2. NotWrapped /\ Covered /\ Positive /\ Alone /\ Periods /\ Waits
    BY <2>1 DEF IInv
  <2>3. Homes
    BY <1>1, <2>2, HomesNow
  <2>4. NotWrapped' /\ Covered' /\ Waits'
    BY <1>1, <2>1, <2>2, <2>3, NotWrappedCall, CoveredCall, WaitsCall
  <2>5. Positive'
    BY <1>1, <2>1, <2>2, <2>3, PositiveCall
  <2>6. Alone' /\ ~clashed'
    BY <1>1, <2>2, AloneCall
  <2>7. Periods'
    BY <1>1, <1>2, <2>1, <2>2, <2>3, PeriodsCall
  <2> QED
    BY <2>4, <2>5, <2>6, <2>7
<1> QED
  BY <1>2, <1>3, <1>4, <1>5 DEF IInv, Counts

LEMMA OtherKeeps ==
  ASSUME IInv, ~clashed, OtherChange
  PROVE  IInv'
<1>1. Typed /\ Placed /\ Housed /\ Asked /\ Counts
  BY DEF IInv
<1>2. Typed' /\ Placed' /\ Housed' /\ Asked' /\ Counts'
  BY <1>1, TypedOther, PlacedOther, HousedOther, AskedOther, CountsOther
<1>3. (Regular' => Regular) /\ UNCHANGED clashed
  BY Zenon DEF OtherChange, Regular, waking
<1>4. Regular' => NotWrapped' /\ Covered' /\ Positive' /\ Alone' /\ Periods' /\ Waits'
  BY <1>1, <1>3, RegularOther DEF IInv
<1> QED
  BY <1>2, <1>3, <1>4 DEF IInv

LEMMA StutterKeeps ==
  ASSUME IInv, UNCHANGED vars
  PROVE  IInv'
<1>1. UNCHANGED <<k, pc, tmp, running, call, previous, interrupts, slipped, hand, asleep, clashed>>
  BY DEF vars, task, waking
<1>2. Typed' /\ Placed' /\ Asked' /\ Counts'
  BY <1>1 DEF IInv, Typed, Placed, Asked, Counts
<1>3. (~clashed => Housed)' /\ UNCHANGED clashed
  <2>1. \A p, t : At(p, t)' <=> At(p, t)
    BY <1>1, Zenon DEF At
  <2> QED
    BY <1>1, <2>1 DEF IInv, Housed
<1>4. Regular' => NotWrapped' /\ Covered' /\ Periods' /\ Waits'
  BY <1>1 DEF IInv, Regular, NotWrapped, Covered, Sorted, Periods, On, Waits, Mine
<1>5. Regular' => ~clashed' /\ Positive' /\ Alone'
  BY <1>1 DEF IInv, Regular, Positive, Alone, Mine
<1> QED
  BY <1>2, <1>3, <1>4, <1>5 DEF IInv

(* The inductive invariant holds.                                           *)
THEOREM Invariance == Spec => []IInv
<1>1. ASSUME IInv, [Next]_vars PROVE IInv'
  <2>1. CASE Next
    BY <1>1, <2>1, NextChanges, IncrementKeeps, CallKeepsIInv, OtherKeeps DEF IInv
  <2> QED
    BY <1>1, <2>1, StutterKeeps
<1> QED
  BY <1>1, InitHolds, PTL DEF Spec

-----------------------------------------------------------------------------
(* What it shows.                                                           *)

(* The variables of tasks.c that the tick, the delays and the timeouts      *)
(* share keep to their types.                                               *)
THEOREM TypeCorrect == Spec => []TypeOK
<1>1. IInv => TypeOK
  BY KernelTyped DEF IInv, Typed, TypeOK
<1> QED
  BY <1>1, Invariance, PTL

(* Every task is in exactly one place, on the ready lists, on one of the two *)
(* delayed lists, on xSuspendedTaskList or on its way from one to another,  *)
(* and on no list twice, for every number of tasks and of ticks and however *)
(* the steps of the two cores interleave, up to the point where they clash: *)
(* where one takes the head of an empty list, or removes a task that the    *)
(* other has removed already.  And they do not clash while the count has    *)
(* not wrapped, as until then core 1 finds no task to wake.                 *)
THEOREM HomesOnce == Spec => []OneHome
<1>1. ASSUME IInv PROVE OneHome
  <2>1. TypeOK
    BY <1>1, KernelTyped DEF IInv, Typed, TypeOK
  <2>2. clashed => ~Regular
    BY <1>1 DEF IInv
  <2>3. ~clashed => Housed
    BY <1>1 DEF IInv
  <2> QED
    BY <2>1, <2>2, <2>3 DEF OneHome, Housed
<1> QED
  BY <1>1, Invariance, PTL

(* "This ensures the tick count does not slip": while vTaskIncrementTick    *)
(* and xTaskResumeAll do not overwrite what the other core counts, every    *)
(* tick interrupt is in xTickCount or in uxMissedTicks between the calls,   *)
(* for every number of interrupts.                                          *)
THEOREM TicksCounted == Spec => []TicksKept
<1>1. ASSUME IInv PROVE TicksKept
  <2>1. k.ticks \in Nat /\ k.missed \in Nat /\ interrupts \in Nat
    BY <1>1, KernelTyped DEF IInv, Typed
  <2>2. Counts
    BY <1>1 DEF IInv
  <2> QED
    BY <2>1, <2>2 DEF Counts, TicksKept, Uncounted, Missing, CountedIn, Renewing, Waking
<1> QED
  BY <1>1, Invariance, PTL

(* While the count is regular, xNextTaskUnblockTime is not later than the   *)
(* time of any task on pxDelayedTaskList, so the check it spares would not  *)
(* have found one; but while prvAddCurrentTaskToDelayedList brings it       *)
(* forward.                                                                 *)
THEOREM UnblockCovered == Spec => []NextCovered
<1>1. ASSUME IInv PROVE NextCovered
  <2>1. SUFFICES ASSUME Regular, pc[0] \notin {"sooner", "lower"},
                        NEW t \in ToSet(k.list[k.delayed])
                 PROVE  k.unblock <= W(k.wake[t])
    BY DEF NextCovered
  <2>2. t \in ToSet(k.list[1]) /\ Covered
    BY <1>1, <2>1 DEF IInv, NotWrapped
  <2>3. k.wake[t] < Width /\ k.unblock <= k.wake[t]
    BY <2>1, <2>2 DEF Covered
  <2>4. t \in Tasks
    BY <1>1, <2>2, KernelTyped, EntriesOf DEF IInv, Typed
  <2>5. k.wake[t] \in Nat /\ k.wake[t] \in Int
    BY <1>1, <2>4, KernelTyped DEF IInv, Typed
  <2>6. W(k.wake[t]) = k.wake[t]
    BY <2>3, <2>5, Wrapping
  <2> QED
    BY <2>3, <2>6
<1> QED
  BY <1>1, Invariance, PTL

(* vTaskDelayUntil, while the count is regular: a task that is ready and    *)
(* not in it has a *pxPreviousWakeTime that has come, for every period and  *)
(* however often it was late.                                               *)
THEOREM PeriodsKept == Spec => []PeriodKept
<1>1. ASSUME IInv PROVE PeriodKept
  <2>1. SUFFICES ASSUME Regular, NEW t \in k.ready, call[t].op # "until"
                 PROVE  previous[t] <= k.ticks
    BY DEF PeriodKept
  <2>2. Periods /\ t \in Tasks
    BY <1>1, <2>1, KernelTyped DEF IInv, Typed
  <2> QED
    BY <2>1, <2>2 DEF Periods
<1> QED
  BY <1>1, Invariance, PTL

(* xTaskCheckForTimeOut, while the count is regular: a wait is given up     *)
(* only when at least as many ticks as were asked for have passed since it  *)
(* began, for every number of times that the task was woken in between and  *)
(* xTicksToWait was brought up to date.                                     *)
THEOREM TimeoutsRight == Spec => []TimesOutRight
<1>1. IInv => TimesOutRight
  BY DEF IInv, Waits, TimesOutRight
<1> QED
  BY <1>1, Invariance, PTL

(* prvCheckDelayedTasks, while the count is regular: on neither core is a   *)
(* task put on a ready list before the time at which it was to wake,        *)
(* although core 1 goes by a count of its own.                              *)
THEOREM WokenInTime == Spec => NeverEarly
<1> DEFINE InTime == Regular' => \A t \in k'.ready \ k.ready : k.ticks >= k.wake[t]
<1>1. ASSUME IInv, ~clashed, NEW c \in {0, 1}, IncrementChange(c), Regular'
      PROVE  \A t \in k'.ready \ k.ready : k.ticks >= k.wake[t]
  <2>1. Typed /\ Placed /\ Housed
    BY <1>1 DEF IInv
  <2>2. ~slipped /\ ~slipped' /\ k'.ticks < Width
    BY <1>1, <2>1, IncrementSlips DEF Regular, Typed
  <2>3. k'.ticks >= k.ticks
    BY <1>1, <2>2, CountsIncrement DEF IInv
  <2>4. k.ticks \in Nat /\ k'.ticks \in Nat /\ Width \in Nat
    BY <1>1, <2>1, TypedIncrement, TickAssumption DEF Typed, Kernel
  <2>5. Regular
    BY <1>1, <2>2, <2>3, <2>4 DEF IInv, Regular
  <2>6. Alone
    BY <1>1, <2>5 DEF IInv
  <2>7. CASE pc[c] = "move"
    <3>1. c = 0
      BY <2>6, <2>7 DEF Alone, Waking
    <3>2. k'.ready = k.ready \cup {hand[0]}
      BY <1>1, <2>1, <2>6, <2>7, <3>1, IncrementLists
    <3>3. k.wake[hand[0]] <= k.ticks /\ hand[0] \in Tasks
      BY <2>1, <2>6, <2>7, <3>1 DEF Alone, Housed
    <3>4. k.wake[hand[0]] \in Nat
      BY <2>1, <3>3, KernelTyped DEF Typed
    <3> QED
      BY <2>4, <3>2, <3>3, <3>4
  <2>8. CASE pc[c] # "move"
    BY <1>1, <2>1, <2>6, <2>8, IncrementLists DEF SameLists
  <2> QED
    BY <2>7, <2>8
<1>2. ASSUME IInv, running \in Tasks, CallChange
      PROVE  k'.ready \subseteq k.ready
  BY <1>2, CallLists DEF IInv, SameLists
<1>3. ASSUME OtherChange \/ UNCHANGED vars
      PROVE  k'.ready = k.ready
  BY <1>3, Zenon DEF OtherChange, vars
<1>4. ASSUME IInv, [Next]_vars PROVE [InTime]_vars
  <2>1. CASE Next
    <3>1. /\ ~clashed
          /\ \/ \E c \in {0, 1} : IncrementChange(c)
             \/ running \in Tasks /\ CallChange
             \/ OtherChange
      BY <1>4, <2>1, NextChanges DEF IInv
    <3> QED
      BY <1>1, <1>2, <1>3, <1>4, <3>1
  <2> QED
    BY <1>4, <2>1
<1>5. Spec => [][InTime]_vars
  BY <1>4, Invariance, PTL DEF Spec
<1> QED
  BY <1>5 DEF NeverEarly
=============================================================================

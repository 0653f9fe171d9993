-------------------------- MODULE FromaTimersProofs --------------------------
(***************************************************************************)
(* Software timers: proofs about FromaTimers, for every number of timers,  *)
(* every period, width of the tick count, length of the queue and set of   *)
(* commands.                                                               *)
(*                                                                         *)
(* That a timer is listed once holds always.  That the lists keep the      *)
(* cycles of the count apart, and no callback comes early, needs periods   *)
(* that leave room in a cycle for the lateness of the timer task: Short.   *)
(* With a longer period the task may miss that the count has wrapped.      *)
(***************************************************************************)
EXTENDS FromaTimers, FromaSequences

-----------------------------------------------------------------------------
(* The inductive invariant.                                                 *)

Entries == [id : CommandIDs, timer : Timers, value : Nat]
Typed ==
  /\ ticks \in Nat /\ ticks <= MaxTicks /\ last \in Nat /\ last <= ticks
  /\ queue \in Seq(Entries) /\ Len(queue) <= QueueLength
  /\ client = NoCommand \/ (client \in Entries /\ client.id = "start")
  /\ gone \subseteq Timers /\ freed \subseteq gone
  /\ list \in [{1, 2} -> Seq(Timers)] /\ current \in {1, 2}
  /\ expiry \in [Timers -> Nat] /\ period \in [Timers -> 1 .. Width - 1]
  /\ pc \in {"process", "blocked", "expire", "switchBefore",
             "sample", "switchAfter", "receive", "halted"}
  /\ called \subseteq Timers /\ stale \in BOOLEAN

(* A timer is on one list, once.                                            *)
Listed == ToSet(list[1]) \cup ToSet(list[2])
Once ==
  /\ IsInjective(list[1]) /\ IsInjective(list[2])
  /\ ToSet(list[1]) \cap ToSet(list[2]) = {}

(* Each period leaves room in a cycle of the count for the lateness.        *)
Fits(p) == p + MaxLate < Width
Short ==
  /\ \A t \in Timers : Fits(Period[t])
  /\ \A c \in Commands : c[2] = "period" => Fits(c[3])
Periods == Short => \A t \in Timers : Fits(period[t])

(* Nobody deletes a timer who has not given it up, a new period is one, and *)
(* a start is not sent late.                                                *)
Fresh(c) == c.id = "start" => ticks - c.value <= MaxLate
Sound(c) ==
  /\ c.id = "delete" => c.timer \in gone
  /\ c.id = "period" => c.value \in 1 .. Width - 1 /\ (Short => Fits(c.value))
  /\ Fresh(c)
Orders == Fresh(client) /\ \A c \in ToSet(queue) : Sound(c)

(* What waits to be handled is never older than MaxLate ticks.              *)
Late ==
  /\ ticks - (IF pc = "blocked" THEN Wake ELSE last) <= MaxLate
  /\ \A t \in Listed : ticks - expiry[t] <= MaxLate

(* The first time of the cycle that the times of list n belong to: while    *)
(* the lists are switched, the current one is that of the cycle before.     *)
Begin == last - W(last)
First(n) == Begin + (IF n = current THEN 0 ELSE Width)
                  - (IF Switching THEN Width ELSE 0)
InCycles ==
  \A n \in {1, 2} :
    /\ \A t \in ToSet(list[n]) : First(n) <= expiry[t] /\ expiry[t] < First(n) + Width
    /\ OrderedBy(list[n], expiry)

(* No timer is further ahead than a period can take it.                     *)
Near == \A t \in Listed : Fits(expiry[t] - last)

(* The timer to expire is due, and the one that is waited for is not.       *)
Heads ==
  /\ pc = "expire" => expiry[Head(list[current])] <= last
  /\ pc = "blocked" /\ ~IsEmpty => expiry[Head(list[current])] > last

Regular == Short /\ ~stale /\ pc # "halted"
Expires == pc = "expire" => ~IsEmpty
IInv ==
  /\ Typed /\ Once /\ Periods /\ Orders /\ Late /\ Expires
  /\ Regular => InCycles /\ Near /\ Heads

-----------------------------------------------------------------------------
(* Arithmetic of the tick count.                                            *)

LEMMA ConstantsTyped ==
  /\ Width \in Nat /\ Width > 1 /\ MaxLate \in Nat /\ MaxTicks \in Nat
  /\ QueueLength \in Nat /\ NoTimer \notin Timers
  /\ Period \in [Timers -> 1 .. Width - 1]
  /\ \A c \in Commands : /\ c[1] \in Timers /\ c[2] \in CommandIDs /\ c[2] # "start"
                         /\ c[3] \in 1 .. Width - 1
BY TimersAssumption

(* What a portTickType holds of a time in the cycle of c, in the one before *)
(* or the one after.                                                        *)
LEMMA Cycles ==
  ASSUME NEW c \in Nat
  PROVE  LET b == c - W(c)
         IN  /\ b \in Nat /\ b <= c /\ c < b + Width /\ W(c) \in 0 .. Width - 1
             /\ \A x \in Nat : b - Width <= x /\ x < b => W(x) = x - b + Width
             /\ \A x \in Nat : b <= x /\ x < b + Width => W(x) = x - b
             /\ \A x \in Nat : b + Width <= x /\ x < b + 2 * Width => W(x) = x - b - Width
<1> DEFINE n == Width
<1>1. n \in Nat \ {0}
  BY ConstantsTyped
<1> HIDE DEF n
<1> DEFINE b == c - (c % n)
<1>2. /\ b \in Nat /\ b <= c /\ c < b + n /\ c % n \in 0 .. n - 1
      /\ \A x \in Nat : b - n <= x /\ x < b =>
           x % n = x - b + n /\ x \div n = (c \div n) - 1
      /\ \A x \in Nat : b <= x /\ x < b + n =>
           x % n = x - b /\ x \div n = c \div n
      /\ \A x \in Nat : b + n <= x /\ x < b + 2 * n =>
           x % n = x - b - n /\ x \div n = (c \div n) + 1
  BY <1>1, CycleOf, Zenon
<1>3. /\ b \in Nat /\ b <= c /\ c < b + n /\ c % n \in 0 .. n - 1
      /\ \A x \in Nat : b - n <= x /\ x < b => x % n = x - b + n
      /\ \A x \in Nat : b <= x /\ x < b + n => x % n = x - b
      /\ \A x \in Nat : b + n <= x /\ x < b + 2 * n => x % n = x - b - n
  BY <1>2, Zenon
<1> QED
  BY <1>3 DEF W, n

LEMMA Wrap == \A x \in Int : W(x) \in 0 .. Width - 1 /\ W(x) \in Nat
<1> DEFINE n == Width
<1>1. n \in Nat \ {0}
  BY ConstantsTyped
<1> HIDE DEF n
<1>2. ASSUME NEW x \in Int PROVE x % n \in 0 .. n - 1 /\ x % n \in Nat
  <2>1. x % n \in 0 .. n - 1
    BY <1>1, Division
  <2> QED
    BY <1>1, <2>1
<1> QED
  BY <1>2 DEF W, n

(* A small difference is not wrapped, one below zero is wrapped once.       *)
LEMMA Small ==
  ASSUME NEW x \in Int
  PROVE  /\ x \in 0 .. Width - 1 => W(x) = x
         /\ x + Width \in 1 .. Width - 1 => W(x) = x + Width
<1> DEFINE n == Width
<1>1. n \in Nat \ {0}
  BY ConstantsTyped
<1> HIDE DEF n
<1>2. ASSUME x \in 0 .. n - 1 PROVE x % n = x
  <2>1. (n * 0 + x) % n = x
    BY <1>1, <1>2, Remainder
  <2>2. n * 0 + x = x
    BY <1>1
  <2> QED
    BY <2>1, <2>2
<1>3. ASSUME x + n \in 1 .. n - 1 PROVE x % n = x + n
  <2> DEFINE r == x + n
  <2>1. r \in 0 .. n - 1 /\ -1 \in Int
    BY <1>1, <1>3
  <2> HIDE DEF r
  <2>2. (n * (-1) + r) % n = r
    BY <1>1, <2>1, Remainder
  <2>3. n * (-1) + r = x
    BY <1>1 DEF r
  <2> QED
    BY <2>2, <2>3 DEF r
<1> QED
  BY <1>2, <1>3 DEF W, n

(* prvInsertTimerInActiveList judges rightly by the wrapped times, if it is *)
(* called less than a cycle less the period after the time since: whether   *)
(* the timer has expired, and if not, in which cycle it will.               *)
LEMMA Judged ==
  ASSUME last \in Nat, NEW since \in Nat, NEW p \in 1 .. Width - 1, Fits(p),
         since <= last, last - since <= MaxLate, NEW v, v = since + p
  PROVE  /\ Expired(v, p, since) <=> v <= last
         /\ v > last => \/ ListFor(v) = current /\ Begin <= v /\ v < Begin + Width
                        \/ ListFor(v) = overflow /\ Begin + Width <= v /\ v < Begin + 2 * Width
<1> DEFINE b == Begin
           w == Width
           wl == W(last)
           ws == W(since)
           wv == W(v)
           wd == W(last - since)
<1>1. w \in Nat /\ w > 1 /\ MaxLate \in Nat /\ v \in Nat /\ v = since + p /\ p + MaxLate < w
  BY ConstantsTyped DEF Fits
<1>2. /\ b \in Nat /\ b <= last /\ last < b + w
      /\ \A x \in Nat : b - w <= x /\ x < b => W(x) = x - b + w
      /\ \A x \in Nat : b <= x /\ x < b + w => W(x) = x - b
      /\ \A x \in Nat : b + w <= x /\ x < b + 2 * w => W(x) = x - b - w
  BY Cycles DEF Begin
<1>3. wd = last - since
  <2>1. last - since \in 0 .. Width - 1
    BY <1>1
  <2> QED
    BY <2>1, Small
<1> HIDE DEF b, w
<1>4. wl = last - b
  BY <1>2
<1>5. ws = IF since < b THEN since - b + w ELSE since - b
  BY <1>1, <1>2
<1>6. wv = IF v < b THEN v - b + w ELSE IF v < b + w THEN v - b ELSE v - b - w
  <2>1. b - w <= v /\ v < b + 2 * w
    BY <1>1, <1>2
  <2> QED
    BY <1>1, <1>2, <2>1
<1>7. Expired(v, p, since) <=> IF wv <= wl THEN wd >= p ELSE wl < ws /\ wv >= ws
  BY DEF Expired
<1>8. ListFor(v) = IF wv <= wl THEN overflow ELSE current
  BY DEF ListFor
<1> HIDE DEF wl, ws, wv, wd
<1>9. Expired(v, p, since) <=> v <= last
  BY <1>1, <1>2, <1>3, <1>4, <1>5, <1>6, <1>7
<1>10. ASSUME v > last
       PROVE  \/ ListFor(v) = current /\ b <= v /\ v < b + w
              \/ ListFor(v) = overflow /\ b + w <= v /\ v < b + 2 * w
  BY <1>1, <1>2, <1>4, <1>6, <1>8, <1>10
<1> QED
  BY <1>9, <1>10 DEF b, w

(* A sample of the time less than a cycle after the last sees a wrap.       *)
LEMMA Advanced ==
  ASSUME ticks \in Nat, last \in Nat, last <= ticks, ticks - last < Width
  PROVE  /\ Wrapped => ticks - W(ticks) = Begin + Width
         /\ ~Wrapped => ticks - W(ticks) = Begin
<1> DEFINE b == Begin
           w == Width
           wl == W(last)
           wt == W(ticks)
<1>1. w \in Nat /\ w > 1
  BY ConstantsTyped
<1>2. /\ b \in Nat /\ b <= last /\ last < b + w
      /\ \A x \in Nat : b <= x /\ x < b + w => W(x) = x - b
      /\ \A x \in Nat : b + w <= x /\ x < b + 2 * w => W(x) = x - b - w
  BY Cycles DEF Begin
<1> HIDE DEF b, w
<1>3. wl = last - b
  BY <1>2
<1>4. wt = IF ticks < b + w THEN ticks - b ELSE ticks - b - w
  <2>1. ticks < b + 2 * w
    BY <1>1, <1>2 DEF w
  <2> QED
    BY <1>1, <1>2, <2>1
<1>5. Wrapped <=> wt < wl
  BY DEF Wrapped
<1>6. ticks < last + w
  BY <1>1 DEF w
<1> HIDE DEF wl, wt
<1>7. /\ Wrapped => ticks - wt = b + w
      /\ ~Wrapped => ticks - wt = b
  BY <1>1, <1>2, <1>3, <1>4, <1>5, <1>6
<1> QED
  BY <1>7 DEF wt, b, w

(* Within the cycle of a list, wrapped times compare as the times do.       *)
LEMMA CycleTimes ==
  ASSUME last \in Nat, NEW n \in {1, 2}
  PROVE  /\ First(n) \in Int
         /\ \A x \in Nat : First(n) <= x /\ x < First(n) + Width => W(x) = x - First(n)
<1> DEFINE b == Begin
           w == Width
           f == First(n)
<1>1. w \in Nat /\ w > 1
  BY ConstantsTyped
<1>2. /\ b \in Nat
      /\ \A x \in Nat : b - w <= x /\ x < b => W(x) = x - b + w
      /\ \A x \in Nat : b <= x /\ x < b + w => W(x) = x - b
      /\ \A x \in Nat : b + w <= x /\ x < b + 2 * w => W(x) = x - b - w
  BY Cycles DEF Begin
<1>3. f = b - w \/ f = b \/ f = b + w
  BY <1>1, <1>2 DEF First
<1> HIDE DEF b, w, f
<1>4. f \in Int
  BY <1>1, <1>2, <1>3
<1>5. ASSUME NEW x \in Nat, f <= x, x < f + w PROVE W(x) = x - f
  <2>1. CASE f = b - w
    <3>1. b - w <= x /\ x < b /\ x - f = x - b + w
      BY <1>1, <1>2, <1>5, <2>1
    <3> QED
      BY <1>2, <3>1
  <2>2. CASE f = b
    BY <1>2, <1>5, <2>2
  <2>3. CASE f = b + w
    <3>1. b + w <= x /\ x < b + 2 * w /\ x - f = x - b - w
      BY <1>1, <1>2, <1>5, <2>3
    <3> QED
      BY <1>2, <3>1
  <2> QED
    BY <1>3, <2>1, <2>2, <2>3
<1> QED
  BY <1>4, <1>5 DEF f, w

-----------------------------------------------------------------------------
(* What the operations do to the lists and the queue.                       *)

LEMMA Items ==
  ASSUME Typed
  PROVE  /\ \A n \in {1, 2} : list[n] \in Seq(Timers) /\ ToSet(list[n]) \subseteq Timers
         /\ Listed \subseteq Timers
         /\ \A t \in Timers : xTimerIsTimerActive(t) <=> t \in Listed
         /\ \A n \in {1, 2} : ToSet(list[n]) \subseteq Listed
         /\ \A t \in Listed : t \in ToSet(list[1]) \/ t \in ToSet(list[2])
         /\ overflow \in {1, 2} /\ overflow # current /\ current \in {1, 2}
<1>1. \A n \in {1, 2} : list[n] \in Seq(Timers)
  BY DEF Typed
<1>2. \A n \in {1, 2} : ToSet(list[n]) \subseteq Timers
  BY <1>1, EntriesOf
<1> QED
  BY <1>1, <1>2 DEF Typed, Listed, xTimerIsTimerActive, overflow

(* The first timer of the current list.                                     *)
LEMMA HeadIs ==
  ASSUME Typed, ~IsEmpty
  PROVE  LET h == Head(list[current])
         IN  /\ h \in ToSet(list[current]) /\ h \in Listed /\ h \in Timers
             /\ NextExpireTime = expiry[h]
             /\ OrderedBy(list[current], expiry) =>
                  \A t \in ToSet(list[current]) : expiry[h] <= expiry[t]
<1>1. list[current] \in Seq(Timers) /\ list[current] # <<>> /\ current \in {1, 2}
  BY DEF Typed, IsEmpty
<1> DEFINE s == list[current]
<1>2. Head(s) \in ToSet(s) /\ Head(s) \in Timers
  <2> HIDE DEF s
  <2>1. Len(s) \in Nat /\ Len(s) > 0 /\ Head(s) = s[1] /\ s[1] \in Timers
    BY <1>1 DEF s
  <2>2. s \in Seq(Timers)
    BY <1>1 DEF s
  <2>3. ToSet(s) = {s[n] : n \in 1 .. Len(s)}
    BY <2>2, EntriesOf
  <2> QED
    BY <2>1, <2>3
<1>3. ASSUME OrderedBy(s, expiry) PROVE \A t \in ToSet(s) : expiry[Head(s)] <= expiry[t]
  <2>1. s \in Seq(Timers) /\ s # <<>>
    BY <1>1
  <2> HIDE DEF s
  <2> QED
    BY <1>3, <2>1, HeadLeast
<1>4. Head(s) \in Listed
  BY <1>1, <1>2 DEF Listed
<1>5. NextExpireTime = expiry[Head(s)]
  BY DEF NextExpireTime
<1> QED
  BY <1>2, <1>3, <1>4, <1>5

(* vListRemove of timer t, if it is listed; its time may be set, too.       *)
Drops(t) ==
  /\ list' = Removed(t)
  /\ expiry' \in [Timers -> Nat] /\ \A u \in Timers \ {t} : expiry'[u] = expiry[u]

LEMMA RemovedIs ==
  ASSUME Typed, Once, NEW t \in Timers
  PROVE  /\ Removed(t) \in [{1, 2} -> Seq(Timers)]
         /\ \A n \in {1, 2} : /\ IsInjective(Removed(t)[n])
                              /\ ToSet(Removed(t)[n]) = ToSet(list[n]) \ {t}
                              /\ OrderedBy(list[n], expiry) => OrderedBy(Removed(t)[n], expiry)
<1> DEFINE T == {t}
<1>1. \A n \in {1, 2} : Removed(t)[n] = Without(list[n], T)
  BY DEF Removed
<1>2. Removed(t) = [n \in {1, 2} |-> Without(list[n], T)]
  BY DEF Removed
<1>3. expiry \in [Timers -> Nat]
  BY DEF Typed
<1>5. ASSUME NEW n \in {1, 2}
      PROVE  /\ Without(list[n], T) \in Seq(Timers) /\ IsInjective(Without(list[n], T))
             /\ ToSet(Without(list[n], T)) = ToSet(list[n]) \ T
             /\ OrderedBy(list[n], expiry) => OrderedBy(Without(list[n], T), expiry)
  <2> DEFINE s == list[n]
  <2>1. s \in Seq(Timers) /\ IsInjective(s)
    BY DEF Typed, Once
  <2> HIDE DEF s, T
  <2>2. /\ Without(s, T) \in Seq(Timers) /\ IsInjective(Without(s, T))
        /\ ToSet(Without(s, T)) = ToSet(s) \ T
    BY <2>1, WithoutOnce
  <2>3. OrderedBy(s, expiry) => OrderedBy(Without(s, T), expiry)
    BY <1>3, <2>1, WithoutInOrder
  <2> QED
    BY <2>2, <2>3 DEF s
<1>6. Removed(t) \in [{1, 2} -> Seq(Timers)]
  BY <1>2, <1>5
<1> QED
  BY <1>1, <1>5, <1>6 DEF T

(* The lists after that: timer t is on neither, the others stay in order.   *)
LEMMA DropsKeeps ==
  ASSUME Typed, Once, NEW t \in Timers, Drops(t)
  PROVE  /\ list' \in [{1, 2} -> Seq(Timers)]
         /\ IsInjective(list'[1]) /\ IsInjective(list'[2])
         /\ ToSet(list'[1]) \cap ToSet(list'[2]) = {} /\ Listed' = Listed \ {t}
         /\ \A u \in Listed' : expiry'[u] = expiry[u]
         /\ \A n \in {1, 2} : /\ ToSet(list'[n]) = ToSet(list[n]) \ {t}
                              /\ OrderedBy(list[n], expiry) => OrderedBy(list'[n], expiry')
<1>1. /\ list' \in [{1, 2} -> Seq(Timers)]
      /\ \A n \in {1, 2} : /\ IsInjective(list'[n])
                           /\ ToSet(list'[n]) = ToSet(list[n]) \ {t}
                           /\ OrderedBy(list[n], expiry) => OrderedBy(list'[n], expiry)
  BY RemovedIs DEF Drops
<1>2. Listed' = Listed \ {t} /\ ToSet(list'[1]) \cap ToSet(list'[2]) = {}
  BY <1>1 DEF Once, Listed
<1>3. \A u \in Listed' : expiry'[u] = expiry[u]
  BY <1>2, Items DEF Drops
<1>4. ASSUME NEW n \in {1, 2}, OrderedBy(list'[n], expiry)
      PROVE  OrderedBy(list'[n], expiry')
  <2>1. list'[n] \in Seq(Timers)
    BY <1>1
  <2>2. \A u \in ToSet(list'[n]) : expiry'[u] = expiry[u]
    BY <1>3 DEF Listed
  <2> QED
    BY <1>4, <2>1, <2>2, SameOrder
<1> QED
  BY <1>1, <1>2, <1>3, <1>4

(* vListInsert of timer t into list n, at the time v.                       *)
Puts(t, n, v) ==
  /\ list' = Inserted(Removed(t), n, t, v)
  /\ expiry' = [expiry EXCEPT ![t] = v]

(* The place that vListInsert finds.                                        *)
LEMMA InsertPlaceIs ==
  ASSUME Typed, NEW s \in Seq(Timers), NEW v \in Nat
  PROVE  /\ InsertPlace(s, v) \in 0 .. Len(s)
         /\ \A m \in 1 .. InsertPlace(s, v) : W(expiry[s[m]]) <= W(v)
         /\ InsertPlace(s, v) < Len(s) => W(expiry[s[InsertPlace(s, v) + 1]]) > W(v)
<1> DEFINE f == [x \in Timers |-> W(expiry[x])]
<1>1. \A x \in Timers : f[x] = W(expiry[x]) /\ f[x] \in Int
  BY Wrap DEF Typed
<1>2. W(v) \in Int
  BY Wrap
<1> HIDE DEF f
<1> DEFINE u == W(v)
<1> HIDE DEF u
<1>3. \E k \in 0 .. Len(s) : PlaceOfTime(s, f, u, k)
  BY <1>1, <1>2, PlaceExists DEF u
<1>4. \A m \in 1 .. Len(s) : f[s[m]] = W(expiry[s[m]])
  BY <1>1, EntriesOf
<1>5. \A k \in 0 .. Len(s) : PlaceOfTime(s, f, u, k) =>
        /\ \A m \in 1 .. k : W(expiry[s[m]]) <= W(v)
        /\ k < Len(s) => W(expiry[s[k + 1]]) > W(v)
  <2> TAKE k \in 0 .. Len(s)
  <2> HAVE PlaceOfTime(s, f, u, k)
  <2>1. k \in Nat /\ Len(s) \in Nat /\ k <= Len(s)
    BY EntriesOf
  <2>2. \A m \in 1 .. k : f[s[m]] <= u /\ f[s[m]] = W(expiry[s[m]])
    BY <1>4, <2>1 DEF PlaceOfTime
  <2>3. k < Len(s) => f[s[k + 1]] > u /\ f[s[k + 1]] = W(expiry[s[k + 1]])
    BY <1>4, <2>1 DEF PlaceOfTime
  <2> QED
    BY <2>2, <2>3 DEF u
<1>6. \E k \in 0 .. Len(s) : /\ \A m \in 1 .. k : W(expiry[s[m]]) <= W(v)
                             /\ k < Len(s) => W(expiry[s[k + 1]]) > W(v)
  BY <1>3, <1>5
<1> QED
  BY <1>6 DEF InsertPlace

(* The lists after that: timer t is on list n, which stays in order if the  *)
(* times on it and v lie in its cycle.                                      *)
LEMMA PutsKeeps ==
  ASSUME Typed, Once, NEW t \in Timers, NEW n \in {1, 2}, NEW v \in Nat, Puts(t, n, v)
  PROVE  /\ list' \in [{1, 2} -> Seq(Timers)]
         /\ IsInjective(list'[1]) /\ IsInjective(list'[2])
         /\ ToSet(list'[1]) \cap ToSet(list'[2]) = {} /\ Listed' = Listed \cup {t}
         /\ expiry' \in [Timers -> Nat] /\ expiry'[t] = v
         /\ \A u \in Timers \ {t} : expiry'[u] = expiry[u]
         /\ \A m \in {1, 2} : ToSet(list'[m]) = (ToSet(list[m]) \ {t}) \cup (IF m = n THEN {t} ELSE {})
         /\ \A m \in {1, 2} \ {n} : OrderedBy(list[m], expiry) => OrderedBy(list'[m], expiry')
         /\ (/\ First(n) <= v /\ v < First(n) + Width
             /\ \A u \in ToSet(list[n]) : First(n) <= expiry[u] /\ expiry[u] < First(n) + Width
             /\ OrderedBy(list[n], expiry)) => OrderedBy(list'[n], expiry')
<1> DEFINE R == Removed(t)
           k == InsertPlace(R[n], v)
<1>1. /\ R \in [{1, 2} -> Seq(Timers)]
      /\ \A m \in {1, 2} : /\ IsInjective(R[m]) /\ ToSet(R[m]) = ToSet(list[m]) \ {t}
                           /\ OrderedBy(list[m], expiry) => OrderedBy(R[m], expiry)
  BY RemovedIs
<1>2. list' = [R EXCEPT ![n] = InsertAt(R[n], k + 1, t)]
  BY DEF Puts, Inserted
<1>3. expiry' = [expiry EXCEPT ![t] = v] /\ expiry \in [Timers -> Nat]
  BY DEF Puts, Typed
<1> DEFINE s == R[n]
<1>4. /\ s \in Seq(Timers) /\ IsInjective(s) /\ t \in Timers \ ToSet(s)
      /\ ToSet(s) = ToSet(list[n]) \ {t}
  BY <1>1
<1> HIDE DEF R
<1>5. /\ k \in 0 .. Len(s)
      /\ \A m \in 1 .. k : W(expiry[s[m]]) <= W(v)
      /\ k < Len(s) => W(expiry[s[k + 1]]) > W(v)
  BY <1>4, InsertPlaceIs
<1> HIDE DEF s, k
<1>6. list' = [R EXCEPT ![n] = InsertAt(s, k + 1, t)]
  BY <1>2 DEF s
<1> DEFINE r == InsertAt(s, k + 1, t)
<1>7. r \in Seq(Timers)
  BY <1>4, <1>5, InsertEntries
<1>8. IsInjective(r) /\ ToSet(r) = ToSet(s) \cup {t}
  BY <1>4, <1>5, InsertNew
<1> HIDE DEF r
<1>9. /\ list' \in [{1, 2} -> Seq(Timers)] /\ list'[n] = r
      /\ \A m \in {1, 2} \ {n} : list'[m] = R[m]
  BY <1>1, <1>6, <1>7 DEF r
<1>10. \A m \in {1, 2} : /\ IsInjective(list'[m])
                         /\ ToSet(list'[m]) = (ToSet(list[m]) \ {t}) \cup (IF m = n THEN {t} ELSE {})
  BY <1>1, <1>4, <1>8, <1>9
<1>11. ToSet(list'[1]) \cap ToSet(list'[2]) = {}
  BY <1>10 DEF Once
<1>12. Listed' = Listed \cup {t}
  BY <1>10 DEF Listed
<1>13. /\ expiry' \in [Timers -> Nat] /\ expiry'[t] = v
       /\ \A u \in Timers \ {t} : expiry'[u] = expiry[u]
  BY <1>3
<1>14. ASSUME NEW m \in {1, 2} \ {n}, OrderedBy(list[m], expiry)
       PROVE  OrderedBy(list'[m], expiry')
  <2>1. OrderedBy(R[m], expiry) /\ list'[m] = R[m] /\ R[m] \in Seq(Timers)
    BY <1>1, <1>9, <1>14
  <2>2. \A u \in ToSet(R[m]) : expiry'[u] = expiry[u]
    <3>1. ToSet(R[m]) \subseteq Timers \ {t}
      BY <1>1, <2>1, EntriesOf
    <3> QED
      BY <1>13, <3>1
  <2>3. OrderedBy(R[m], expiry')
    BY <2>1, <2>2, SameOrder
  <2> QED
    BY <2>1, <2>3
<1>15. ASSUME First(n) <= v, v < First(n) + Width, OrderedBy(list[n], expiry),
              \A u \in ToSet(list[n]) : First(n) <= expiry[u] /\ expiry[u] < First(n) + Width
       PROVE  OrderedBy(list'[n], expiry')
  <2> DEFINE a == First(n)
  <2>1. a \in Int /\ \A x \in Nat : a <= x /\ x < a + Width => W(x) = x - a
    <3>1. last \in Nat
      BY DEF Typed
    <3> QED
      BY <3>1, CycleTimes
  <2>2. W(v) = v - a
    BY <1>15, <2>1
  <2>3. \A u \in ToSet(s) : expiry[u] \in Nat /\ W(expiry[u]) = expiry[u] - a
    <3>1. \A u \in ToSet(s) : u \in ToSet(list[n]) /\ u \in Timers
      BY <1>4, EntriesOf
    <3>2. \A u \in ToSet(s) : expiry[u] \in Nat
      BY <1>3, <3>1
    <3>3. \A u \in ToSet(s) : a <= expiry[u] /\ expiry[u] < a + Width
      BY <1>15, <3>1
    <3> QED
      BY <2>1, <3>2, <3>3
  <2>4. \A m \in 1 .. Len(s) : s[m] \in ToSet(s)
    BY <1>4, EntriesOf
  <2> HIDE DEF a
  <2>5. PlaceOfTime(s, expiry, v, k)
    <3>1. \A m \in 1 .. k : expiry[s[m]] <= v
      <4> TAKE m \in 1 .. k
      <4>1. m \in 1 .. Len(s) /\ W(expiry[s[m]]) <= W(v)
        BY <1>4, <1>5
      <4> QED
        BY <2>1, <2>2, <2>3, <2>4, <4>1
    <3>2. k < Len(s) => expiry[s[k + 1]] > v
      <4> HAVE k < Len(s)
      <4>1. k + 1 \in 1 .. Len(s) /\ W(expiry[s[k + 1]]) > W(v)
        BY <1>4, <1>5
      <4> DEFINE e == expiry[s[k + 1]]
      <4>2. e \in Nat /\ W(e) = e - a
        BY <2>3, <2>4, <4>1
      <4> HIDE DEF e
      <4>3. W(e) > W(v)
        BY <4>1 DEF e
      <4>4. e - a > v - a
        BY <2>2, <4>2, <4>3
      <4>5. e > v
        BY <2>1, <4>2, <4>4
      <4> QED
        BY <4>5 DEF e
    <3> QED
      BY <1>5, <3>1, <3>2 DEF PlaceOfTime
  <2>6. OrderedBy(s, expiry)
    BY <1>1, <1>15 DEF s
  <2>7. OrderedBy(r, [expiry EXCEPT ![t] = v])
    BY <1>3, <1>4, <2>5, <2>6, InsertInOrder DEF r
  <2> QED
    BY <1>3, <1>9, <2>7
<1> QED
  BY <1>9, <1>10, <1>11, <1>12, <1>13, <1>14, <1>15

(* A step takes the first command from the queue, appends one, or both.     *)
LEMMA QueueKeeps ==
  ASSUME Typed, Orders, ticks' = ticks, gone \subseteq gone',
         NEW q, q = queue \/ (queue # <<>> /\ q = Tail(queue)),
         NEW c \in Entries, queue' = q \/ (queue' = Append(q, c) /\ Sound(c)')
  PROVE  queue' \in Seq(Entries) /\ \A d \in ToSet(queue') : Sound(d)'
<1>1. queue \in Seq(Entries)
  BY DEF Typed
<1>2. q \in Seq(Entries) /\ ToSet(q) \subseteq ToSet(queue)
  <2>1. CASE q = queue
    BY <1>1, <2>1
  <2>2. CASE queue # <<>> /\ q = Tail(queue)
    <3>1. /\ q \in Seq(Entries) /\ Len(q) = Len(queue) - 1
          /\ \A m \in 1 .. Len(q) : q[m] = queue[m + 1]
      BY <1>1, <2>2, HeadTailProperties
    <3>2. ToSet(q) = {q[m] : m \in 1 .. Len(q)} /\ Len(queue) \in Nat
      BY <1>1, <3>1, EntriesOf
    <3>3. \A m \in 1 .. Len(queue) : queue[m] \in ToSet(queue)
      BY <1>1, EntriesOf
    <3>4. ASSUME NEW m \in 1 .. Len(q) PROVE q[m] \in ToSet(queue)
      <4>1. m + 1 \in 1 .. Len(queue)
        BY <3>1, <3>2
      <4> QED
        BY <3>1, <3>3, <4>1
    <3> QED
      BY <3>1, <3>2, <3>4
  <2> QED
    BY <2>1, <2>2
<1>3. ASSUME NEW d \in ToSet(queue) PROVE Sound(d)'
  <2>1. Sound(d)
    BY <1>3 DEF Orders
  <2> QED
    BY <2>1 DEF Sound, Fresh
<1>4. CASE queue' = q
  BY <1>2, <1>3, <1>4
<1>5. CASE queue' = Append(q, c) /\ Sound(c)'
  <2> DEFINE r == Append(q, c)
  <2>1. /\ r \in Seq(Entries) /\ Len(r) = Len(q) + 1 /\ r[Len(q) + 1] = c
        /\ \A m \in 1 .. Len(q) : r[m] = q[m]
    BY <1>2, AppendProperties
  <2> HIDE DEF r
  <2>2. ToSet(r) = {r[m] : m \in 1 .. Len(r)} /\ Len(q) \in Nat
    BY <1>2, <2>1, EntriesOf
  <2>3. \A m \in 1 .. Len(q) : q[m] \in ToSet(q)
    BY <1>2, EntriesOf
  <2>4. ASSUME NEW m \in 1 .. Len(r) PROVE r[m] = c \/ r[m] \in ToSet(q)
    BY <2>1, <2>2, <2>3
  <2>5. \A d \in ToSet(r) : d = c \/ d \in ToSet(q)
    BY <2>2, <2>4
  <2>6. queue' = r
    BY <1>5 DEF r
  <2>7. \A d \in ToSet(r) : Sound(d)'
    <3> TAKE d \in ToSet(r)
    <3>1. CASE d = c
      BY <1>5, <3>1, Zenon
    <3>2. CASE d \in ToSet(q)
      BY <1>2, <1>3, <3>2
    <3> QED
      BY <2>5, <3>1, <3>2
  <2> QED
    BY <2>1, <2>6, <2>7
<1> QED
  BY <1>4, <1>5

LEMMA CommandTyped ==
  /\ \A i \in CommandIDs : \A t \in Timers : \A v \in Nat :
       /\ Command(i, t, v) \in Entries
       /\ Command(i, t, v).id = i /\ Command(i, t, v).timer = t /\ Command(i, t, v).value = v
  /\ NoCommand.id = "none" /\ NoCommand.timer = NoTimer
BY DEF Command, NoCommand, Entries

LEMMA WakeTyped == Typed => Wake \in Nat /\ Wake >= last /\ NextExpireTime \in Nat
<1> SUFFICES ASSUME Typed
             PROVE  Wake \in Nat /\ Wake >= last /\ NextExpireTime \in Nat
  OBVIOUS
<1>1. NextExpireTime \in Nat
  <2>1. CASE IsEmpty
    BY <2>1 DEF NextExpireTime
  <2>2. CASE ~IsEmpty
    <3> DEFINE h == Head(list[current])
    <3>1. h \in Timers /\ NextExpireTime = expiry[h]
      BY <2>2, HeadIs
    <3> HIDE DEF h
    <3> QED
      BY <3>1 DEF Typed
  <2> QED
    BY <2>1, <2>2
<1>2. last \in Nat
  BY DEF Typed
<1> DEFINE d == W(NextExpireTime - last)
<1>3. d \in Nat
  <2>1. NextExpireTime - last \in Int
    BY <1>1, <1>2
  <2> QED
    BY <2>1, Wrap
<1> HIDE DEF d
<1>4. Wake = last + (IF W(NextExpireTime) = W(last) THEN 1 ELSE d)
  BY DEF Wake, d
<1> QED
  BY <1>1, <1>2, <1>3, <1>4

-----------------------------------------------------------------------------
(* The steps of clients, and of time.                                       *)

(* What a client does leaves the timers and the timer task alone.           *)
LEMMA ClientKeeps ==
  ASSUME IInv, UNCHANGED <<ticks, timers, pc, last, stale>>, Typed', Orders'
  PROVE  IInv'
<1>1. UNCHANGED <<ticks, list, current, expiry, period, freed, pc, last, stale>>
  BY DEF timers
<1>2. (Once /\ Periods /\ Expires)'
  BY <1>1 DEF IInv, Once, Periods, Expires, Listed, IsEmpty
<1>3. Wake' = Wake
  BY <1>1 DEF Wake, NextExpireTime, IsEmpty
<1>4. Late'
  BY <1>1, <1>3 DEF IInv, Late, Listed
<1>5. \A n \in {1, 2} : First(n)' = First(n)
  BY <1>1 DEF First, Begin, Switching
<1>6. (Regular => InCycles /\ Near /\ Heads)'
  <2>1. Regular' => Regular /\ InCycles /\ Near /\ Heads
    BY <1>1 DEF IInv, Regular
  <2>2. InCycles => InCycles'
    BY <1>1, <1>5 DEF InCycles, OrderedBy
  <2>3. Near => Near'
    BY <1>1 DEF Near, Listed
  <2>4. Heads => Heads'
    BY <1>1 DEF Heads, IsEmpty
  <2> QED
    BY <2>1, <2>2, <2>3, <2>4
<1> QED
  BY <1>2, <1>4, <1>6 DEF IInv

LEMMA ReadTimeKeeps ==
  ASSUME IInv, NEW t \in Timers, ReadTime(t)
  PROVE  IInv'
<1>1. /\ client' = Command("start", t, ticks) /\ called' = {}
      /\ UNCHANGED <<ticks, queue, gone, timers, pc, last, stale>>
  BY DEF ReadTime
<1>2. Typed /\ Orders /\ ticks \in Nat /\ MaxLate \in Nat
  BY ConstantsTyped DEF IInv, Typed
<1>3. client' \in Entries /\ client'.id = "start" /\ client'.value = ticks
  BY <1>1, <1>2, CommandTyped DEF CommandIDs
<1>4. Typed'
  BY <1>1, <1>2, <1>3 DEF Typed, timers
<1>5. Fresh(client)'
  BY <1>1, <1>2, <1>3 DEF Fresh
<1>6. \A c \in ToSet(queue) : Sound(c)'
  BY <1>1, <1>2 DEF Orders, Sound, Fresh
<1>7. Orders'
  BY <1>1, <1>5, <1>6 DEF Orders
<1> QED
  BY <1>1, <1>4, <1>7, ClientKeeps

(* A command is sent, or refused.                                           *)
LEMMA SendsKeeps ==
  ASSUME IInv, NEW c \in Entries, Sends(c), Len(queue) < QueueLength => Sound(c)',
         client' = NoCommand \/ client' = client
  PROVE  IInv'
<1>1. /\ called' = {} /\ UNCHANGED <<ticks, timers, pc, last, stale>>
      /\ \/ Len(queue) < QueueLength /\ queue' = Append(queue, c)
         \/ queue' = queue
      /\ gone' = gone \/ gone' = gone \cup {c.timer}
  BY DEF Sends
<1>2. Typed /\ Orders /\ Len(queue) \in Nat /\ c.timer \in Timers
  BY DEF IInv, Typed, Entries
<1>3. gone \subseteq gone' /\ gone' \subseteq Timers
  BY <1>1, <1>2 DEF Typed
<1>4. queue' \in Seq(Entries) /\ \A d \in ToSet(queue') : Sound(d)'
  <2> DEFINE q == queue
  <2>1. queue' = q \/ (queue' = Append(q, c) /\ Sound(c)')
    BY <1>1
  <2> QED
    BY <1>1, <1>2, <1>3, <2>1, QueueKeeps
<1>5. Len(queue') <= QueueLength
  <2>1. Len(Append(queue, c)) = Len(queue) + 1 /\ QueueLength \in Nat
    BY <1>2, ConstantsTyped DEF Typed
  <2> QED
    BY <1>1, <1>2, <2>1 DEF Typed
<1>6. Typed'
  BY <1>1, <1>2, <1>3, <1>4, <1>5 DEF Typed, timers
<1>7. Fresh(client)'
  BY <1>1, <1>2, CommandTyped DEF Orders, Fresh
<1>8. Orders'
  BY <1>4, <1>7 DEF Orders
<1> QED
  BY <1>1, <1>6, <1>8, ClientKeeps

LEMMA SendStartKeeps ==
  ASSUME IInv, SendStart
  PROVE  IInv'
<1>1. client \in Entries /\ client.id = "start" /\ Fresh(client) /\ client' = NoCommand
  BY DEF SendStart, IInv, Typed, Orders
<1>2. ticks' = ticks
  BY DEF SendStart, Sends
<1> DEFINE c == client
<1> HIDE DEF c
<1>3. c \in Entries /\ Sends(c) /\ c.id = "start" /\ Fresh(c)
  BY <1>1 DEF SendStart, c
<1>4. PICK d : d = c
  OBVIOUS
<1>5. d \in Entries /\ Sends(d) /\ d.id = "start" /\ (ticks' = ticks => Fresh(d)')
  BY <1>3, <1>4 DEF Fresh
<1>6. Sound(d)'
  BY <1>2, <1>5 DEF Sound
<1> QED
  BY <1>1, <1>5, <1>6, SendsKeeps

LEMMA SendOtherKeeps ==
  ASSUME IInv, NEW c \in Commands, SendOther(c[1], c[2], c[3])
  PROVE  IInv'
<1> DEFINE d == Command(c[2], c[1], c[3])
<1>1. /\ c[1] \in Timers /\ c[2] \in CommandIDs /\ c[2] # "start"
      /\ c[3] \in 1 .. Width - 1 /\ Width \in Nat
  BY ConstantsTyped
<1>2. d \in Entries /\ d.id = c[2] /\ d.timer = c[1] /\ d.value = c[3]
  <2>1. c[3] \in Nat
    BY <1>1
  <2> QED
    BY <1>1, <2>1, CommandTyped
<1>3. Sends(d) /\ client' = client
  BY DEF SendOther
<1> HIDE DEF d
<1>4. Len(queue) < QueueLength => Sound(d)'
  <2>1. Len(queue) < QueueLength /\ d.id = "delete" => d.timer \in gone'
    BY <1>3 DEF Sends
  <2> QED
    BY <1>1, <1>2, <2>1 DEF Sound, Fresh, Short
<1> QED
  BY <1>2, <1>3, <1>4, SendsKeeps

LEMMA TickKeeps ==
  ASSUME IInv, Tick
  PROVE  IInv'
<1>1. /\ pc # "switchBefore" /\ ticks < MaxTicks /\ OnTime /\ ticks' = ticks + 1
      /\ called' = {} /\ UNCHANGED <<queue, client, gone, timers, pc, last, stale>>
  BY DEF Tick
<1>2. UNCHANGED <<list, current, expiry, period, freed>>
  BY <1>1 DEF timers
<1>3. Typed /\ Once /\ Periods /\ Orders /\ Late /\ Expires
  BY DEF IInv
<1>4. ticks \in Nat /\ last \in Nat /\ MaxLate \in Nat /\ MaxTicks \in Nat
  BY <1>3, ConstantsTyped DEF Typed
<1>5. Typed'
  BY <1>1, <1>2, <1>3, <1>4 DEF Typed
<1>6. (Once /\ Periods /\ Expires)'
  BY <1>1, <1>2, <1>3 DEF Once, Periods, Expires, Listed, IsEmpty
<1>7. Orders'
  <2>1. ASSUME NEW c \in ToSet(queue) \cup {client}, c.id = "start", c.value \in Nat
        PROVE  ticks' - c.value <= MaxLate
    <3>1. ticks - c.value < MaxLate
      BY <1>1, <2>1 DEF OnTime
    <3>2. ticks' = ticks + 1
      BY <1>1
    <3> QED
      BY <1>4, <2>1, <3>1, <3>2
  <2>2. Fresh(client)'
    <3>1. client = NoCommand \/ (client \in Entries /\ client.value \in Nat)
      BY <1>3 DEF Typed, Entries
    <3>2. client.id = "start" => client.value \in Nat
      BY <3>1, CommandTyped
    <3>3. client.id = "start" => ticks' - client.value <= MaxLate
      BY <2>1, <3>2
    <3>4. client' = client
      BY <1>1
    <3> QED
      BY <3>3, <3>4 DEF Fresh
  <2>3. ASSUME NEW c \in ToSet(queue) PROVE Sound(c)'
    <3>1. c \in Entries /\ c.value \in Nat
      <4>1. queue \in Seq(Entries)
        BY <1>3 DEF Typed
      <4>2. c \in Entries
        BY <2>3, <4>1, EntriesOf
      <4> QED
        BY <4>2 DEF Entries
    <3>2. Sound(c)
      BY <1>3 DEF Orders
    <3>3. c.id = "start" => ticks' - c.value <= MaxLate
      BY <2>1, <2>3, <3>1
    <3>4. gone' = gone
      BY <1>1
    <3> QED
      BY <3>2, <3>3, <3>4 DEF Sound, Fresh
  <2> QED
    BY <1>1, <2>2, <2>3 DEF Orders
<1>8. Late'
  <2>1. Wake' = Wake /\ Listed' = Listed
    BY <1>1, <1>2 DEF Wake, NextExpireTime, IsEmpty, Listed
  <2>2. Wake \in Nat
    BY <1>3, WakeTyped
  <2>3. ticks' - (IF pc = "blocked" THEN Wake ELSE last) <= MaxLate
    <3>1. ticks - (IF pc = "blocked" THEN Wake ELSE last) < MaxLate
      BY <1>1 DEF OnTime
    <3>2. ticks' = ticks + 1
      BY <1>1
    <3> QED
      BY <1>4, <2>2, <3>1, <3>2
  <2>4. ASSUME NEW t \in Listed PROVE ticks' - expiry[t] <= MaxLate
    <3>1. t \in Timers /\ xTimerIsTimerActive(t)
      BY <1>3, Items
    <3>2. ticks - expiry[t] < MaxLate /\ expiry[t] \in Nat
      BY <1>1, <1>3, <3>1 DEF OnTime, Typed
    <3>3. ticks' = ticks + 1
      BY <1>1
    <3> QED
      BY <1>4, <3>2, <3>3
  <2>5. pc' = pc /\ last' = last /\ expiry' = expiry
    BY <1>1, <1>2
  <2> QED
    BY <2>1, <2>3, <2>4, <2>5 DEF Late
<1>9. (Regular => InCycles /\ Near /\ Heads)'
  <2>1. Regular' => Regular /\ InCycles /\ Near /\ Heads
    BY <1>1, <1>2 DEF IInv, Regular
  <2>2. \A n \in {1, 2} : First(n)' = First(n)
    BY <1>1, <1>2 DEF First, Begin, Switching
  <2>3. InCycles => InCycles'
    BY <1>2, <2>2 DEF InCycles, OrderedBy
  <2>4. Near => Near'
    BY <1>1, <1>2 DEF Near, Listed
  <2>5. Heads => Heads'
    BY <1>1, <1>2 DEF Heads, IsEmpty
  <2> QED
    BY <2>1, <2>3, <2>4, <2>5
<1> QED
  BY <1>5, <1>6, <1>7, <1>8, <1>9 DEF IInv

-----------------------------------------------------------------------------
(* The steps of the timer task that leave the timers alone.                 *)

LEMMA Lateness ==
  ASSUME Short, Typed, Periods, Listed # {}
  PROVE  MaxLate + 1 < Width
<1>1. PICK t \in Listed : t \in Timers
  BY Items
<1>2. Fits(period[t]) /\ period[t] \in 1 .. Width - 1
  BY <1>1 DEF Periods, Typed
<1> DEFINE p == period[t]
<1> HIDE DEF p
<1>3. p + MaxLate < Width /\ p \in 1 .. Width - 1
  BY <1>2 DEF p, Fits
<1> QED
  BY <1>3, ConstantsTyped

LEMMA NothingListed == Typed /\ Listed = {} /\ Expires => InCycles /\ Near /\ Heads
<1> SUFFICES ASSUME Typed, Listed = {}, Expires
             PROVE  InCycles /\ Near /\ Heads
  OBVIOUS
<1>1. \A n \in {1, 2} : list[n] \in Seq(Timers) /\ ToSet(list[n]) = {}
  BY DEF Typed, Listed
<1>2. \A n \in {1, 2} : list[n] = <<>>
  BY <1>1, NoEntries
<1>3. IsEmpty
  BY <1>2 DEF IsEmpty, Typed
<1>4. ASSUME NEW n \in {1, 2} PROVE OrderedBy(list[n], expiry)
  <2>1. Len(list[n]) = 0
    BY <1>2
  <2> QED
    BY <2>1 DEF OrderedBy
<1> QED
  BY <1>1, <1>3, <1>4 DEF InCycles, Near, Heads, Expires

(* The time is sampled less than a cycle after it was last: if the count    *)
(* has wrapped, the lists are about to be switched.                         *)
LEMMA Sampled ==
  ASSUME Typed, InCycles, Near, ~Switching, ticks - last < Width,
         UNCHANGED <<ticks, timers>>, last' = ticks, Switching' <=> Wrapped
  PROVE  InCycles' /\ Near' /\ (~Wrapped => Begin' = Begin)
<1>1. UNCHANGED <<ticks, list, current, expiry, period, freed>>
  BY DEF timers
<1>2. ticks \in Nat /\ last \in Nat /\ last <= ticks /\ Width \in Nat /\ MaxLate \in Nat
  BY ConstantsTyped DEF Typed
<1>3. Begin' = ticks - W(ticks)
  BY <1>1 DEF Begin
<1>4. Begin \in Nat
  BY <1>2, Cycles DEF Begin
<1>5. Begin' = IF Wrapped THEN Begin + Width ELSE Begin
  BY <1>2, <1>3, Advanced
<1> DEFINE b == Begin
           c == Begin'
<1> HIDE DEF b, c
<1>6. ASSUME NEW n \in {1, 2} PROVE First(n)' = First(n)
  <2>1. First(n) = b + (IF n = current THEN 0 ELSE Width) - 0
    BY DEF First, b
  <2>2. First(n)' = c + (IF n = current THEN 0 ELSE Width) - (IF Wrapped THEN Width ELSE 0)
    BY <1>1 DEF First, c
  <2>3. b \in Nat /\ c = IF Wrapped THEN b + Width ELSE b
    BY <1>4, <1>5 DEF b, c
  <2> QED
    BY <1>2, <2>1, <2>2, <2>3
<1>7. InCycles'
  BY <1>1, <1>6 DEF InCycles, OrderedBy
<1>8. Near'
  <2>1. ASSUME NEW t \in Listed PROVE Fits(expiry[t] - ticks)
    <3>1. Fits(expiry[t] - last) /\ expiry[t] \in Nat
      BY Items DEF Near, Typed
    <3> QED
      BY <1>2, <3>1 DEF Fits
  <2> QED
    BY <1>1, <2>1 DEF Near, Listed
<1> QED
  BY <1>5, <1>7, <1>8

LEMMA ProcessKeeps ==
  ASSUME IInv, prvProcessTimerOrBlockTask
  PROVE  IInv'
<1>1. /\ pc = "process" /\ last' = ticks /\ called' = {}
      /\ \/ Wrapped /\ pc' = "switchBefore"
         \/ ~Wrapped /\ IsDue /\ pc' = "expire"
         \/ ~Wrapped /\ ~IsDue /\ pc' = "blocked"
      /\ UNCHANGED <<ticks, queue, client, gone, timers, stale>>
  BY DEF prvProcessTimerOrBlockTask, Goto
<1>2. UNCHANGED <<list, current, expiry, period, freed>>
  BY <1>1 DEF timers
<1>3. Typed /\ Once /\ Periods /\ Orders /\ Late /\ Expires
  BY DEF IInv
<1>4. ticks \in Nat /\ last \in Nat /\ MaxLate \in Nat /\ Width \in Nat
  BY <1>3, ConstantsTyped DEF Typed
<1>5. Typed'
  BY <1>1, <1>2, <1>3, <1>4 DEF Typed
<1>6. (Once /\ Periods)'
  BY <1>1, <1>2, <1>3 DEF Once, Periods, Listed
<1>7. Orders'
  BY <1>1, <1>3 DEF Orders, Sound, Fresh
<1>8. Expires'
  BY <1>1, <1>2 DEF Expires, IsDue, IsEmpty
<1>9. Late'
  <2>1. (Typed => Wake \in Nat /\ Wake >= last /\ NextExpireTime \in Nat)'
    BY WakeTyped, PTL
  <2>2. ticks - (IF pc' = "blocked" THEN Wake' ELSE ticks) <= MaxLate
    BY <1>1, <1>4, <1>5, <2>1
  <2>3. \A t \in Listed : ticks - expiry[t] <= MaxLate
    BY <1>3 DEF Late
  <2> QED
    BY <1>1, <1>2, <2>2, <2>3 DEF Late, Listed
<1>10. ASSUME Regular' PROVE (InCycles /\ Near /\ Heads)'
  <2>1. Short /\ Regular /\ InCycles /\ Near
    BY <1>1, <1>10 DEF Regular, IInv
  <2>2. CASE Listed' = {}
    <3>1. (Typed /\ Listed = {} /\ Expires => InCycles /\ Near /\ Heads)'
      BY NothingListed, PTL
    <3> QED
      BY <1>5, <1>8, <2>2, <3>1
  <2>3. CASE Listed' # {}
    <3>1. ticks - last < Width
      <4>1. MaxLate + 1 < Width
        BY <1>2, <1>3, <2>1, <2>3, Lateness DEF Listed
      <4>2. ticks - last <= MaxLate
        BY <1>1, <1>3 DEF Late
      <4> QED
        BY <1>4, <4>1, <4>2
    <3>2. ~Switching /\ (Switching' <=> Wrapped)
      BY <1>1 DEF Switching
    <3>3. InCycles' /\ Near' /\ (~Wrapped => Begin' = Begin)
      BY <1>1, <1>3, <2>1, <3>1, <3>2, Sampled
    <3>4. ASSUME ~Wrapped, ~IsEmpty
          PROVE  IsDue <=> expiry[Head(list[current])] <= ticks
      <4> DEFINE h == Head(list[current])
                 e == expiry[h]
                 b == Begin
      <4>1. h \in ToSet(list[current]) /\ h \in Timers /\ NextExpireTime = e
        BY <1>3, <3>4, HeadIs
      <4>2. e \in Nat
        BY <1>3, <4>1 DEF Typed
      <4>3. First(current) = b /\ b \in Nat /\ current \in {1, 2}
        <5>1. b \in Nat
          BY <1>4, Cycles DEF Begin
        <5>2. First(current) = Begin + 0 - 0
          BY <1>1 DEF First, Switching
        <5> QED
          BY <1>3, <5>1, <5>2 DEF Typed
      <4>4. b <= e /\ e < b + Width
        BY <2>1, <4>1, <4>3 DEF InCycles
      <4>5. ticks - W(ticks) = b
        BY <1>3, <1>4, <3>1, <3>4, Advanced DEF Typed
      <4>6. W(e) = e - b
        BY <1>4, <4>2, <4>4, Cycles DEF Begin
      <4>7. W(ticks) \in Int
        BY <1>4, Wrap
      <4>8. IsDue <=> W(e) <= W(ticks)
        BY <3>4, <4>1 DEF IsDue
      <4> HIDE DEF e, b
      <4> DEFINE x == W(ticks)
                 y == W(e)
      <4> HIDE DEF x, y
      <4>9. y <= x <=> e <= ticks
        BY <1>4, <4>2, <4>3, <4>5, <4>6, <4>7 DEF x, y
      <4> QED
        BY <4>8, <4>9 DEF x, y, e
    <3>5. Heads'
      <4> DEFINE e == expiry[Head(list[current])]
      <4>1. pc' = "expire" => e <= ticks
        BY <1>1, <1>2, <1>8, <3>4 DEF Expires, IsEmpty
      <4>2. pc' = "blocked" /\ ~IsEmpty => e > ticks
        <5> HAVE pc' = "blocked" /\ ~IsEmpty
        <5>1. ~(e <= ticks) /\ e \in Int
          BY <1>1, <1>3, <3>4, HeadIs DEF Typed
        <5> QED
          BY <1>4, <5>1
      <4> QED
        BY <1>1, <1>2, <4>1, <4>2 DEF Heads, IsEmpty
    <3> QED
      BY <3>3, <3>5
  <2> QED
    BY <2>2, <2>3
<1> QED
  BY <1>5, <1>6, <1>7, <1>8, <1>9, <1>10 DEF IInv

(* How far the time has come when the timer task samples it: not a cycle.   *)
(* Blocked without a timer on the current list, the task is woken when the  *)
(* count wraps.                                                             *)
LEMMA NotACycle ==
  ASSUME Typed, Periods, Late, Short, InCycles, Near, Heads, Listed # {},
         pc = "sample" \/ pc = "blocked"
  PROVE  ticks - last < Width
<1>1. /\ ticks \in Nat /\ last \in Nat /\ MaxLate \in Nat /\ Width \in Nat
      /\ current \in {1, 2} /\ MaxLate + 1 < Width
  BY ConstantsTyped, Lateness DEF Typed
<1>2. CASE pc = "sample"
  <2>1. ticks - last <= MaxLate
    BY <1>2 DEF Late
  <2> QED
    BY <1>1, <2>1
<1>3. CASE pc = "blocked"
  <2> DEFINE b == Begin
             wl == W(last)
             k == Wake
             N == NextExpireTime
  <2>1. /\ b \in Nat /\ b <= last /\ last < b + Width /\ wl = last - b /\ wl \in Nat
        /\ \A x \in Nat : b <= x /\ x < b + Width => W(x) = x - b
    BY <1>1, Cycles DEF Begin
  <2>2. ticks - k <= MaxLate /\ k \in Nat /\ N \in Nat
    BY <1>3, WakeTyped DEF Late
  <2>3. k = last + (IF W(N) = wl THEN 1 ELSE W(N - last))
    BY DEF Wake
  <2>4. First(current) = b /\ First(overflow) = b + Width
    <3>1. overflow # current
      BY Items
    <3>2. First(current) = Begin + 0 - 0 /\ First(overflow) = Begin + Width - 0
      BY <1>3, <3>1 DEF First, Switching
    <3> QED
      BY <1>1, <2>1, <3>2
  <2>5. CASE ~IsEmpty
    <3> DEFINE h == Head(list[current])
               e == expiry[h]
    <3>1. h \in ToSet(list[current]) /\ h \in Listed /\ h \in Timers /\ N = e
      BY <2>5, HeadIs
    <3>2. e \in Nat /\ e > last /\ b <= e /\ e < b + Width /\ Fits(e - last)
      BY <1>1, <1>3, <2>4, <2>5, <3>1 DEF Heads, Near, InCycles, Typed
    <3> HIDE DEF e, b, wl, k, N
    <3>3. W(e) = e - b
      BY <2>1, <3>2
    <3>4. e - last \in Int /\ e - last \in 0 .. Width - 1
      BY <1>1, <2>1, <3>2
    <3>5. W(e - last) = e - last
      BY <3>4, Small
    <3>6. W(e) # wl
      BY <1>1, <2>1, <3>2, <3>3
    <3>7. k = last + (e - last)
      BY <2>3, <3>1, <3>5, <3>6
    <3>8. e - last + MaxLate < Width
      BY <3>2 DEF Fits
    <3> QED
      BY <1>1, <2>2, <3>2, <3>7, <3>8
  <2>6. CASE IsEmpty
    <3>1. N = 0
      BY <2>6 DEF NextExpireTime
    <3>2. PICK t \in ToSet(list[overflow]) : t \in Listed /\ t \in Timers
      <4>1. ToSet(list[current]) = {}
        BY <2>6 DEF IsEmpty, ToSet
      <4>2. PICK t \in Listed : t \in Timers
        BY Items
      <4>3. t \in ToSet(list[overflow])
        BY <4>1, <4>2, Items
      <4> QED
        BY <4>2, <4>3
    <3> DEFINE e == expiry[t]
    <3>3. e \in Nat /\ b + Width <= e /\ Fits(e - last)
      <4>1. overflow \in {1, 2}
        BY Items
      <4> QED
        BY <2>4, <3>2, <4>1 DEF Near, InCycles, Typed
    <3> HIDE DEF e, b, k, N
    <3>4. e - last + MaxLate < Width
      BY <3>3 DEF Fits
    <3>5. b + MaxLate < last
      BY <1>1, <2>1, <3>3, <3>4
    <3>6. wl > 0
      BY <1>1, <2>1, <3>5
    <3> HIDE DEF wl
    <3>7. W(N) = 0
      <4>1. 0 \in 0 .. Width - 1
        BY <1>1
      <4> QED
        BY <3>1, <4>1, Small
    <3>8. W(N - last) = b + Width - last
      <4> DEFINE n == Width
                 q == last \div n
                 r == b + n - last
      <4>1. n \in Nat \ {0}
        BY <1>1
      <4>2. last = n * q + wl /\ q \in Int
        <5> HIDE DEF q, n
        <5>1. last = n * (last \div n) + (last % n) /\ last \div n \in Int
          BY <1>1, <4>1, Division
        <5> QED
          BY <5>1 DEF q, wl, W, n
      <4> HIDE DEF q
      <4>3. r \in 0 .. n - 1
        BY <1>1, <2>1, <3>6
      <4>4. b = n * q
        BY <1>1, <2>1, <4>1, <4>2
      <4> DEFINE m == -(q + 1)
      <4>5. m \in Int /\ n * m = -(b + n)
        <5>1. n * m = -(n * q) - n
          BY <4>1, <4>2
        <5> QED
          BY <4>1, <4>2, <4>4, <5>1, <2>1
      <4> HIDE DEF m, n, r
      <4>6. (n * m + r) % n = r
        BY <4>1, <4>3, <4>5, Remainder
      <4>7. n * m + r = N - last
        BY <1>1, <2>1, <3>1, <4>1, <4>5 DEF r
      <4>8. (N - last) % n = r
        BY <4>6, <4>7
      <4> QED
        BY <4>8 DEF W, n, r
    <3>9. k = last + (b + Width - last)
      BY <2>3, <3>6, <3>7, <3>8
    <3> QED
      BY <1>1, <2>1, <2>2, <3>5, <3>9
  <2> QED
    BY <2>5, <2>6
<1> QED
  BY <1>2, <1>3

LEMMA SampleKeeps ==
  ASSUME IInv, Sample
  PROVE  IInv'
<1>1. /\ pc = "sample" \/ pc = "blocked"
      /\ last' = ticks /\ called' = {}
      /\ pc' = (IF Wrapped THEN "switchAfter" ELSE "receive")
      /\ UNCHANGED <<ticks, queue, client, gone, timers, stale>>
  BY DEF Sample, Goto
<1>2. UNCHANGED <<list, current, expiry, period, freed>>
  BY <1>1 DEF timers
<1>3. Typed /\ Once /\ Periods /\ Orders /\ Late /\ Expires
  BY DEF IInv
<1>4. ticks \in Nat /\ last \in Nat /\ MaxLate \in Nat /\ Width \in Nat
  BY <1>3, ConstantsTyped DEF Typed
<1>5. Typed'
  BY <1>1, <1>2, <1>3, <1>4 DEF Typed
<1>6. (Once /\ Periods)'
  BY <1>1, <1>2, <1>3 DEF Once, Periods, Listed
<1>7. Orders'
  BY <1>1, <1>3 DEF Orders, Sound, Fresh
<1>8. Expires'
  BY <1>1 DEF Expires
<1>9. Late'
  <2>1. pc' # "blocked" /\ ticks - ticks <= MaxLate
    BY <1>1, <1>4
  <2>2. \A t \in Listed : ticks - expiry[t] <= MaxLate
    BY <1>3 DEF Late
  <2> QED
    BY <1>1, <1>2, <2>1, <2>2 DEF Late, Listed
<1>10. ASSUME Regular' PROVE (InCycles /\ Near /\ Heads)'
  <2>1. Short /\ Regular /\ InCycles /\ Near /\ Heads
    BY <1>1, <1>10 DEF Regular, IInv
  <2>2. CASE Listed' = {}
    <3>1. (Typed /\ Listed = {} /\ Expires => InCycles /\ Near /\ Heads)'
      BY NothingListed, PTL
    <3> QED
      BY <1>5, <1>8, <2>2, <3>1
  <2>3. CASE Listed' # {}
    <3>1. ticks - last < Width
      BY <1>1, <1>2, <1>3, <2>1, <2>3, NotACycle DEF Listed
    <3>2. ~Switching /\ (Switching' <=> Wrapped)
      BY <1>1 DEF Switching
    <3>3. InCycles' /\ Near'
      BY <1>1, <1>3, <2>1, <3>1, <3>2, Sampled
    <3> QED
      BY <1>1, <3>3 DEF Heads
  <2> QED
    BY <2>2, <2>3
<1> QED
  BY <1>5, <1>6, <1>7, <1>8, <1>9, <1>10 DEF IInv

LEMMA NoMoreCommandsKeeps ==
  ASSUME IInv, NoMoreCommands
  PROVE  IInv'
<1>1. /\ pc = "receive" /\ pc' = "process" /\ called' = {}
      /\ UNCHANGED <<ticks, queue, client, gone, timers, last, stale>>
  BY DEF NoMoreCommands, Goto
<1>2. UNCHANGED <<list, current, expiry, period, freed>>
  BY <1>1 DEF timers
<1>3. Typed /\ Once /\ Periods /\ Orders /\ Late /\ Expires
  BY DEF IInv
<1>4. Typed'
  BY <1>1, <1>2, <1>3 DEF Typed
<1>5. (Once /\ Periods /\ Orders /\ Expires)'
  BY <1>1, <1>2, <1>3 DEF Once, Periods, Listed, Orders, Sound, Fresh, Expires
<1>6. Late'
  <2>1. ticks - last <= MaxLate /\ \A t \in Listed : ticks - expiry[t] <= MaxLate
    BY <1>1, <1>3 DEF Late
  <2> QED
    BY <1>1, <1>2, <2>1 DEF Late, Listed
<1>7. ASSUME Regular' PROVE (InCycles /\ Near /\ Heads)'
  <2>1. InCycles /\ Near
    BY <1>1, <1>7 DEF Regular, IInv
  <2>2. \A n \in {1, 2} : First(n)' = First(n)
    BY <1>1, <1>2 DEF First, Begin, Switching
  <2> QED
    BY <1>1, <1>2, <2>1, <2>2 DEF InCycles, Near, Heads, OrderedBy, Listed
<1> QED
  BY <1>4, <1>5, <1>6, <1>7 DEF IInv

LEMMA SwitchedKeeps ==
  ASSUME IInv, Switched
  PROVE  IInv'
<1>1. /\ pc \in {"switchBefore", "switchAfter"} /\ pc' \in {"sample", "receive"}
      /\ IsEmpty /\ current' = overflow /\ called' = {}
      /\ UNCHANGED <<ticks, queue, client, gone, list, expiry, period, freed, last, stale>>
  BY DEF Switched, Switching, Goto
<1>2. Typed /\ Once /\ Periods /\ Orders /\ Late /\ Expires
  BY DEF IInv
<1>3. /\ overflow \in {1, 2} /\ overflow # current /\ current \in {1, 2}
      /\ last \in Nat /\ Width \in Nat
  BY <1>2, Items, ConstantsTyped DEF Typed
<1>4. Typed'
  BY <1>1, <1>2, <1>3 DEF Typed
<1>5. (Once /\ Periods /\ Orders /\ Expires)'
  BY <1>1, <1>2 DEF Once, Periods, Listed, Orders, Sound, Fresh, Expires
<1>6. Late'
  <2>1. ticks - last <= MaxLate /\ \A t \in Listed : ticks - expiry[t] <= MaxLate
    BY <1>1, <1>2 DEF Late
  <2> QED
    BY <1>1, <2>1 DEF Late, Listed
<1>7. ASSUME Regular' PROVE (InCycles /\ Near /\ Heads)'
  <2>1. InCycles /\ Near
    BY <1>1, <1>7 DEF Regular, IInv
  <2>2. ASSUME NEW n \in {1, 2}, n # current PROVE First(n)' = First(n)
    <3> DEFINE b == Begin
    <3>1. b \in Nat
      BY <1>3, Cycles DEF Begin
    <3>2. First(n) = b + Width - Width
      BY <1>1, <2>2 DEF First, Switching
    <3>3. Begin' = b
      BY <1>1 DEF Begin
    <3>4. ~Switching' /\ n = current'
      BY <1>1, <1>3, <2>2 DEF Switching, overflow
    <3> HIDE DEF b
    <3>5. First(n)' = b + 0 - 0
      BY <3>3, <3>4 DEF First
    <3> QED
      BY <1>3, <3>1, <3>2, <3>5
  <2>3. ToSet(list[current]) = {} /\ Len(list[current]) = 0
    BY <1>1 DEF IsEmpty, ToSet
  <2>4. ASSUME NEW n \in {1, 2}
        PROVE  /\ \A t \in ToSet(list[n]) : First(n)' <= expiry[t] /\ expiry[t] < First(n)' + Width
               /\ OrderedBy(list[n], expiry)
    BY <1>3, <2>1, <2>2, <2>3 DEF InCycles
  <2>5. InCycles'
    BY <1>1, <2>4 DEF InCycles, OrderedBy
  <2>6. Near'
    BY <1>1, <2>1 DEF Near, Listed
  <2> QED
    BY <1>1, <2>5, <2>6 DEF Heads
<1> QED
  BY <1>4, <1>5, <1>6, <1>7 DEF IInv

-----------------------------------------------------------------------------
(* The steps of the timer task that move timers.                            *)

LEMMA FirstKept ==
  ASSUME UNCHANGED <<current, last>>, Switching' <=> Switching
  PROVE  \A n \in {1, 2} : First(n)' = First(n)
BY DEF First, Begin

LEMMA DropsInv ==
  ASSUME IInv, NEW t \in Timers, Drops(t), UNCHANGED <<ticks, current, last>>,
         pc # "blocked", pc' # "blocked"
  PROVE  /\ list' \in [{1, 2} -> Seq(Timers)] /\ Once' /\ Late'
         /\ InCycles /\ Near /\ (Switching' <=> Switching) => InCycles' /\ Near'
<1>1. Typed /\ Once /\ Late
  BY DEF IInv
<1>2. /\ list' \in [{1, 2} -> Seq(Timers)]
      /\ IsInjective(list'[1]) /\ IsInjective(list'[2])
      /\ ToSet(list'[1]) \cap ToSet(list'[2]) = {} /\ Listed' = Listed \ {t}
      /\ \A u \in Listed' : expiry'[u] = expiry[u]
      /\ \A n \in {1, 2} : /\ ToSet(list'[n]) = ToSet(list[n]) \ {t}
                           /\ OrderedBy(list[n], expiry) => OrderedBy(list'[n], expiry')
  BY <1>1, DropsKeeps
<1>3. Once'
  BY <1>2 DEF Once
<1>4. Late'
  <2>1. ticks - last <= MaxLate /\ \A u \in Listed : ticks - expiry[u] <= MaxLate
    BY <1>1 DEF Late
  <2>2. \A u \in Listed' : ticks - expiry'[u] <= MaxLate
    BY <1>2, <2>1
  <2> QED
    BY <2>1, <2>2 DEF Late
<1>5. ASSUME InCycles, Near, Switching' <=> Switching PROVE InCycles' /\ Near'
  <2>1. \A n \in {1, 2} : First(n)' = First(n)
    BY <1>5, FirstKept
  <2>2. ASSUME NEW n \in {1, 2}
        PROVE  /\ \A u \in ToSet(list'[n]) : First(n)' <= expiry'[u] /\ expiry'[u] < First(n)' + Width
               /\ OrderedBy(list'[n], expiry')
    <3>1. /\ \A u \in ToSet(list[n]) : First(n) <= expiry[u] /\ expiry[u] < First(n) + Width
          /\ OrderedBy(list[n], expiry)
      BY <1>5 DEF InCycles
    <3>2. \A u \in ToSet(list'[n]) : u \in ToSet(list[n]) /\ expiry'[u] = expiry[u]
      BY <1>2, Items DEF Listed
    <3> QED
      BY <1>2, <2>1, <3>1, <3>2
  <2>3. InCycles'
    BY <2>2 DEF InCycles, OrderedBy
  <2>4. \A u \in Listed' : Fits(expiry'[u] - last)
    BY <1>2, <1>5 DEF Near
  <2> QED
    BY <2>3, <2>4 DEF Near
<1> QED
  BY <1>2, <1>3, <1>4, <1>5

LEMMA PutsInv ==
  ASSUME IInv, NEW t \in Timers, NEW n \in {1, 2}, NEW v \in Nat, Puts(t, n, v),
         UNCHANGED <<ticks, current, last>>, ticks - v <= MaxLate,
         pc # "blocked", pc' # "blocked"
  PROVE  /\ list' \in [{1, 2} -> Seq(Timers)] /\ expiry' \in [Timers -> Nat]
         /\ Once' /\ Late'
         /\ InCycles /\ Near /\ (Switching' <=> Switching) /\ First(n) <= v
            /\ v < First(n) + Width /\ Fits(v - last) => InCycles' /\ Near'
<1>1. Typed /\ Once /\ Late
  BY DEF IInv
<1>2. /\ list' \in [{1, 2} -> Seq(Timers)]
      /\ IsInjective(list'[1]) /\ IsInjective(list'[2])
      /\ ToSet(list'[1]) \cap ToSet(list'[2]) = {} /\ Listed' = Listed \cup {t}
      /\ expiry' \in [Timers -> Nat] /\ expiry'[t] = v
      /\ \A u \in Timers \ {t} : expiry'[u] = expiry[u]
      /\ \A m \in {1, 2} : ToSet(list'[m]) = (ToSet(list[m]) \ {t}) \cup (IF m = n THEN {t} ELSE {})
      /\ \A m \in {1, 2} \ {n} : OrderedBy(list[m], expiry) => OrderedBy(list'[m], expiry')
      /\ (/\ First(n) <= v /\ v < First(n) + Width
          /\ \A u \in ToSet(list[n]) : First(n) <= expiry[u] /\ expiry[u] < First(n) + Width
          /\ OrderedBy(list[n], expiry)) => OrderedBy(list'[n], expiry')
  BY <1>1, PutsKeeps
<1>3. Once'
  BY <1>2 DEF Once
<1>4. \A u \in Listed' : u = t \/ (u \in Listed /\ u # t /\ expiry'[u] = expiry[u])
  <2>1. Listed \subseteq Timers
    BY <1>1, Items
  <2> QED
    BY <1>2, <2>1
<1>5. Late'
  <2>1. ticks - last <= MaxLate /\ \A u \in Listed : ticks - expiry[u] <= MaxLate
    BY <1>1 DEF Late
  <2>2. \A u \in Listed' : ticks - expiry'[u] <= MaxLate
    BY <1>2, <1>4, <2>1
  <2> QED
    BY <2>1, <2>2 DEF Late
<1>6. ASSUME InCycles, Near, Switching' <=> Switching, First(n) <= v, v < First(n) + Width,
             Fits(v - last)
      PROVE  InCycles' /\ Near'
  <2>1. \A m \in {1, 2} : First(m)' = First(m)
    BY <1>6, FirstKept
  <2>2. \A m \in {1, 2} :
          /\ \A u \in ToSet(list[m]) : First(m) <= expiry[u] /\ expiry[u] < First(m) + Width
          /\ OrderedBy(list[m], expiry)
    BY <1>6 DEF InCycles
  <2>3. ASSUME NEW m \in {1, 2}
        PROVE  /\ \A u \in ToSet(list'[m]) : First(m)' <= expiry'[u] /\ expiry'[u] < First(m)' + Width
               /\ OrderedBy(list'[m], expiry')
    <3>1. OrderedBy(list'[m], expiry')
      <4>1. CASE m = n
        BY <1>2, <1>6, <2>2, <4>1
      <4>2. CASE m # n
        BY <1>2, <2>2, <4>2
      <4> QED
        BY <4>1, <4>2
    <3>2. ASSUME NEW u \in ToSet(list'[m])
          PROVE  First(m) <= expiry'[u] /\ expiry'[u] < First(m) + Width
      <4>1. u \in Listed'
        BY DEF Listed
      <4>2. CASE u = t
        BY <1>2, <1>6, <4>2
      <4>3. CASE u # t
        <5>1. u \in ToSet(list[m]) /\ expiry'[u] = expiry[u]
          BY <1>2, <1>4, <4>1, <4>3
        <5> QED
          BY <2>2, <5>1
      <4> QED
        BY <4>2, <4>3
    <3> QED
      BY <2>1, <3>1, <3>2
  <2>4. InCycles'
    BY <2>3 DEF InCycles, OrderedBy
  <2>5. \A u \in Listed' : Fits(expiry'[u] - last)
    BY <1>2, <1>4, <1>6 DEF Near
  <2> QED
    BY <2>4, <2>5 DEF Near
<1> QED
  BY <1>2, <1>3, <1>5, <1>6

(* prvInsertTimerInActiveList, when the lists are not being switched.       *)
LEMMA InsertTimerInv ==
  ASSUME IInv, NEW t \in Timers, NEW since \in Nat, NEW p \in 1 .. Width - 1,
         NEW v, v = since + p, InsertTimer(t, v, p, since),
         UNCHANGED <<ticks, current, last>>, ticks - since <= MaxLate,
         pc # "blocked", pc' # "blocked", ~Switching
  PROVE  /\ list' \in [{1, 2} -> Seq(Timers)] /\ expiry' \in [Timers -> Nat]
         /\ Once' /\ Late' /\ v \in Nat /\ ticks - v <= MaxLate
         /\ InCycles /\ Near /\ ~Switching' /\ Fits(p) /\ since <= last => InCycles' /\ Near'
<1>1. Typed
  BY DEF IInv
<1>2. /\ ticks \in Nat /\ last \in Nat /\ last <= ticks /\ Width \in Nat /\ MaxLate \in Nat
      /\ expiry \in [Timers -> Nat] /\ t \in Timers
  BY <1>1, ConstantsTyped DEF Typed
<1>3. p \in Nat /\ p > 0 /\ v \in Nat /\ ticks - v <= MaxLate
  BY <1>2
<1>4. ListFor(v) \in {1, 2}
  BY <1>1, Items DEF ListFor
<1>5. /\ expiry' = [expiry EXCEPT ![t] = v]
      /\ list' = IF Expired(v, p, since) THEN Removed(t)
                 ELSE Inserted(Removed(t), ListFor(v), t, v)
  BY DEF InsertTimer
<1>6. CASE Expired(v, p, since)
  <2>1. Drops(t)
    BY <1>2, <1>3, <1>5, <1>6 DEF Drops
  <2>2. expiry' \in [Timers -> Nat]
    BY <1>2, <1>3, <1>5
  <2> QED
    BY <1>2, <1>3, <2>1, <2>2, DropsInv
<1>7. CASE ~Expired(v, p, since)
  <2> DEFINE n == ListFor(v)
  <2>1. Puts(t, n, v)
    BY <1>5, <1>7 DEF Puts
  <2>2. ASSUME Fits(p), since <= last
        PROVE  First(n) <= v /\ v < First(n) + Width /\ Fits(v - last)
    <3>1. last - since <= MaxLate
      BY <1>2, <2>2
    <3>2. /\ Expired(v, p, since) <=> v <= last
          /\ v > last => \/ n = current /\ Begin <= v /\ v < Begin + Width
                         \/ n = overflow /\ Begin + Width <= v /\ v < Begin + 2 * Width
      BY <1>2, <2>2, <3>1, Judged
    <3>3. v > last
      BY <1>2, <1>3, <1>7, <3>2
    <3>4. Begin \in Nat /\ overflow # current
      BY <1>1, <1>2, Cycles, Items DEF Begin
    <3>5. First(n) = Begin + (IF n = current THEN 0 ELSE Width) - 0
      BY DEF First
    <3> DEFINE b == Begin
    <3>6. First(n) <= v /\ v < First(n) + Width
      <4>1. CASE n = current /\ b <= v /\ v < b + Width
        <5> HIDE DEF b, n
        <5>1. First(n) = b /\ b \in Nat
          BY <1>2, <3>4, <3>5, <4>1 DEF b
        <5> QED
          BY <4>1, <5>1
      <4>2. CASE n = overflow /\ b + Width <= v /\ v < b + 2 * Width
        <5>1. n # current
          BY <3>4, <4>2
        <5> HIDE DEF b, n
        <5>2. First(n) = b + Width /\ b \in Nat
          BY <1>2, <3>4, <3>5, <5>1 DEF b
        <5> QED
          BY <1>2, <1>3, <4>2, <5>2
      <4> QED
        BY <3>2, <3>3, <4>1, <4>2
    <3>7. v - last + MaxLate < Width
      <4>1. p + MaxLate < Width
        BY <2>2 DEF Fits
      <4> QED
        BY <1>2, <1>3, <2>2, <4>1
    <3> QED
      BY <3>6, <3>7 DEF Fits
  <2> HIDE DEF n
  <2>3. n \in {1, 2}
    BY <1>4 DEF n
  <2>4. /\ list' \in [{1, 2} -> Seq(Timers)] /\ expiry' \in [Timers -> Nat] /\ Once' /\ Late'
        /\ InCycles /\ Near /\ (Switching' <=> Switching) /\ First(n) <= v
           /\ v < First(n) + Width /\ Fits(v - last) => InCycles' /\ Near'
    BY <1>3, <2>1, <2>3, PutsInv
  <2> QED
    BY <1>3, <2>2, <2>4
<1> QED
  BY <1>6, <1>7

(* The timer task's own command finds room in the queue, or the code halts. *)
LEMMA RestartKeeps ==
  ASSUME Typed, Orders, NEW t \in Timers, NEW v \in Nat, NEW l, Restart(t, v, l),
         ticks - v <= MaxLate, UNCHANGED <<ticks, gone, client>>
  PROVE  /\ queue' \in Seq(Entries) /\ Len(queue') <= QueueLength /\ Orders'
         /\ pc' = l \/ pc' = "halted"
<1> DEFINE c == Command("start", t, v)
<1>1. c \in Entries /\ c.id = "start" /\ c.value = v
  BY CommandTyped DEF CommandIDs
<1>2. \/ Len(queue) < QueueLength /\ queue' = Append(queue, c) /\ pc' = l
      \/ queue' = queue /\ pc' = "halted"
  BY DEF Restart, Goto
<1> HIDE DEF c
<1>3. Sound(c)'
  BY <1>1 DEF Sound, Fresh
<1>4. queue' \in Seq(Entries) /\ \A d \in ToSet(queue') : Sound(d)'
  <2> DEFINE q == queue
  <2>1. queue' = q \/ (queue' = Append(q, c) /\ Sound(c)')
    BY <1>2, <1>3
  <2> QED
    BY <1>1, <2>1, QueueKeeps
<1>5. Len(queue') <= QueueLength
  <2>1. Len(Append(queue, c)) = Len(queue) + 1 /\ QueueLength \in Nat /\ Len(queue) \in Nat
    BY <1>1, ConstantsTyped DEF Typed
  <2> QED
    BY <1>2, <2>1 DEF Typed
<1>6. Fresh(client)'
  BY DEF Orders, Fresh
<1> QED
  BY <1>2, <1>4, <1>5, <1>6 DEF Orders

LEMMA ExpiredTimerKeeps ==
  ASSUME IInv, prvProcessExpiredTimer
  PROVE  IInv'
<1> DEFINE t == Head(list[current])
           e == expiry[t]
           p == period[t]
           v == e + p
<1>1. /\ pc = "expire" /\ called' = {t}
      /\ IF t \in AutoReload
         THEN /\ InsertTimer(t, v, p, e)
              /\ IF Expired(v, p, e) THEN Restart(t, e, "sample")
                                     ELSE pc' = "sample" /\ queue' = queue
         ELSE list' = Removed(t) /\ pc' = "sample" /\ UNCHANGED <<expiry, queue>>
      /\ UNCHANGED <<ticks, client, gone, current, period, freed, last, stale>>
  BY DEF prvProcessExpiredTimer, Goto
<1>2. Typed /\ Once /\ Periods /\ Orders /\ Late /\ Expires
  BY DEF IInv
<1>3. /\ ticks \in Nat /\ last \in Nat /\ last <= ticks /\ Width \in Nat /\ MaxLate \in Nat
      /\ expiry \in [Timers -> Nat] /\ period \in [Timers -> 1 .. Width - 1]
  BY <1>2, ConstantsTyped DEF Typed
<1>4. ~IsEmpty
  BY <1>1, <1>2 DEF Expires
<1>5. t \in Listed /\ t \in Timers
  BY <1>2, <1>4, HeadIs DEF Once
<1>6. e \in Nat /\ p \in 1 .. Width - 1 /\ ticks - e <= MaxLate
  BY <1>2, <1>3, <1>5 DEF Late
<1> HIDE DEF t, e, p
<1>7. /\ pc' \in {"sample", "halted"} /\ queue' \in Seq(Entries)
      /\ Len(queue') <= QueueLength /\ Orders'
  <2>1. CASE t \in AutoReload /\ Expired(v, p, e)
    <3> DEFINE l == "sample"
    <3>1. Restart(t, e, l)
      BY <1>1, <2>1
    <3> HIDE DEF l
    <3>2. /\ queue' \in Seq(Entries) /\ Len(queue') <= QueueLength /\ Orders'
          /\ pc' = l \/ pc' = "halted"
      BY <1>1, <1>2, <1>5, <1>6, <3>1, RestartKeeps
    <3> QED
      BY <3>2 DEF l
  <2>2. CASE ~(t \in AutoReload /\ Expired(v, p, e))
    <3>1. queue' = queue /\ pc' = "sample"
      BY <1>1, <2>2
    <3> QED
      BY <1>1, <1>2, <3>1 DEF Orders, Sound, Fresh, Typed
  <2> QED
    BY <2>1, <2>2
<1>8. pc # "blocked" /\ pc' # "blocked" /\ ~Switching /\ ~Switching'
  BY <1>1, <1>7 DEF Switching
<1>9. /\ list' \in [{1, 2} -> Seq(Timers)] /\ expiry' \in [Timers -> Nat] /\ Once' /\ Late'
      /\ Regular' => InCycles' /\ Near'
  <2>1. ASSUME Regular'
        PROVE  InCycles /\ Near /\ Fits(p) /\ e <= last
    <3>1. Regular /\ Short
      BY <1>1, <2>1 DEF Regular
    <3>2. Heads /\ InCycles /\ Near
      BY <3>1 DEF IInv
    <3> QED
      BY <1>1, <1>2, <1>5, <3>1, <3>2 DEF Heads, Periods, p, e, t
  <2>2. CASE t \in AutoReload
    <3>1. InsertTimer(t, v, p, e)
      BY <1>1, <2>2
    <3> HIDE DEF v
    <3>2. v = e + p
      BY DEF v
    <3>3. /\ list' \in [{1, 2} -> Seq(Timers)] /\ expiry' \in [Timers -> Nat]
          /\ Once' /\ Late'
          /\ InCycles /\ Near /\ ~Switching' /\ Fits(p) /\ e <= last => InCycles' /\ Near'
      BY <1>1, <1>5, <1>6, <1>8, <3>1, <3>2, InsertTimerInv
    <3> QED
      BY <1>8, <2>1, <3>3
  <2>3. CASE t \notin AutoReload
    <3>1. Drops(t)
      BY <1>1, <1>3, <2>3 DEF Drops
    <3>2. /\ list' \in [{1, 2} -> Seq(Timers)] /\ Once' /\ Late'
          /\ InCycles /\ Near /\ (Switching' <=> Switching) => InCycles' /\ Near'
      BY <1>1, <1>5, <1>8, <3>1, DropsInv
    <3> QED
      BY <1>1, <1>3, <1>8, <2>1, <2>3, <3>2
  <2> QED
    BY <2>2, <2>3
<1>10. Typed'
  BY <1>1, <1>2, <1>5, <1>7, <1>9 DEF Typed
<1>11. (Periods /\ Expires)' /\ (Regular' => Heads')
  BY <1>1, <1>2, <1>7 DEF Periods, Expires, Heads
<1> QED
  BY <1>7, <1>9, <1>10, <1>11 DEF IInv

LEMMA SwitchOneKeeps ==
  ASSUME IInv, SwitchOne
  PROVE  IInv'
<1> DEFINE t == Head(list[current])
           e == expiry[t]
           p == period[t]
           v == e + p
<1>1. /\ pc \in {"switchBefore", "switchAfter"} /\ ~IsEmpty /\ called' = {t}
      /\ \/ /\ W(v) > W(e) /\ expiry' = [expiry EXCEPT ![t] = v]
            /\ list' = Inserted(Removed(t), current, t, v)
            /\ UNCHANGED <<queue, pc>>
         \/ Restart(t, e, pc) /\ list' = Removed(t) /\ UNCHANGED expiry
         \/ list' = Removed(t) /\ UNCHANGED <<expiry, queue, pc>>
      /\ UNCHANGED <<ticks, client, gone, current, period, freed, last, stale>>
  BY DEF SwitchOne, Switching
<1>2. Typed /\ Once /\ Periods /\ Orders /\ Late /\ Expires
  BY DEF IInv
<1>3. /\ ticks \in Nat /\ last \in Nat /\ last <= ticks /\ Width \in Nat /\ MaxLate \in Nat
      /\ expiry \in [Timers -> Nat] /\ period \in [Timers -> 1 .. Width - 1]
      /\ current \in {1, 2}
  BY <1>2, ConstantsTyped DEF Typed
<1>5. t \in ToSet(list[current]) /\ t \in Listed /\ t \in Timers
  BY <1>1, <1>2, HeadIs DEF Once
<1>6. e \in Nat /\ p \in 1 .. Width - 1 /\ ticks - e <= MaxLate
  BY <1>2, <1>3, <1>5 DEF Late
<1> HIDE DEF t, e, p
<1>7. /\ pc' \in {pc, "halted"} /\ queue' \in Seq(Entries)
      /\ Len(queue') <= QueueLength /\ Orders'
  <2>1. CASE Restart(t, e, pc)
    <3>2. /\ queue' \in Seq(Entries) /\ Len(queue') <= QueueLength /\ Orders'
          /\ pc' = pc \/ pc' = "halted"
      <4> DEFINE l == pc
      <4>1. Restart(t, e, l)
        BY <2>1
      <4> HIDE DEF l
      <4>2. /\ queue' \in Seq(Entries) /\ Len(queue') <= QueueLength /\ Orders'
            /\ pc' = l \/ pc' = "halted"
        BY <1>1, <1>2, <1>5, <1>6, <4>1, RestartKeeps
      <4> QED
        BY <4>2 DEF l
    <3> QED
      BY <3>2
  <2>2. CASE queue' = queue /\ pc' = pc
    BY <1>1, <1>2, <2>2 DEF Orders, Sound, Fresh, Typed
  <2> QED
    BY <1>1, <2>1, <2>2
<1>8. /\ pc # "blocked" /\ pc' # "blocked" /\ pc' # "expire" /\ Switching
      /\ pc' = "halted" \/ (Switching' <=> Switching)
  BY <1>1, <1>7 DEF Switching
<1>9. /\ list' \in [{1, 2} -> Seq(Timers)] /\ expiry' \in [Timers -> Nat] /\ Once' /\ Late'
      /\ Regular' => InCycles' /\ Near'
  <2>1. ASSUME Regular'
        PROVE  InCycles /\ Near /\ (Switching' <=> Switching) /\ Short
    <3>1. Regular /\ Short /\ pc' # "halted"
      BY <1>1, <1>8, <2>1 DEF Regular, Switching
    <3> QED
      BY <1>8, <3>1 DEF IInv
  <2>2. CASE list' = Removed(t) /\ UNCHANGED expiry
    <3>1. Drops(t)
      BY <1>3, <2>2 DEF Drops
    <3>2. /\ list' \in [{1, 2} -> Seq(Timers)] /\ Once' /\ Late'
          /\ InCycles /\ Near /\ (Switching' <=> Switching) => InCycles' /\ Near'
      BY <1>1, <1>5, <1>8, <3>1, DropsInv
    <3> QED
      BY <1>3, <2>1, <2>2, <3>2
  <2>3. CASE /\ W(v) > W(e) /\ expiry' = [expiry EXCEPT ![t] = v]
             /\ list' = Inserted(Removed(t), current, t, v)
    <3> DEFINE n == current
    <3>1. Puts(t, n, v)
      BY <2>3 DEF Puts
    <3>2. v \in Nat /\ ticks - v <= MaxLate
      BY <1>3, <1>6
    <3>3. ASSUME Regular' PROVE First(n) <= v /\ v < First(n) + Width /\ Fits(v - last)
      <4> DEFINE b == Begin
                 w == Width
      <4>1. /\ b \in Nat /\ b <= last
            /\ \A x \in Nat : b - w <= x /\ x < b => W(x) = x - b + w
            /\ \A x \in Nat : b <= x /\ x < b + w => W(x) = x - b
        BY <1>3, Cycles DEF Begin
      <4>2. First(n) = b - w
        <5>1. First(n) = Begin + 0 - Width
          BY <1>8 DEF First
        <5> QED
          BY <1>3, <4>1, <5>1
      <4>3. b - w <= e /\ e < b
        <5>1. First(n) <= e /\ e < First(n) + Width
          BY <1>3, <1>5, <2>1, <3>3 DEF InCycles, e
        <5> QED
          BY <1>3, <1>6, <4>1, <4>2, <5>1
      <4>4. MaxLate + 1 < w
        BY <1>2, <1>5, <2>1, <3>3, Lateness
      <4>5. w \in Nat /\ v = e + p
        BY <1>3
      <4> HIDE DEF b, w, v, n
      <4>6. p < w /\ p > 0 /\ p \in Nat
        BY <1>3, <1>6 DEF w
      <4>7. W(e) = e - b + w
        BY <1>6, <4>1, <4>3
      <4>8. v < b
        <5> SUFFICES ASSUME ~(v < b) PROVE FALSE
          OBVIOUS
        <5>1. b <= v /\ v < b + w
          BY <1>6, <3>2, <4>1, <4>3, <4>5, <4>6
        <5>2. W(v) = v - b
          BY <3>2, <4>1, <5>1
        <5>3. v - b > e - b + w
          BY <2>3, <4>7, <5>2
        <5> QED
          BY <1>6, <3>2, <4>1, <4>5, <4>6, <5>3
      <4>9. b - w <= v /\ v < (b - w) + w
        BY <1>6, <4>1, <4>3, <4>5, <4>6, <4>8
      <4>10. v - last + MaxLate < w
        BY <1>3, <3>2, <4>1, <4>4, <4>5, <4>8
      <4> QED
        BY <4>2, <4>9, <4>10 DEF Fits, w
    <3> HIDE DEF v
    <3>4. n \in {1, 2}
      BY <1>3
    <3> HIDE DEF n
    <3>5. /\ list' \in [{1, 2} -> Seq(Timers)] /\ expiry' \in [Timers -> Nat]
          /\ Once' /\ Late'
          /\ InCycles /\ Near /\ (Switching' <=> Switching) /\ First(n) <= v
             /\ v < First(n) + Width /\ Fits(v - last) => InCycles' /\ Near'
      BY <1>1, <1>5, <1>8, <3>1, <3>2, <3>4, PutsInv
    <3> QED
      BY <2>1, <3>3, <3>5
  <2> QED
    BY <1>1, <2>2, <2>3
<1>10. Typed'
  <2>1. pc' \in {"process", "blocked", "expire", "switchBefore",
                 "sample", "switchAfter", "receive", "halted"}
    BY <1>1, <1>7
  <2> QED
    BY <1>1, <1>2, <1>5, <1>7, <1>9, <2>1 DEF Typed
<1>11. (Periods /\ Expires)' /\ (Regular' => Heads')
  BY <1>1, <1>2, <1>8 DEF Periods, Expires, Heads
<1> QED
  BY <1>7, <1>9, <1>10, <1>11 DEF IInv

(* The first command of the queue, and the rest.                            *)
LEMMA FirstCommand ==
  ASSUME Typed, Orders, queue # <<>>
  PROVE  /\ Head(queue) \in Entries /\ Sound(Head(queue))
         /\ Head(queue).timer \in Timers /\ Head(queue).value \in Nat
         /\ Tail(queue) \in Seq(Entries) /\ Len(Tail(queue)) = Len(queue) - 1
         /\ Len(queue) \in Nat
<1>1. queue \in Seq(Entries)
  BY DEF Typed
<1>2. /\ Head(queue) \in Entries /\ Head(queue) = queue[1] /\ 1 \in 1 .. Len(queue)
      /\ Len(queue) \in Nat
  BY <1>1
<1>3. Tail(queue) \in Seq(Entries) /\ Len(Tail(queue)) = Len(queue) - 1
  BY <1>1, HeadTailProperties
<1>4. Head(queue) \in ToSet(queue)
  BY <1>1, <1>2, EntriesOf
<1>5. Sound(Head(queue))
  BY <1>4 DEF Orders
<1>6. Head(queue).timer \in Timers /\ Head(queue).value \in Nat
  BY <1>2 DEF Entries
<1> QED
  BY <1>2, <1>3, <1>5, <1>6

(* What every command does to the queue and to the place of the timer task. *)
Answers(t, v) ==
  /\ \/ queue' = Tail(queue)
     \/ queue' = Append(Tail(queue), Command("start", t, v)) /\ ticks - v <= MaxLate
  /\ pc' = "receive" \/ pc' = "halted"
  /\ called' \subseteq {t}

LEMMA AnswersKeep ==
  ASSUME Typed, Orders, queue # <<>>, NEW t \in Timers, NEW v \in Nat, Answers(t, v),
         UNCHANGED <<ticks, client, gone>>
  PROVE  queue' \in Seq(Entries) /\ Len(queue') <= QueueLength /\ Orders'
<1> DEFINE c == Command("start", t, v)
           q == Tail(queue)
<1>1. c \in Entries /\ c.id = "start" /\ c.value = v
  BY CommandTyped DEF CommandIDs
<1>2. q \in Seq(Entries) /\ Len(q) = Len(queue) - 1 /\ Len(queue) \in Nat
  BY FirstCommand
<1>3. queue' = q \/ (queue' = Append(q, c) /\ ticks - v <= MaxLate)
  BY DEF Answers
<1>4. q = queue \/ (queue # <<>> /\ q = Tail(queue))
  OBVIOUS
<1> HIDE DEF c, q
<1>5. queue' = q \/ (queue' = Append(q, c) /\ Sound(c)')
  BY <1>1, <1>3 DEF Sound, Fresh
<1>6. queue' \in Seq(Entries) /\ \A d \in ToSet(queue') : Sound(d)'
  BY <1>1, <1>4, <1>5, QueueKeeps
<1>7. Len(queue') <= QueueLength
  <2>1. Len(Append(q, c)) = Len(q) + 1 /\ QueueLength \in Nat /\ Len(queue) <= QueueLength
    BY <1>1, <1>2, ConstantsTyped DEF Typed
  <2> QED
    BY <1>2, <1>3, <2>1
<1>8. Fresh(client)'
  BY DEF Orders, Fresh
<1> QED
  BY <1>6, <1>7, <1>8 DEF Orders

(* What is left to show of a command: where the timers are.                 *)
LEMMA ReceivedInv ==
  ASSUME IInv, pc = "receive", queue # <<>>, NEW t \in Timers, NEW v \in Nat, Answers(t, v),
         UNCHANGED <<ticks, client, gone, current, last>>,
         stale' \in BOOLEAN, stale => stale',
         list' \in [{1, 2} -> Seq(Timers)], expiry' \in [Timers -> Nat],
         period' \in [Timers -> 1 .. Width - 1], Short => \A u \in Timers : Fits(period'[u]),
         freed' \subseteq gone, Once', Late',
         Regular' => InCycles' /\ Near'
  PROVE  IInv'
<1>1. Typed /\ Orders
  BY DEF IInv
<1>2. queue' \in Seq(Entries) /\ Len(queue') <= QueueLength /\ Orders'
  BY <1>1, AnswersKeep
<1>3. (pc' = "receive" \/ pc' = "halted") /\ called' \subseteq {t}
  BY DEF Answers
<1>4. Typed'
  <2>1. pc' \in {"process", "blocked", "expire", "switchBefore",
                 "sample", "switchAfter", "receive", "halted"}
    BY <1>3
  <2> QED
    BY <1>1, <1>2, <1>3, <2>1 DEF Typed
<1>5. (Periods /\ Expires /\ Heads)'
  BY <1>3 DEF Periods, Expires, Heads
<1> QED
  BY <1>2, <1>4, <1>5 DEF IInv

LEMMA StartKeeps ==
  ASSUME IInv, pc = "receive", queue # <<>>, NEW t \in Timers, NEW since \in Nat,
         ticks - since <= MaxLate, Start(t, since),
         UNCHANGED <<ticks, client, gone, current, last>>
  PROVE  IInv'
<1> DEFINE p == period[t]
           v == since + p
<1>1. /\ InsertTimer(t, v, p, since) /\ stale' = (stale \/ since > last)
      /\ \/ queue' = Tail(queue)
         \/ queue' = Append(Tail(queue), Command("start", t, v))
      /\ pc' = pc \/ pc' = "halted"
      /\ called' \subseteq {t}
      /\ UNCHANGED <<period, freed>>
  BY DEF Start, Goto
<1>2. Typed /\ Once /\ Periods /\ Orders /\ Late /\ Expires
  BY DEF IInv
<1>3. /\ ticks \in Nat /\ last \in Nat /\ last <= ticks /\ Width \in Nat /\ MaxLate \in Nat
      /\ period \in [Timers -> 1 .. Width - 1] /\ freed \subseteq gone /\ stale \in BOOLEAN
  BY <1>2, ConstantsTyped DEF Typed
<1>4. p \in 1 .. Width - 1 /\ v = since + p
  BY <1>3
<1>5. pc # "blocked" /\ pc' # "blocked" /\ ~Switching /\ ~Switching'
  BY <1>1 DEF Switching
<1>6. ASSUME Regular' PROVE InCycles /\ Near /\ Fits(p) /\ since <= last
  <2>1. Short /\ ~stale' /\ ~stale /\ since <= last
    <3>1. Short /\ ~stale'
      BY <1>6 DEF Regular
    <3>2. stale' = (stale \/ since > last)
      BY <1>1
    <3>3. ~stale /\ ~(since > last)
      BY <3>1, <3>2, Zenon
    <3> QED
      BY <1>3, <3>1, <3>3
  <2>2. InCycles /\ Near
    BY <2>1 DEF Regular, IInv
  <2> QED
    BY <1>2, <2>1, <2>2 DEF Periods
<1>7. stale' \in BOOLEAN /\ (stale => stale')
  BY <1>1, <1>3
<1> HIDE DEF p, v
<1>8. /\ list' \in [{1, 2} -> Seq(Timers)] /\ expiry' \in [Timers -> Nat]
      /\ Once' /\ Late' /\ v \in Nat /\ ticks - v <= MaxLate
      /\ InCycles /\ Near /\ ~Switching' /\ Fits(p) /\ since <= last => InCycles' /\ Near'
  BY <1>1, <1>4, <1>5, InsertTimerInv
<1>9. Answers(t, v)
  BY <1>1, <1>8 DEF Answers
<1>10. Regular' => InCycles' /\ Near'
  BY <1>5, <1>6, <1>8
<1>11. Short => \A u \in Timers : Fits(period'[u])
  BY <1>1, <1>2 DEF Periods
<1> QED
  BY <1>1, <1>3, <1>7, <1>8, <1>9, <1>10, <1>11, ReceivedInv

LEMMA ChangePeriodKeeps ==
  ASSUME IInv, pc = "receive", queue # <<>>, NEW t \in Timers,
         NEW p \in 1 .. Width - 1, Short => Fits(p), ChangePeriod(t, p),
         UNCHANGED <<ticks, client, gone, current, last>>
  PROVE  IInv'
<1> DEFINE v == last + p
           since == last
<1>1. /\ InsertTimer(t, v, p, since) /\ queue' = Tail(queue) /\ called' = {}
      /\ period' = [period EXCEPT ![t] = p]
      /\ UNCHANGED <<freed, stale, pc>>
  BY DEF ChangePeriod
<1>2. Typed /\ Once /\ Periods /\ Orders /\ Late /\ Expires
  BY DEF IInv
<1>3. /\ ticks \in Nat /\ since \in Nat /\ last \in Nat /\ last <= ticks /\ Width \in Nat
      /\ MaxLate \in Nat /\ period \in [Timers -> 1 .. Width - 1] /\ freed \subseteq gone
      /\ stale \in BOOLEAN
  BY <1>2, ConstantsTyped DEF Typed
<1>4. v = since + p /\ ticks - since <= MaxLate /\ since <= last
  BY <1>2, <1>3 DEF Late
<1>5. pc # "blocked" /\ pc' # "blocked" /\ ~Switching /\ ~Switching'
  BY <1>1 DEF Switching
<1>6. ASSUME Regular' PROVE InCycles /\ Near /\ Fits(p)
  <2>1. Short /\ Regular
    BY <1>1, <1>6 DEF Regular
  <2> QED
    BY <2>1 DEF IInv
<1> HIDE DEF v, since
<1>8. /\ list' \in [{1, 2} -> Seq(Timers)] /\ expiry' \in [Timers -> Nat]
      /\ Once' /\ Late' /\ v \in Nat /\ ticks - v <= MaxLate
      /\ InCycles /\ Near /\ ~Switching' /\ Fits(p) /\ since <= last => InCycles' /\ Near'
  BY <1>1, <1>3, <1>4, <1>5, InsertTimerInv
<1>9. Answers(t, v)
  BY <1>1 DEF Answers
<1>10. Regular' => InCycles' /\ Near'
  BY <1>4, <1>5, <1>6, <1>8
<1>11. /\ period' \in [Timers -> 1 .. Width - 1]
       /\ Short => \A u \in Timers : Fits(period'[u])
  BY <1>1, <1>2, <1>3 DEF Periods
<1> QED
  BY <1>1, <1>3, <1>8, <1>9, <1>10, <1>11, ReceivedInv

(* Stop, and Delete, which frees the timer.                                 *)
LEMMA LeavesKeeps ==
  ASSUME IInv, pc = "receive", queue # <<>>, NEW t \in Timers,
         Stop(t) \/ (Delete(t) /\ t \in gone),
         UNCHANGED <<ticks, client, gone, current, last>>
  PROVE  IInv'
<1>1. /\ list' = Removed(t) /\ queue' = Tail(queue) /\ called' = {}
      /\ UNCHANGED <<expiry, period, stale, pc>>
      /\ freed' = freed \/ (freed' = freed \cup {t} /\ t \in gone)
  BY DEF Stop, Delete
<1>2. Typed /\ Once /\ Periods /\ Orders /\ Late /\ Expires
  BY DEF IInv
<1>3. /\ period \in [Timers -> 1 .. Width - 1] /\ freed \subseteq gone
      /\ expiry \in [Timers -> Nat] /\ stale \in BOOLEAN
  BY <1>2 DEF Typed
<1>4. freed' \subseteq gone
  BY <1>1, <1>3
<1>5. pc # "blocked" /\ pc' # "blocked" /\ (Switching' <=> Switching)
  BY <1>1 DEF Switching
<1>6. Drops(t)
  BY <1>1, <1>3 DEF Drops
<1>7. /\ list' \in [{1, 2} -> Seq(Timers)] /\ Once' /\ Late'
      /\ InCycles /\ Near /\ (Switching' <=> Switching) => InCycles' /\ Near'
  BY <1>1, <1>5, <1>6, DropsInv
<1>8. Regular' => InCycles' /\ Near'
  <2>1. Regular' => Regular
    BY <1>1 DEF Regular
  <2> QED
    BY <1>5, <1>7, <2>1 DEF IInv
<1>9. Answers(t, 0)
  BY <1>1 DEF Answers
<1>10. Short => \A u \in Timers : Fits(period'[u])
  BY <1>1, <1>2 DEF Periods
<1> QED
  BY <1>1, <1>3, <1>4, <1>7, <1>8, <1>9, <1>10, ReceivedInv

LEMMA ReceivedKeeps ==
  ASSUME IInv, Received
  PROVE  IInv'
<1> DEFINE t == Head(queue).timer
           v == Head(queue).value
<1>1. /\ pc = "receive" /\ queue # <<>>
      /\ \/ Head(queue).id = "start" /\ Start(t, v)
         \/ Head(queue).id = "period" /\ ChangePeriod(t, v)
         \/ Head(queue).id = "stop" /\ Stop(t)
         \/ Head(queue).id = "delete" /\ Delete(t)
      /\ UNCHANGED <<ticks, client, gone, current, last>>
  BY DEF Received
<1>2. Typed /\ Orders
  BY DEF IInv
<1>3. Sound(Head(queue)) /\ t \in Timers /\ v \in Nat
  BY <1>1, <1>2, FirstCommand
<1>4. /\ Head(queue).id = "start" => ticks - v <= MaxLate
      /\ Head(queue).id = "period" => v \in 1 .. Width - 1 /\ (Short => Fits(v))
      /\ Head(queue).id = "delete" => t \in gone
  BY <1>3 DEF Sound, Fresh
<1> HIDE DEF t, v
<1>5. CASE Head(queue).id = "start" /\ Start(t, v)
  BY <1>1, <1>3, <1>4, <1>5, StartKeeps
<1>6. CASE Head(queue).id = "period" /\ ChangePeriod(t, v)
  BY <1>1, <1>3, <1>4, <1>6, ChangePeriodKeeps
<1>7. CASE Head(queue).id = "stop" /\ Stop(t)
  BY <1>1, <1>3, <1>7, LeavesKeeps
<1>8. CASE Head(queue).id = "delete" /\ Delete(t)
  BY <1>1, <1>3, <1>4, <1>8, LeavesKeeps
<1> QED
  BY <1>1, <1>5, <1>6, <1>7, <1>8

-----------------------------------------------------------------------------
(* The invariant.                                                           *)

LEMMA InitHolds == Init => IInv
<1> SUFFICES ASSUME Init PROVE IInv
  OBVIOUS
<1>1. /\ queue = <<>> /\ list = [n \in {1, 2} |-> <<>>] /\ current = 1
      /\ expiry = [t \in Timers |-> 0] /\ period = Period /\ freed = {}
      /\ pc = "process" /\ last = 0 /\ ticks = 0 /\ client = NoCommand /\ gone = {}
      /\ called = {} /\ stale = FALSE
  BY DEF Init, prvCheckForValidListAndQueue, xTimerCreate, xTimerCreateTimerTask
<1>2. /\ Width \in Nat /\ MaxLate \in Nat /\ MaxTicks \in Nat /\ QueueLength \in Nat
      /\ Period \in [Timers -> 1 .. Width - 1]
  BY ConstantsTyped
<1>3. list \in [{1, 2} -> Seq(Timers)] /\ list[1] = <<>> /\ list[2] = <<>>
  BY <1>1
<1>4. expiry \in [Timers -> Nat]
  BY <1>1
<1>5. Typed
  <2>1. queue \in Seq(Entries) /\ Len(queue) <= QueueLength
    BY <1>1, <1>2
  <2>2. period \in [Timers -> 1 .. Width - 1] /\ current \in {1, 2}
    BY <1>1, <1>2
  <2>3. /\ gone \subseteq Timers /\ freed \subseteq gone /\ called \subseteq Timers
        /\ stale \in BOOLEAN
    BY <1>1
  <2>4. ticks \in Nat /\ ticks <= MaxTicks /\ last \in Nat /\ last <= ticks
    BY <1>1, <1>2
  <2> QED
    BY <1>1, <1>3, <1>4, <2>1, <2>2, <2>3, <2>4 DEF Typed
<1>6. /\ ToSet(list[1]) = {} /\ ToSet(list[2]) = {}
      /\ IsInjective(list[1]) /\ IsInjective(list[2])
  <2>1. ToSet(<<>>) = {} /\ IsInjective(<<>>)
    BY DEF ToSet, IsInjective
  <2> QED
    BY <1>3, <2>1
<1>7. Listed = {}
  BY <1>6 DEF Listed
<1>8. Once
  BY <1>1, <1>6, <1>7 DEF Once
<1>9. Periods
  BY <1>1 DEF Periods, Short
<1>10. Orders
  <2>1. ToSet(queue) = {}
    BY <1>1 DEF ToSet
  <2>2. Fresh(client)
    BY <1>1, CommandTyped DEF Fresh
  <2> QED
    BY <2>1, <2>2 DEF Orders
<1>11. Late
  BY <1>1, <1>2, <1>7 DEF Late
<1>12. Expires
  BY <1>1 DEF Expires
<1>13. InCycles /\ Near /\ Heads
  BY <1>5, <1>7, <1>12, NothingListed
<1> QED
  BY <1>5, <1>8, <1>9, <1>10, <1>11, <1>12, <1>13 DEF IInv

LEMMA StutterKeeps ==
  ASSUME IInv, UNCHANGED vars
  PROVE  IInv'
<1>1. UNCHANGED <<ticks, queue, client, gone, timers, pc, last, called, stale>>
  BY DEF vars
<1>2. Typed'
  BY <1>1 DEF IInv, Typed, timers
<1>3. Orders'
  BY <1>1 DEF IInv, Orders, Sound, Fresh
<1> QED
  BY <1>1, <1>2, <1>3, ClientKeeps

LEMMA NextKeeps ==
  ASSUME IInv, [Next]_vars
  PROVE  IInv'
<1>1. CASE TimerTask
  BY <1>1, ProcessKeeps, ExpiredTimerKeeps, SwitchOneKeeps, SwitchedKeeps, SampleKeeps,
     NoMoreCommandsKeeps, ReceivedKeeps DEF TimerTask
<1>2. CASE Tick
  BY <1>2, TickKeeps
<1>3. CASE SendStart
  BY <1>3, SendStartKeeps
<1>4. ASSUME NEW t \in Timers, ReadTime(t) PROVE IInv'
  BY <1>4, ReadTimeKeeps
<1>5. ASSUME NEW c \in Commands, SendOther(c[1], c[2], c[3]) PROVE IInv'
  BY <1>5, SendOtherKeeps
<1>6. CASE UNCHANGED vars
  BY <1>6, StutterKeeps
<1> QED
  BY <1>1, <1>2, <1>3, <1>4, <1>5, <1>6 DEF Next

(* The inductive invariant holds.                                           *)
THEOREM Invariance == Spec => []IInv
<1>1. IInv /\ [Next]_vars => IInv'
  BY NextKeeps
<1> QED
  BY <1>1, InitHolds, PTL DEF Spec

-----------------------------------------------------------------------------
(* Deletions: a command that reaches a timer whose memory is free, or that  *)
(* waits in the queue behind its deletion, can only be a start of a timer   *)
(* that reloads, as the timer task sends.                                   *)

Restarts(c) == c.id = "start" /\ c.timer \in AutoReload
Guarded(q, f) ==
  /\ \A c \in ToSet(q) : c.timer \in f => Restarts(c)
  /\ \A i, j \in DOMAIN q :
       i < j /\ q[i].id = "delete" /\ q[j].timer = q[i].timer => Restarts(q[j])
MayFollow(c, q, f) ==
  \/ Restarts(c)
  \/ c.timer \notin f /\ \A d \in ToSet(q) : d.id = "delete" => d.timer # c.timer
Behind == client.timer \notin gone /\ Guarded(queue, freed)
Free ==
  /\ \A t \in Listed : t \in freed => t \in revived
  /\ revived \subseteq freed /\ revived \subseteq AutoReload
Deleted == Behind /\ Free

(* The queue after the first command is taken out, and maybe freed its      *)
(* timer.                                                                   *)
LEMMA TailBehind ==
  ASSUME Typed, Guarded(queue, freed), queue # <<>>, NEW f,
         \A t \in f : t \in freed \/ (t = Head(queue).timer /\ Head(queue).id = "delete"),
         NEW q \in Seq(Entries), Len(q) = Len(queue) - 1,
         \A m \in 1 .. Len(q) : q[m] = queue[m + 1]
  PROVE  Guarded(q, f)
<1>1. queue \in Seq(Entries)
  BY DEF Typed
<1>2. /\ Len(queue) \in Nat /\ Len(q) = Len(queue) - 1
      /\ \A m \in 1 .. Len(q) : q[m] = queue[m + 1]
      /\ Head(queue) = queue[1] /\ 1 \in 1 .. Len(queue)
  BY <1>1
<1>3. /\ ToSet(q) = {q[m] : m \in 1 .. Len(q)} /\ DOMAIN q = 1 .. Len(q)
      /\ \A m \in 1 .. Len(queue) : queue[m] \in ToSet(queue)
      /\ DOMAIN queue = 1 .. Len(queue)
  <2>1. ToSet(q) = {q[m] : m \in 1 .. Len(q)} /\ DOMAIN q = 1 .. Len(q)
    BY EntriesOf
  <2>2. /\ \A m \in 1 .. Len(queue) : queue[m] \in ToSet(queue)
        /\ DOMAIN queue = 1 .. Len(queue)
    BY <1>1, EntriesOf
  <2> QED
    BY <2>1, <2>2
<1>4. /\ \A c \in ToSet(queue) : c.timer \in freed => Restarts(c)
      /\ \A i, j \in 1 .. Len(queue) :
           i < j /\ queue[i].id = "delete" /\ queue[j].timer = queue[i].timer
             => Restarts(queue[j])
  BY <1>3, Zenon DEF Guarded
<1>5. \A m \in 1 .. Len(q) : m + 1 \in 1 .. Len(queue) /\ 1 < m + 1 /\ m \in Int
  BY <1>2
<1>6. ASSUME NEW m \in 1 .. Len(q), q[m].timer \in f PROVE Restarts(q[m])
  <2>1. q[m] = queue[m + 1] /\ m + 1 \in 1 .. Len(queue) /\ 1 < m + 1
    BY <1>2, <1>5
  <2>2. CASE q[m].timer \in freed
    BY <1>3, <1>4, <2>1, <2>2
  <2>3. CASE q[m].timer = Head(queue).timer /\ Head(queue).id = "delete"
    BY <1>2, <1>4, <2>1, <2>3
  <2> QED
    BY <1>6, <2>2, <2>3
<1>7. ASSUME NEW i \in 1 .. Len(q), NEW j \in 1 .. Len(q), i < j, q[i].id = "delete",
             q[j].timer = q[i].timer
      PROVE  Restarts(q[j])
  <2>1. i + 1 < j + 1
    BY <1>5, <1>7
  <2> QED
    BY <1>2, <1>4, <1>5, <1>7, <2>1
<1> QED
  BY <1>3, <1>6, <1>7 DEF Guarded

(* The queue after a command is sent that may come behind a deletion.       *)
LEMMA SentBehind ==
  ASSUME NEW q \in Seq(Entries), NEW f, Guarded(q, f), NEW c \in Entries, MayFollow(c, q, f)
  PROVE  Guarded(Append(q, c), f)
<1> DEFINE r == Append(q, c)
<1>1. /\ r \in Seq(Entries) /\ Len(r) = Len(q) + 1 /\ r[Len(q) + 1] = c
      /\ \A m \in 1 .. Len(q) : r[m] = q[m]
  BY AppendProperties
<1> HIDE DEF r
<1>2. /\ ToSet(r) = {r[m] : m \in 1 .. Len(r)} /\ Len(q) \in Nat
      /\ \A m \in 1 .. Len(q) : q[m] \in ToSet(q)
      /\ DOMAIN r = 1 .. Len(r) /\ DOMAIN q = 1 .. Len(q)
  <2>1. ToSet(r) = {r[m] : m \in 1 .. Len(r)} /\ DOMAIN r = 1 .. Len(r)
    BY <1>1, EntriesOf
  <2>2. Len(q) \in Nat /\ DOMAIN q = 1 .. Len(q) /\ \A m \in 1 .. Len(q) : q[m] \in ToSet(q)
    BY EntriesOf
  <2> QED
    BY <2>1, <2>2
<1>3. ASSUME NEW m \in 1 .. Len(r), m # Len(q) + 1 PROVE m \in 1 .. Len(q)
  BY <1>1, <1>2, <1>3
<1>4. ASSUME NEW m \in 1 .. Len(r), r[m].timer \in f PROVE Restarts(r[m])
  <2>1. CASE m = Len(q) + 1
    BY <1>1, <1>4, <2>1 DEF MayFollow
  <2>2. CASE m # Len(q) + 1
    BY <1>1, <1>2, <1>3, <1>4, <2>2 DEF Guarded
  <2> QED
    BY <2>1, <2>2
<1>5. ASSUME NEW i \in 1 .. Len(r), NEW j \in 1 .. Len(r), i < j, r[i].id = "delete",
             r[j].timer = r[i].timer
      PROVE  Restarts(r[j])
  <2>1. i \in 1 .. Len(q)
    BY <1>1, <1>2, <1>5
  <2>2. CASE j = Len(q) + 1
    BY <1>1, <1>2, <1>5, <2>1, <2>2 DEF MayFollow
  <2>3. CASE j # Len(q) + 1
    <3>1. j \in 1 .. Len(q)
      BY <1>3, <2>3
    <3> QED
      BY <1>1, <1>2, <1>5, <2>1, <3>1 DEF Guarded
  <2> QED
    BY <2>2, <2>3
<1>6. Guarded(r, f)
  BY <1>2, <1>4, <1>5 DEF Guarded
<1> QED
  BY <1>6 DEF r

(* A command that a client sends, or the timer task.                        *)
LEMMA SendsBehind ==
  ASSUME Typed, Orders, Behind, NEW c \in Entries, c.timer \notin gone \/ Restarts(c),
         \/ queue' = Append(queue, c)
         \/ queue' = queue,
         gone' = gone \/ (gone' = gone \cup {c.timer} /\ client'.timer # c.timer),
         client'.timer \notin gone, freed' = freed
  PROVE  Behind'
<1>1. queue \in Seq(Entries) /\ freed \subseteq gone
  BY DEF Typed
<1>2. \A d \in ToSet(queue) : d.id = "delete" => d.timer \in gone
  BY DEF Orders, Sound
<1>3. MayFollow(c, queue, freed)
  BY <1>1, <1>2 DEF MayFollow
<1>4. Guarded(queue, freed)
  BY DEF Behind
<1>5. Guarded(Append(queue, c), freed)
  BY <1>1, <1>3, <1>4, SentBehind
<1>6. client'.timer \notin gone'
  OBVIOUS
<1>7. Guarded(queue', freed')
  BY <1>4, <1>5, Zenon
<1> QED
  BY <1>6, <1>7, Zenon DEF Behind

(* What leaves the lists and the freed timers alone.                        *)
LEMMA SameFree ==
  ASSUME Free, UNCHANGED <<freed, revived>>, \A t \in Listed' : t \in Listed
  PROVE  Free'
BY DEF Free

LEMMA SameBehind ==
  ASSUME Behind, UNCHANGED <<queue, client, gone, freed>>
  PROVE  Behind'
BY DEF Behind

LEMMA ClientsDelete ==
  ASSUME IInv, Deleted,
         \/ SendStart
         \/ \E t \in Timers : ReadTime(t)
         \/ \E c \in Commands : SendOther(c[1], c[2], c[3])
  PROVE  Deleted'
<1>1. Typed /\ Orders /\ Behind /\ Free /\ gone \subseteq Timers
  BY DEF IInv, Deleted, Typed
<1>2. NoCommand.timer \notin gone
  BY <1>1, ConstantsTyped, CommandTyped
<1>3. UNCHANGED timers
  BY DEF SendStart, ReadTime, SendOther, Sends
<1>4. Free'
  <2>1. UNCHANGED <<freed, revived, list>>
    BY <1>3 DEF timers
  <2>2. \A t \in Listed' : t \in Listed
    BY <2>1 DEF Listed
  <2> QED
    BY <1>1, <2>1, <2>2, SameFree
<1>5. freed' = freed
  BY <1>3 DEF timers
<1>6. ASSUME SendStart PROVE Behind'
  <2>1. /\ client \in Entries /\ client.timer \notin gone /\ client' = NoCommand
        /\ client.id = "start"
    BY <1>1, <1>6 DEF SendStart, Typed, Behind
  <2>2. /\ queue' = Append(queue, client) \/ queue' = queue
        /\ gone' = gone
    BY <1>6, <2>1 DEF SendStart, Sends
  <2> DEFINE c == client
  <2>3. c \in Entries /\ c.timer \notin gone /\ (queue' = Append(queue, c) \/ queue' = queue)
    BY <2>1, <2>2
  <2>4. client'.timer \notin gone
    BY <1>2, <2>1
  <2> HIDE DEF c
  <2> QED
    BY <1>1, <1>5, <2>2, <2>3, <2>4, SendsBehind
<1>7. ASSUME NEW t \in Timers, ReadTime(t) PROVE Behind'
  <2>1. /\ client' = Command("start", t, ticks) /\ t \notin gone /\ UNCHANGED <<queue, gone>>
    BY <1>7 DEF ReadTime
  <2>2. client'.timer = t
    BY <2>1 DEF Command
  <2> QED
    BY <1>1, <1>5, <2>1, <2>2 DEF Behind
<1>8. ASSUME NEW c \in Commands, SendOther(c[1], c[2], c[3]) PROVE Behind'
  <2> DEFINE d == Command(c[2], c[1], c[3])
  <2>1. /\ c[1] \in Timers /\ c[2] \in CommandIDs /\ c[3] \in Nat
    BY ConstantsTyped
  <2>2. d \in Entries /\ d.timer = c[1]
    BY <2>1, CommandTyped
  <2>3. /\ d.timer \notin gone /\ d.timer # client.timer /\ Sends(d) /\ client' = client
    BY <1>8, <2>2 DEF SendOther
  <2> HIDE DEF d
  <2>4. /\ queue' = Append(queue, d) \/ queue' = queue
        /\ gone' = gone \/ (gone' = gone \cup {d.timer} /\ client'.timer # d.timer)
    BY <2>3 DEF Sends
  <2>5. client'.timer \notin gone
    BY <1>1, <2>3 DEF Behind
  <2> QED
    BY <1>1, <1>5, <2>2, <2>3, <2>4, <2>5, SendsBehind
<1> QED
  BY <1>4, <1>6, <1>7, <1>8 DEF Deleted

(* prvInsertTimerInActiveList lists nothing but its timer.                  *)
LEMMA InsertLists ==
  ASSUME Typed, Once, NEW t \in Timers, NEW since \in Nat, NEW p \in Nat,
         NEW v, v = since + p, InsertTimer(t, v, p, since)
  PROVE  Listed' \subseteq Listed \cup {t}
<1>1. v \in Nat /\ expiry \in [Timers -> Nat] /\ ListFor(v) \in {1, 2}
  BY Items DEF ListFor, Typed
<1>2. CASE Expired(v, p, since)
  <2>1. Drops(t)
    BY <1>1, <1>2 DEF Drops, InsertTimer
  <2> QED
    BY <2>1, DropsKeeps
<1>3. CASE ~Expired(v, p, since)
  <2> DEFINE n == ListFor(v)
  <2>1. Puts(t, n, v) /\ n \in {1, 2}
    BY <1>1, <1>3 DEF Puts, InsertTimer
  <2> HIDE DEF n
  <2> QED
    BY <1>1, <2>1, PutsKeeps
<1> QED
  BY <1>2, <1>3

(* An expiry, before a switch of the lists or not: a timer that is listed   *)
(* stays listed, or the timer task sends its restart.                       *)
LEMMA ExpiryDeletes ==
  ASSUME IInv, Deleted, prvProcessExpiredTimer \/ SwitchOne
  PROVE  Deleted'
<1> DEFINE t == Head(list[current])
           e == expiry[t]
           p == period[t]
           v == e + p
<1>1. Typed /\ Once /\ Orders /\ Behind /\ Free
  BY DEF IInv, Deleted
<1>2. ~IsEmpty
  BY DEF IInv, Expires, prvProcessExpiredTimer, SwitchOne
<1>3. t \in Listed /\ t \in Timers /\ current \in {1, 2}
  BY <1>1, <1>2, HeadIs DEF Typed
<1>4. e \in Nat /\ p \in Nat /\ v \in Nat /\ expiry \in [Timers -> Nat]
  <2>1. /\ period \in [Timers -> 1 .. Width - 1] /\ expiry \in [Timers -> Nat]
        /\ Width \in Nat
    BY <1>1, ConstantsTyped DEF Typed
  <2>2. e \in Nat /\ p \in 1 .. Width - 1
    BY <1>3, <2>1
  <2> QED
    BY <2>1, <2>2
<1>5. /\ UNCHANGED <<client, gone, freed, revived>>
      /\ \/ queue' = queue
         \/ t \in AutoReload /\ queue' = Append(queue, Command("start", t, e))
      /\ \/ InsertTimer(t, v, p, e)
         \/ list' = Removed(t) /\ expiry' = expiry
         \/ Puts(t, current, v)
  BY DEF prvProcessExpiredTimer, SwitchOne, Restart, Puts
<1> HIDE DEF t, e, p
<1>6. Listed' \subseteq Listed
  <2>1. CASE InsertTimer(t, v, p, e)
    <3> HIDE DEF v
    <3>1. v = e + p
      BY DEF v
    <3> QED
      BY <1>1, <1>3, <1>4, <2>1, <3>1, InsertLists
  <2>2. CASE list' = Removed(t) /\ expiry' = expiry
    <3>1. Drops(t)
      BY <1>4, <2>2 DEF Drops
    <3> QED
      BY <1>1, <1>3, <3>1, DropsKeeps
  <2>3. CASE Puts(t, current, v)
    <3> DEFINE n == current
    <3>1. Puts(t, n, v) /\ n \in {1, 2}
      BY <1>3, <2>3
    <3> HIDE DEF n, v
    <3> QED
      BY <1>1, <1>3, <1>4, <3>1, PutsKeeps
  <2> QED
    BY <1>5, <2>1, <2>2, <2>3
<1>7. Free'
  BY <1>1, <1>5, <1>6, SameFree
<1>8. Behind'
  <2>1. CASE queue' = queue
    BY <1>1, <1>5, <2>1, SameBehind
  <2>2. CASE t \in AutoReload /\ queue' = Append(queue, Command("start", t, e))
    <3> DEFINE c == Command("start", t, e)
    <3>1. c \in Entries /\ c.id = "start" /\ c.timer = t
      BY <1>3, <1>4, CommandTyped DEF CommandIDs
    <3>2. Restarts(c)
      BY <2>2, <3>1 DEF Restarts
    <3>3. queue' = Append(queue, c)
      BY <2>2
    <3> HIDE DEF c
    <3>4. client'.timer \notin gone /\ gone' = gone /\ freed' = freed
      BY <1>1, <1>5 DEF Behind
    <3> QED
      BY <1>1, <3>1, <3>2, <3>3, <3>4, SendsBehind
  <2> QED
    BY <1>5, <2>1, <2>2
<1> QED
  BY <1>7, <1>8 DEF Deleted

(* A command of the queue.                                                  *)
LEMMA CommandDeletes ==
  ASSUME IInv, Deleted, Received
  PROVE  Deleted'
<1> DEFINE h == Head(queue)
           t == h.timer
           q == Tail(queue)
<1>1. Typed /\ Once /\ Orders /\ Behind /\ Free
  BY DEF IInv, Deleted
<1>2. queue # <<>> /\ UNCHANGED <<client, gone>>
  BY DEF Received
<1>3. /\ h \in Entries /\ Sound(h) /\ t \in Timers /\ h.value \in Nat /\ h \in ToSet(queue)
  <2>1. queue \in Seq(Entries)
    BY <1>1 DEF Typed
  <2>2. Head(queue) = queue[1] /\ 1 \in 1 .. Len(queue)
    BY <1>2, <2>1
  <2>3. Head(queue) \in ToSet(queue)
    BY <2>1, <2>2, EntriesOf
  <2> QED
    BY <1>1, <1>2, <2>3, FirstCommand
<1>4. t \in freed => h.id = "start" /\ t \in AutoReload
  BY <1>1, <1>3 DEF Behind, Guarded, Restarts
<1>5. client'.timer \notin gone'
  BY <1>1, <1>2 DEF Behind
<1>6. /\ period[t] \in Nat /\ last \in Nat /\ period \in [Timers -> 1 .. Width - 1]
      /\ expiry \in [Timers -> Nat] /\ Width \in Nat
  <2>1. /\ period \in [Timers -> 1 .. Width - 1] /\ expiry \in [Timers -> Nat]
        /\ Width \in Nat /\ last \in Nat
    BY <1>1, ConstantsTyped DEF Typed
  <2>2. period[t] \in 1 .. Width - 1
    BY <1>3, <2>1
  <2> QED
    BY <2>1, <2>2
<1>7. ASSUME NEW f,
             \A u \in f : u \in freed \/ (u = t /\ h.id = "delete"),
             freed' = f,
             \/ queue' = q
             \/ \E c \in Entries : Restarts(c) /\ queue' = Append(q, c)
      PROVE  Behind'
  <2>1. q \in Seq(Entries) /\ Guarded(q, f)
    <3>1. /\ q \in Seq(Entries) /\ Len(q) = Len(queue) - 1
          /\ \A m \in 1 .. Len(q) : q[m] = queue[m + 1]
      BY <1>1, <1>2, HeadTailProperties DEF Typed
    <3>2. Guarded(queue, freed)
      BY <1>1 DEF Behind
    <3> HIDE DEF q
    <3> QED
      BY <1>1, <1>2, <1>7, <3>1, <3>2, TailBehind
  <2> HIDE DEF q
  <2>2. CASE queue' = q
    BY <1>5, <1>7, <2>1, <2>2, Zenon DEF Behind
  <2>3. ASSUME NEW c \in Entries, Restarts(c), queue' = Append(q, c) PROVE Behind'
    <3>1. MayFollow(c, q, f)
      BY <2>3 DEF MayFollow
    <3>2. Guarded(Append(q, c), f)
      BY <2>1, <3>1, SentBehind
    <3> QED
      BY <1>5, <1>7, <2>3, <3>2, Zenon DEF Behind
  <2> QED
    BY <1>7, <2>2, <2>3
<1>8. ASSUME h.id = "start", Start(t, h.value) PROVE Deleted'
  <2> DEFINE since == h.value
             p == period[t]
             v == since + p
             c == Command("start", t, v)
             f == freed
  <2>1. /\ InsertTimer(t, v, p, since) /\ freed' = freed
        /\ revived' = revived \cup ({t} \cap freed)
        /\ queue' = q \/ (t \in AutoReload /\ queue' = Append(q, c))
    BY <1>8 DEF Start
  <2>2. v \in Nat
    BY <1>3, <1>6
  <2>3. c \in Entries /\ c.id = "start" /\ c.timer = t
    <3> HIDE DEF v
    <3> QED
      BY <1>3, <2>2, CommandTyped DEF CommandIDs
  <2>4. Listed' \subseteq Listed \cup {t}
    <3>1. since \in Nat /\ p \in Nat /\ v = since + p
      BY <1>3, <1>6
    <3> HIDE DEF since, p, v, t
    <3> QED
      BY <1>1, <1>3, <2>1, <3>1, InsertLists
  <2> HIDE DEF t, c, q, v
  <2>5. Free'
    BY <1>1, <1>4, <2>1, <2>4 DEF Free
  <2>6. freed' = f /\ \A u \in f : u \in freed
    BY <2>1
  <2>7. queue' = q \/ \E d \in Entries : Restarts(d) /\ queue' = Append(q, d)
    BY <2>1, <2>3 DEF Restarts
  <2> HIDE DEF f
  <2>8. Behind'
    BY <1>7, <2>6, <2>7
  <2> QED
    BY <2>5, <2>8 DEF Deleted
<1>9. ASSUME h.id = "period", ChangePeriod(t, h.value) PROVE Deleted'
  <2> DEFINE since == last
             p == h.value
             v == since + p
             f == freed
  <2>1. /\ InsertTimer(t, v, p, since) /\ UNCHANGED <<freed, revived>>
        /\ queue' = q
    BY <1>9 DEF ChangePeriod
  <2>2. Listed' \subseteq Listed \cup {t}
    <3>1. since \in Nat /\ p \in Nat /\ v = since + p
      BY <1>3, <1>6
    <3> HIDE DEF since, p, v, t
    <3> QED
      BY <1>1, <1>3, <2>1, <3>1, InsertLists
  <2>3. t \notin freed
    BY <1>4, <1>9
  <2> HIDE DEF t, q
  <2>4. Free'
    BY <1>1, <2>1, <2>2, <2>3 DEF Free
  <2>5. freed' = f /\ \A u \in f : u \in freed
    BY <2>1
  <2> HIDE DEF f
  <2>6. Behind'
    BY <1>7, <2>1, <2>5
  <2> QED
    BY <2>4, <2>6 DEF Deleted
<1>10. ASSUME Stop(t) \/ (h.id = "delete" /\ Delete(t)) PROVE Deleted'
  <2>1. /\ list' = Removed(t) /\ expiry' = expiry /\ revived' = revived /\ queue' = q
        /\ \/ freed' = freed
           \/ freed' = freed \cup {t} /\ h.id = "delete"
    BY <1>10 DEF Stop, Delete
  <2>2. Listed' = Listed \ {t}
    <3> HIDE DEF t
    <3>1. Drops(t)
      BY <1>6, <2>1 DEF Drops
    <3> QED
      BY <1>1, <1>3, <3>1, DropsKeeps
  <2> HIDE DEF t, q, h
  <2>3. Free'
    BY <1>1, <2>1, <2>2 DEF Free
  <2>4. PICK f : f = freed'
    OBVIOUS
  <2>5. freed' = f /\ \A u \in f : u \in freed \/ (u = t /\ h.id = "delete")
    BY <2>1, <2>4
  <2>6. Behind'
    BY <1>7, <2>1, <2>5
  <2> QED
    BY <2>3, <2>6 DEF Deleted
<1>11. \/ h.id = "start" /\ Start(t, h.value)
       \/ h.id = "period" /\ ChangePeriod(t, h.value)
       \/ Stop(t)
       \/ h.id = "delete" /\ Delete(t)
  BY DEF Received
<1> QED
  BY <1>8, <1>9, <1>10, <1>11

(* No other step touches the queue, the lists or the freed timers.          *)
LEMMA DeletedKept ==
  ASSUME IInv, Deleted, [Next]_vars
  PROVE  Deleted'
<1>1. Behind /\ Free
  BY DEF Deleted
<1>2. ASSUME UNCHANGED <<queue, client, gone, freed, revived, list>> PROVE Deleted'
  <2>1. \A t \in Listed' : t \in Listed
    BY <1>2 DEF Listed
  <2> QED
    BY <1>1, <1>2, <2>1, SameFree, SameBehind DEF Deleted
<1>3. CASE \/ prvProcessTimerOrBlockTask \/ Switched \/ Sample \/ NoMoreCommands
           \/ Tick \/ UNCHANGED vars
  <2>1. UNCHANGED <<queue, client, gone, freed, revived, list>>
    BY <1>3 DEF prvProcessTimerOrBlockTask, Switched, Sample, NoMoreCommands, Tick, vars, timers
  <2> QED
    BY <1>2, <2>1
<1> QED
  BY <1>3, ClientsDelete, ExpiryDeletes, CommandDeletes DEF Next, TimerTask

LEMMA NoneDeleted == Init => Deleted
<1> SUFFICES ASSUME Init PROVE Deleted
  OBVIOUS
<1>1. /\ queue = <<>> /\ freed = {} /\ revived = {} /\ gone = {} /\ client = NoCommand
      /\ list[1] = <<>> /\ list[2] = <<>>
  BY DEF Init, prvCheckForValidListAndQueue, xTimerCreate
<1>2. ToSet(<<>>) = {} /\ DOMAIN <<>> = {}
  BY DEF ToSet
<1>3. Behind
  BY <1>1, <1>2 DEF Behind, Guarded
<1>4. Free
  BY <1>1 DEF Free
<1> QED
  BY <1>3, <1>4 DEF Deleted

(* Behind its deletion, a timer gets no command but restarts of the timer   *)
(* task's kind, and none else lists it after its memory is free.            *)
THEOREM Deletions == Spec => []Deleted
<1>1. IInv /\ IInv' /\ Deleted /\ [Next]_vars => Deleted'
  BY DeletedKept
<1> QED
  BY <1>1, NoneDeleted, Invariance, PTL DEF Spec

-----------------------------------------------------------------------------
(* What it shows.                                                           *)

(* xActiveTimerList1 and xActiveTimerList2 together hold a timer once at    *)
(* most, for every number of timers and however commands, expiries and      *)
(* wraps of the count interleave, whether or not the periods leave room for *)
(* the lateness of the timer task; and a timer whose memory is free, only if*)
(* it reloads and a restart of it came behind its deletion.                 *)
THEOREM TimersListedOnce == Spec => []ListedOnce
<1>1. ASSUME IInv, Deleted PROVE ListedOnce
  <2>1. Typed /\ Once /\ Free
    BY <1>1 DEF IInv, Deleted
  <2>2. TypeOK
    <3>1. ticks \in 0 .. MaxTicks /\ last \in 0 .. ticks
      BY <2>1, ConstantsTyped DEF Typed
    <3>2. \A n \in {1, 2} : list[n] \in Seq(Timers)
      BY <2>1 DEF Typed
    <3>3. queue \in Seq([id : CommandIDs, timer : Timers, value : Nat])
      BY <2>1 DEF Typed, Entries
    <3> QED
      BY <2>1, <3>1, <3>2, <3>3 DEF Typed, TypeOK, Free
  <2>3. IsInjective(list[1] \o list[2])
    <3> DEFINE a == list[1]
               b == list[2]
    <3>1. /\ a \in Seq(Timers) /\ b \in Seq(Timers) /\ IsInjective(a) /\ IsInjective(b)
          /\ ToSet(a) \cap ToSet(b) = {}
      BY <2>1 DEF Typed, Once
    <3> HIDE DEF a, b
    <3>2. IsInjective(a \o b)
      BY <3>1, ConcatOnce
    <3> QED
      BY <3>2 DEF a, b
  <2>4. /\ \A t \in freed : xTimerIsTimerActive(t) => t \in revived
        /\ revived \subseteq AutoReload
    BY <2>1, Items DEF Free, Typed
  <2> QED
    BY <2>2, <2>3, <2>4 DEF ListedOnce
<1> QED
  BY <1>1, Invariance, Deletions, PTL

(* With periods that leave room in a cycle for the lateness of the timer    *)
(* task, the two lists divide the timers by the cycle of the count in which *)
(* they expire, each in the order of the times: what prvTimerTask and       *)
(* vListInsert compare, wrapped, is what they mean.                         *)
THEOREM CyclesApart == Spec => [](Short => InOwnCycle)
<1>1. ASSUME IInv, Short PROVE InOwnCycle
  <2>1. SUFFICES ASSUME ~Switching, pc # "halted", ~stale, NEW n \in {1, 2}
                 PROVE  /\ \A t \in ToSet(list[n]) : expiry[t] \div Width = Cycle(n)
                        /\ \A i, j \in DOMAIN list[n] :
                             i < j => expiry[list[n][i]] <= expiry[list[n][j]]
    BY DEF InOwnCycle
  <2>2. Typed /\ InCycles
    BY <1>1, <2>1 DEF IInv, Regular
  <2>3. last \in Nat /\ expiry \in [Timers -> Nat] /\ list[n] \in Seq(Timers)
    BY <2>2 DEF Typed
  <2>4. ASSUME NEW t \in ToSet(list[n]) PROVE expiry[t] \div Width = Cycle(n)
    <3> DEFINE w == Width
               c == last
               e == expiry[t]
               b == c - (c % w)
    <3>1. w \in Nat \ {0} /\ c \in Nat
      BY <2>3, ConstantsTyped
    <3>2. e \in Nat
      BY <2>3, EntriesOf
    <3>3. First(n) <= e /\ e < First(n) + Width
      BY <2>2 DEF InCycles
    <3>4. First(n) = Begin + (IF n = current THEN 0 ELSE Width) - 0
      BY <2>1 DEF First
    <3>5. Begin = b
      BY DEF Begin, W
    <3>6. Cycle(n) = (c \div w) + (IF n = current THEN 0 ELSE 1)
      BY DEF Cycle
    <3> HIDE DEF w, c, e
    <3>7. /\ b \in Nat /\ b <= c /\ c < b + w /\ c % w \in 0 .. w - 1
          /\ \A x \in Nat : b - w <= x /\ x < b =>
               x % w = x - b + w /\ x \div w = (c \div w) - 1
          /\ \A x \in Nat : b <= x /\ x < b + w =>
               x % w = x - b /\ x \div w = c \div w
          /\ \A x \in Nat : b + w <= x /\ x < b + 2 * w =>
               x % w = x - b - w /\ x \div w = (c \div w) + 1
      BY <3>1, CycleOf, Zenon
    <3>8. c \div w \in Int
      BY <3>1, Division
    <3> DEFINE q == c \div w
               eq == e \div w
    <3>9. /\ b <= e /\ e < b + w => eq = q
          /\ b + w <= e /\ e < b + 2 * w => eq = q + 1
      BY <3>2, <3>7
    <3>10. b \in Nat /\ q \in Int
      BY <3>7, <3>8
    <3> HIDE DEF b, q, eq
    <3>11. First(n) = b + (IF n = current THEN 0 ELSE w)
      <4>1. First(n) = b + (IF n = current THEN 0 ELSE w) - 0
        BY <3>4, <3>5 DEF w
      <4> QED
        BY <3>1, <3>10, <4>1
    <3>12. CASE n = current
      <4>1. b <= e /\ e < b + w
        BY <3>1, <3>3, <3>10, <3>11, <3>12 DEF w
      <4>2. eq = q + 0
        BY <3>9, <3>10, <4>1
      <4> QED
        BY <3>6, <3>12, <4>2 DEF eq, e, q, w
    <3>13. CASE n # current
      <4>1. b + w <= e /\ e < b + 2 * w
        BY <3>1, <3>2, <3>3, <3>10, <3>11, <3>13 DEF w
      <4>2. eq = q + 1
        BY <3>9, <4>1
      <4> QED
        BY <3>6, <3>13, <4>2 DEF eq, e, q, w
    <3> QED
      BY <3>12, <3>13
  <2>5. ASSUME NEW i \in DOMAIN list[n], NEW j \in DOMAIN list[n], i < j
        PROVE  expiry[list[n][i]] <= expiry[list[n][j]]
    <3>1. OrderedBy(list[n], expiry)
      BY <2>2 DEF InCycles
    <3>2. i \in 1 .. Len(list[n]) /\ j \in 1 .. Len(list[n]) /\ i <= j
      BY <2>3, <2>5
    <3> QED
      BY <3>1, <3>2 DEF OrderedBy
  <2> QED
    BY <2>4, <2>5
<1>2. IInv => (Short => InOwnCycle)
  BY <1>1
<1> QED
  BY <1>2, Invariance, PTL

(* With such periods, no callback is called before its timer expires, by    *)
(* prvProcessExpiredTimer, prvSwitchTimerLists or                           *)
(* prvProcessReceivedCommands, on either side of a wrap of the count; but   *)
(* for a start sent after the last of them took the time.                   *)
THEOREM NotCalledEarly == Short /\ Spec => NeverEarly
<1> DEFINE InTime == ~stale' => \A t \in called' : ticks >= ExpiresAt(t)
<1>1. ASSUME Short, IInv, Next, ~stale', NEW t \in called'
      PROVE  ticks >= ExpiresAt(t)
  <2>1. Typed /\ Once /\ Periods /\ Orders /\ Late /\ Expires
    BY <1>1 DEF IInv
  <2>2. /\ ticks \in Nat /\ last \in Nat /\ last <= ticks /\ Width \in Nat
        /\ expiry \in [Timers -> Nat] /\ period \in [Timers -> 1 .. Width - 1]
        /\ current \in {1, 2}
    BY <2>1, ConstantsTyped DEF Typed
  <2>3. ASSUME ~stale, pc # "halted"
        PROVE  InCycles /\ Heads
    BY <1>1, <2>3 DEF IInv, Regular
  <2>4. CASE prvProcessExpiredTimer
    <3> DEFINE h == Head(list[current])
    <3>1. pc = "expire" /\ t = h /\ ~stale
      BY <1>1, <2>4 DEF prvProcessExpiredTimer
    <3>2. ~IsEmpty
      BY <2>1, <3>1 DEF Expires
    <3>3. h \in Timers
      BY <2>1, <3>2, HeadIs
    <3>4. expiry[h] <= last
      BY <2>3, <3>1 DEF Heads
    <3>5. ExpiresAt(t) = expiry[t]
      BY <3>1 DEF ExpiresAt
    <3> HIDE DEF h
    <3>6. expiry[t] \in Nat /\ expiry[t] <= last
      BY <2>2, <3>1, <3>3, <3>4
    <3> QED
      BY <2>2, <3>5, <3>6
  <2>5. CASE SwitchOne
    <3> DEFINE h == Head(list[current])
    <3>1. Switching /\ ~IsEmpty /\ t = h /\ ~stale /\ pc # "halted" /\ pc # "receive"
      BY <1>1, <2>5 DEF SwitchOne, Switching
    <3>2. h \in ToSet(list[current]) /\ h \in Timers
      BY <2>1, <3>1, HeadIs
    <3>3. expiry[h] < First(current) + Width
      BY <2>2, <2>3, <3>1, <3>2 DEF InCycles
    <3>4. First(current) = Begin + 0 - Width
      BY <3>1 DEF First
    <3>5. Begin \in Nat /\ Begin <= last
      BY <2>2, Cycles DEF Begin
    <3>6. ExpiresAt(t) = expiry[t]
      BY <3>1 DEF ExpiresAt
    <3> HIDE DEF h
    <3>7. expiry[t] \in Nat /\ expiry[t] < First(current) + Width
      BY <2>2, <3>1, <3>2, <3>3
    <3> QED
      BY <2>2, <3>4, <3>5, <3>6, <3>7
  <2>6. CASE Received
    <3> DEFINE u == Head(queue).timer
               since == Head(queue).value
               p == period[u]
               v == since + p
    <3>1. /\ pc = "receive" /\ queue # <<>>
          /\ \/ Head(queue).id = "start" /\ Start(u, since)
             \/ ChangePeriod(u, since) \/ Stop(u) \/ Delete(u)
      BY <2>6 DEF Received
    <3>2. Head(queue).id = "start" /\ Start(u, since)
      BY <1>1, <3>1 DEF ChangePeriod, Stop, Delete
    <3>3. Sound(Head(queue)) /\ u \in Timers /\ since \in Nat
      BY <2>1, <3>1, FirstCommand
    <3>4. ticks - since <= MaxLate
      BY <3>2, <3>3 DEF Sound, Fresh
    <3> HIDE DEF u, since
    <3>5. /\ Expired(v, p, since) /\ t = u /\ expiry' = [expiry EXCEPT ![u] = v]
          /\ stale' = (stale \/ since > last)
      BY <1>1, <3>2 DEF Start, InsertTimer
    <3>6. ~(since > last)
      BY <1>1, <3>5, Zenon
    <3>7. p \in 1 .. Width - 1 /\ Fits(p) /\ v = since + p /\ v \in Nat
      <4>1. p \in 1 .. Width - 1 /\ Fits(p)
        BY <1>1, <2>1, <2>2, <3>3 DEF Periods
      <4> QED
        BY <2>2, <3>3, <4>1
    <3> HIDE DEF p, v
    <3>8. since <= last /\ last - since <= MaxLate /\ MaxLate \in Nat
      BY <2>2, <3>3, <3>4, <3>6, ConstantsTyped
    <3>9. Expired(v, p, since) <=> v <= last
      BY <2>2, <3>3, <3>7, <3>8, Judged
    <3>10. ExpiresAt(t) = v
      BY <2>2, <3>1, <3>3, <3>5 DEF ExpiresAt
    <3> QED
      BY <2>2, <3>5, <3>7, <3>9, <3>10
  <2>7. prvProcessExpiredTimer \/ SwitchOne \/ Received
    BY <1>1 DEF Next, TimerTask, prvProcessTimerOrBlockTask, Switched, Sample, NoMoreCommands,
                Tick, SendStart, ReadTime, SendOther, Sends
  <2> QED
    BY <2>4, <2>5, <2>6, <2>7
<1>2. Short => (IInv /\ [Next]_vars => [InTime]_vars)
  BY <1>1
<1>3. Short => Short'
  BY DEF Short, Fits
<1>4. Short /\ Spec => [][InTime]_vars
  BY <1>2, <1>3, Invariance, PTL DEF Spec
<1> QED
  BY <1>4 DEF NeverEarly
=============================================================================

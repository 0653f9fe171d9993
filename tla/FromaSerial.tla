----------------------------- MODULE FromaSerial -----------------------------
(***************************************************************************)
(* The serial port of kernel/uart/omap4_uart.c and the tasks of the        *)
(* application that write to it: the shell with its line editor and its    *)
(* commands (kernel/app/shell.c), and the prime-number tasks               *)
(* (kernel/app/apps.c) that its commands set going.                        *)
(*                                                                         *)
(* vSerialPutString takes uartLock; xSerialPutChar and xSerialGetChar take *)
(* uartMiniLock; both write to the same register, once they have read that *)
(* it is empty.  A step is one access to a lock or to a register, or a     *)
(* call of the scheduler.                                                  *)
(*                                                                         *)
(* The UART itself is modelled from how the driver uses it: a register for *)
(* the character to send, one for the character received.  Of vTaskSuspend *)
(* and vTaskResume there is what they promise, which of a core's tasks     *)
(* goes on; how they keep it is FromaSched's matter.  No key is a space: a *)
(* line is one word.                                                       *)
(***************************************************************************)
EXTENDS Integers, FiniteSets, SequencesExt

CONSTANTS
  Letters,          (* the keys that are neither of the next two            *)
  Backspace, Enter, (* KEY_BACKSPACE, KEY_ENTER                             *)
  Space,            (* what wipes out a letter on the screen                *)
  Nothing,          (* an empty register                                    *)
  gsCommandTable,   (* the lines that are the name of a command             *)
  BufferSize,       (* COMMAND_BUFFER_SIZE                                  *)
  MaxKeys           (* model bound on the keys pressed                      *)

Cores == {0, 1}
Locks == {"uartLock", "uartMiniLock"}
Free == 2
Keys == Letters \cup {Backspace, Enter}
Echoes == Letters \cup {Backspace, Space}
Commands == {"help", "version", "clear", "state", "prime", "primeSMP"}

(* A vPrimeTaskSMP is named for the core that it runs on.                   *)
Tasks == {"shell", "idle1", "prime", "smp0", "smp1"}

(* A key is neither the letter of a string nor a place in the shell.        *)
ASSUME SerialAssumption ==
  /\ Backspace \notin Letters /\ Enter \notin Letters \cup {Backspace}
  /\ Space \notin Keys /\ Nothing \notin Keys \cup {Space}
  /\ Keys \cap {"idle", "poll", "write", "get"} = {}
  /\ (Keys \cup {Space, Nothing}) \cap (Tasks \X Nat) = {}
  /\ IsFiniteSet(DOMAIN gsCommandTable)
  /\ gsCommandTable \in [DOMAIN gsCommandTable -> Commands]
  /\ DOMAIN gsCommandTable \subseteq Seq(Letters) \ {<<>>}
  /\ BufferSize \in Nat \ {0} /\ MaxKeys \in Nat

VARIABLES
  lock,      (* the core that holds each lock, or Free                      *)
  pc,        (* where each core is in the call it makes                     *)
  out,       (* the calls that each task is to make: <<a lock, characters>> *)
             (* to write, or <<"suspend" or "resume", a task>>              *)
  suspended, (* the tasks that are suspended                                *)
  thr,       (* the character to send                                       *)
  rhr,       (* the character received                                      *)
  sent,      (* history: the string sent last, and those before it          *)
  screen,    (* history: what the terminal shows of the shell's echo since  *)
             (* the last Enter: its text, and the letters before the cursor *)
  lost,      (* history: the last <<character never sent, the one over it>>  *)
  buffer,    (* vcCommandBuffer up to xCommandBufferIndex                   *)
  keys,      (* the number of keys pressed                                  *)
  strings    (* the number of strings each task has begun to write          *)

uart == <<thr, rhr, sent, lost>>
shell == <<buffer, screen>>
serial == <<lock, pc, out, suspended, uart, shell, keys, strings>>

(* The task that each core runs: the most important one of those ready that *)
(* it can find.                                                             *)
Running(c) ==
  IF c = 1 THEN IF "idle1" \notin suspended THEN "idle1" ELSE "smp1"
  ELSE IF "shell" \notin suspended THEN "shell"
  ELSE IF "prime" \notin suspended THEN "prime" ELSE "smp0"
Calls(c) == out[Running(c)]
ThenCalls(c, calls) == out' = [out EXCEPT ![Running(c)] = calls]

Goto(c, l) == pc' = [pc EXCEPT ![c] = l]

-----------------------------------------------------------------------------
(* spinlock.h.  The core's interrupts are masked from __spin_lock to        *)
(* __spin_unlock: no other task of the core comes between.                  *)

(* Mutant: core 1 does not wait for the lock.                               *)
LockOwn(c, l) == (c = 0 => lock[l] = Free) /\ lock' = [lock EXCEPT ![l] = c]

Lock(c, l) == lock[l] = Free /\ lock' = [lock EXCEPT ![l] = c]
Unlock(c, l) == lock' = [lock EXCEPT ![l] = Free]

-----------------------------------------------------------------------------
(* vSerialPutString and xSerialPutChar, which differ in the lock.  A letter *)
(* of the k-th string of task t is <<t, k>>, and a string has two of them.  *)

Strings(n) == [i \in 1 .. n |-> <<"uartLock", <<"text", "text">> >>]
Char(ch) == <<"uartMiniLock", <<ch>> >>

PutLock(c) ==
  /\ pc[c] = "idle" /\ Calls(c) # <<>>
  /\ \E l \in Locks :
       /\ Head(Calls(c))[1] = l
       /\ Lock(c, l)
       /\ strings' = IF l = "uartLock" THEN [strings EXCEPT ![Running(c)] = @ + 1]
                                       ELSE strings
  /\ Goto(c, "poll")
  /\ UNCHANGED <<out, suspended, uart, shell, keys>>

(* Mutant: the character is written without a look at the register.         *)
PutPollNot(c) ==
  /\ pc[c] = "poll" /\ Head(Calls(c))[2] # <<>>
  /\ Goto(c, "write")
  /\ UNCHANGED <<lock, out, suspended, uart, shell, keys, strings>>

(* xUARTSendCharacter: while( ( UART_LSR & 0x20 ) == 0 ).                   *)
PutPoll(c) ==
  /\ pc[c] = "poll" /\ Head(Calls(c))[2] # <<>> /\ thr = Nothing
  /\ Goto(c, "write")
  /\ UNCHANGED <<lock, out, suspended, uart, shell, keys, strings>>

(* The terminal: a backspace takes the cursor back over a letter, and the   *)
(* next letter takes its place.                                             *)
Type(x) ==
  IF x = Backspace
  THEN [screen EXCEPT !.cursor = @ - 1]
  ELSE [cursor |-> screen.cursor + 1,
        text |-> IF screen.cursor = Len(screen.text) THEN Append(screen.text, x)
                 ELSE [screen.text EXCEPT ![screen.cursor + 1] = x]]

PutWrite(c) ==
  LET t == Running(c)
      call == Head(out[t])
  IN
  /\ pc[c] = "write"
  /\ thr' = IF call[1] = "uartLock" THEN <<t, strings[t]>> ELSE Head(call[2])
  /\ lost' = IF thr = Nothing THEN lost ELSE {<<thr, thr'>>}
  /\ ThenCalls(c, << <<call[1], Tail(call[2])>> >> \o Tail(out[t]))
  /\ Goto(c, "poll")
  /\ screen' = IF call[1] = "uartMiniLock" THEN Type(thr') ELSE screen
  /\ UNCHANGED <<lock, suspended, rhr, sent, buffer, keys, strings>>

PutUnlock(c) ==
  /\ pc[c] = "poll" /\ Head(Calls(c))[2] = <<>>
  /\ Unlock(c, Head(Calls(c))[1])
  /\ ThenCalls(c, Tail(Calls(c)))
  /\ Goto(c, "idle")
  /\ UNCHANGED <<suspended, uart, shell, keys, strings>>

-----------------------------------------------------------------------------
(* vTaskSuspend and vTaskResume.                                            *)

Suspend(c) ==
  /\ pc[c] = "idle" /\ Calls(c) # <<>> /\ Head(Calls(c))[1] = "suspend"
  /\ suspended' = suspended \cup {Head(Calls(c))[2]}
  /\ ThenCalls(c, Tail(Calls(c)))
  /\ UNCHANGED <<lock, pc, uart, shell, keys, strings>>

Resume(c) ==
  /\ pc[c] = "idle" /\ Calls(c) # <<>> /\ Head(Calls(c))[1] = "resume"
  /\ suspended' = suspended \ {Head(Calls(c))[2]}
  /\ ThenCalls(c, Tail(Calls(c)))
  /\ UNCHANGED <<lock, pc, uart, shell, keys, strings>>

-----------------------------------------------------------------------------
(* The commands, as the calls they make.                                    *)

vTaskState == Strings(4)
vHelp == Strings(1 + 3 * Cardinality(DOMAIN gsCommandTable))
vClear == Strings(1)
vVersion == Strings(4)
vPrime == << <<"suspend", "shell">> >>
vPrimeSMP == << <<"suspend", "prime">>, <<"suspend", "idle1">>,
                <<"suspend", "shell">>, <<"resume", "prime">> >>

(* A line that names no command is printed back.  The prompt follows.       *)
Executed(line) ==
  IF line \notin DOMAIN gsCommandTable THEN Strings(1)
  ELSE CASE gsCommandTable[line] = "help" -> vHelp
         [] gsCommandTable[line] = "version" -> vVersion
         [] gsCommandTable[line] = "clear" -> vClear
         [] gsCommandTable[line] = "state" -> vTaskState
         [] gsCommandTable[line] = "prime" -> vPrime
         [] gsCommandTable[line] = "primeSMP" -> vPrimeSMP
vExecuteCommand(line) == Executed(line) \o Strings(1)

(* A round of vPrimeTask or vPrimeTaskSMP: the primes are found, the time   *)
(* is printed and the state of the tasks, and the task that was suspended   *)
(* for this to run is resumed.                                              *)
Round(after) == Strings(1) \o vTaskState \o << <<"resume", after>> >>

vPrimeTask ==
  /\ Running(0) = "prime" /\ out["prime"] = <<>>
  /\ ThenCalls(0, Round("shell"))
  /\ UNCHANGED <<lock, pc, suspended, uart, shell, keys, strings>>

vPrimeTaskSMP(c) ==
  /\ Running(c) \in {"smp0", "smp1"} /\ Calls(c) = <<>>
  /\ ThenCalls(c, Round(IF c = 0 THEN "shell" ELSE "idle1"))
  /\ UNCHANGED <<lock, pc, suspended, uart, shell, keys, strings>>

-----------------------------------------------------------------------------
(* vShellTask.                                                              *)

(* xSerialGetChar: a register with no character in it gives pdFALSE.        *)
GetLock ==
  /\ Running(0) = "shell" /\ pc[0] = "idle" /\ out["shell"] = <<>>
  /\ Lock(0, "uartMiniLock")
  /\ Goto(0, "get")
  /\ UNCHANGED <<out, suspended, uart, shell, keys, strings>>
GetNothing ==
  /\ pc[0] = "get" /\ rhr = Nothing
  /\ Unlock(0, "uartMiniLock")
  /\ Goto(0, "idle")
  /\ UNCHANGED <<out, suspended, uart, shell, keys, strings>>
GetChar ==
  /\ pc[0] = "get" /\ rhr \in Keys
  /\ Unlock(0, "uartMiniLock")
  /\ Goto(0, rhr)
  /\ rhr' = Nothing
  /\ UNCHANGED <<out, suspended, thr, sent, lost, shell, keys, strings>>

EmptyLine == [cursor |-> 0, text |-> <<>>]

(* What is done with a key: the buffer becomes b, and the calls follow.     *)
Handles(b, calls) ==
  /\ buffer' = b
  /\ screen' = IF pc[0] = Enter THEN EmptyLine ELSE screen
  /\ out' = [out EXCEPT !["shell"] = calls]
  /\ Goto(0, "idle")
  /\ UNCHANGED <<lock, suspended, uart, keys, strings>>

(* Mutant: it forgets the cursor where the letter was.                      *)
OnBackspaceShort ==
  /\ pc[0] = Backspace
  /\ IF buffer = <<>> THEN Handles(buffer, <<>>)
     ELSE Handles(Front(buffer), <<Char(Backspace), Char(Space)>>)

OnBackspace ==
  /\ pc[0] = Backspace
  /\ IF buffer = <<>> THEN Handles(buffer, <<>>)
     ELSE Handles(Front(buffer), <<Char(Backspace), Char(Space), Char(Backspace)>>)

(* A new line, and the command.  Until it is done nobody sees the buffer.   *)
OnEnter ==
  /\ pc[0] = Enter
  /\ Handles(<<>>, IF buffer = <<>> THEN <<>>
                   ELSE Strings(1) \o vExecuteCommand(buffer))

HasRoom == Len(buffer) < BufferSize - 1
OnLetter ==
  /\ pc[0] \in Letters
  /\ IF HasRoom THEN Handles(Append(buffer, pc[0]), <<Char(pc[0])>>)
                ELSE Handles(buffer, Strings(1))

-----------------------------------------------------------------------------
(* The UART, and who sits at the other end; he does not type ahead.         *)

Transmit ==
  /\ thr # Nothing
  /\ sent' = IF thr \in Echoes \/ thr = sent.last THEN sent
             ELSE [last |-> thr, before |-> sent.before \cup {sent.last}]
  /\ thr' = Nothing
  /\ UNCHANGED <<lock, pc, out, suspended, rhr, lost, shell, keys, strings>>

Press(k) ==
  /\ rhr = Nothing /\ keys < MaxKeys
  /\ rhr' = k /\ keys' = keys + 1
  /\ UNCHANGED <<lock, pc, out, suspended, thr, sent, lost, shell, strings>>

-----------------------------------------------------------------------------

(* vShellTask begins with the state of the tasks and the prompt.            *)
SerialInit ==
  /\ lock = [l \in Locks |-> Free]
  /\ pc = [c \in Cores |-> "idle"]
  /\ out = [t \in Tasks |-> IF t = "shell" THEN vTaskState \o Strings(1) ELSE <<>>]
  /\ suspended = {}
  /\ thr = Nothing /\ rhr = Nothing /\ screen = EmptyLine /\ lost = {}
  /\ sent = [last |-> Nothing, before |-> {}]
  /\ buffer = <<>> /\ keys = 0
  /\ strings = [t \in Tasks |-> 0]

Put(c) == PutLock(c) \/ PutPoll(c) \/ PutWrite(c) \/ PutUnlock(c)
Shell == GetLock \/ GetNothing \/ GetChar \/ OnBackspace \/ OnEnter \/ OnLetter

SerialNext ==
  \/ \E c \in Cores : Put(c) \/ Suspend(c) \/ Resume(c) \/ vPrimeTaskSMP(c)
  \/ vPrimeTask \/ Shell
  \/ Transmit \/ \E k \in Keys : Press(k)

SerialSpec == SerialInit /\ [][SerialNext]_serial

-----------------------------------------------------------------------------
(* Properties.                                                              *)

(* The strings of the two cores come out one after the other, never mixed:  *)
(* no letter of a string is sent after another string has begun.            *)
NeverMixed == sent.last \notin sent.before

(* A character is written over only where the two locks do not exclude one  *)
(* another: the letter of a string by an echo, or an echo by such a letter. *)
LostAcrossLocks ==
  \A p \in lost : p[1] \in Echoes <=> p[2] \notin Echoes

(* The line that the user sees is the command that Enter will execute, when *)
(* no character is lost: of what the shell has echoed since the last Enter, *)
(* the buffer is before the cursor, and nothing behind it.  (What it prints *)
(* is not echo: the message that the buffer is full takes the cursor to     *)
(* another line, where the user goes on.)                                   *)
Shows(b) ==
  /\ screen.cursor = Len(b) /\ Len(b) <= Len(screen.text)
  /\ \A i \in 1 .. Len(screen.text) :
       screen.text[i] = IF i <= Len(b) THEN b[i] ELSE Space
ShowsBuffer == pc[0] = "idle" /\ out["shell"] = <<>> => Shows(buffer)
=============================================================================

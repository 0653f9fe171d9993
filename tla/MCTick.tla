------------------------------- MODULE MCTick -------------------------------
(***************************************************************************)
(* FromaTick with two tasks and a tick count of two bits.  One task sleeps *)
(* and waits, the other keeps a period and is there to resume the          *)
(* scheduler, which alone wakes the first.                                 *)
(***************************************************************************)
EXTENDS FromaTick, TLC

CONSTANTS slow, fast

TickTasks == {slow, fast}
TickCalls ==
  {<<slow, "delay", 1>>, <<slow, "wait", 2>>,
   <<fast, "until", 2>>, <<fast, "hold", 1>>}
=============================================================================

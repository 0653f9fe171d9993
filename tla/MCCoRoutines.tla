---------------------------- MODULE MCCoRoutines ----------------------------
(***************************************************************************)
(* A consumer, and a producer and another consumer below it, which are     *)
(* equals.                                                                 *)
(***************************************************************************)
EXTENDS FromaCoRoutines

CONSTANTS high, low, other

Three == {high, low, other}
AskedFor == (high :> 7) @@ (low :> 0) @@ (other :> 0)
SomeCalls ==
  {<<high, "receive", 2>>, <<high, "send", 3>>, <<high, "delay", 3>>,
   <<low, "send", 1>>, <<low, "delay", 0>>,
   <<other, "receive", 3>>, <<other, "send", 2>>, <<other, "delay", 2>>}
=============================================================================

------------------------------ MODULE MCTimers ------------------------------
(***************************************************************************)
(* A timer that fires once and one that reloads, both of a period a little *)
(* less than half a cycle of the count, so that starts expire on either    *)
(* side of the wrap.                                                       *)
(***************************************************************************)
EXTENDS FromaTimers, TLC

CONSTANTS once, often

TwoTimers == {once, often}
Periods == once :> 2 @@ often :> 2
SomeCommands == {<<once, "period", 1>>, <<often, "stop", 1>>, <<often, "delete", 1>>}
=============================================================================

------------------------------- MODULE MCBoot -------------------------------
(***************************************************************************)
(* The start of FROMA as main.c has it: the tasks, in the order and with   *)
(* the priorities they are created with.                                   *)
(***************************************************************************)
EXTENDS FromaBoot, TLC

CONSTANTS primeM0, primeU0, shell, primeM1, idle1

Main == <<primeM0, primeU0, shell>>
Secondary == <<primeM1, idle1>>
Priorities == primeM0 :> 1 @@ primeU0 :> 3 @@ shell :> 5
              @@ primeM1 :> 2 @@ idle1 :> 4 @@ idle0 :> 0
=============================================================================

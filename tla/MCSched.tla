------------------------------ MODULE MCSched ------------------------------
(***************************************************************************)
(* Instances of FromaSched.  The tasks are those of the application, less  *)
(* the ones that add no case: the shell and a prime-number task that       *)
(* resumes it, created by core 0, and the two idle tasks.  Only the order  *)
(* of their priorities matters, so they are numbered without gaps.         *)
(***************************************************************************)
EXTENDS FromaSched, TLC

CONSTANTS shell, prime, idle1, idle0

(* Two levels: the scan crosses one boundary, and the lower level holds two *)
(* tasks, one for each core.                                                *)
Priority2 == shell :> 1 @@ prime :> 0 @@ idle1 :> 0
CreatedBy2 == shell :> 0 @@ prime :> 0 @@ idle1 :> 1

(* Three levels: a task of core 1 between the shell and the rest.           *)
Priority3 == shell :> 2 @@ idle1 :> 1 @@ prime :> 0 @@ idle0 :> 0
CreatedBy3 == shell :> 0 @@ idle1 :> 1 @@ prime :> 0 @@ idle0 :> 1

(* Four levels, as the application has them with primeSMP.                  *)
Priority4 == shell :> 3 @@ idle1 :> 2 @@ prime :> 1 @@ idle0 :> 0
CreatedBy4 == shell :> 0 @@ idle1 :> 1 @@ prime :> 1 @@ idle0 :> 0

NoCalls == {}

(* Calls of both cores against both cores: NULL handles, a task suspended   *)
(* while it runs elsewhere, resumes that meet it half way.                  *)
RaceSuspend == {<<shell, NoTask, 0>>, <<shell, idle1, 1>>}
RaceResume == {<<prime, shell, 0>>, <<prime, idle1, 1>>}

(* The prime command: the shell suspends itself; who resumes it, and when,   *)
(* is up to the module that uses these calls.                               *)
ShellSuspends == {<<shell, shell, 0>>}

(* Every call comes from core 0, on tasks of core 0.                        *)
Core0Suspend == {<<shell, shell, 0>>, <<shell, NoTask, 0>>, <<shell, prime, 0>>,
                 <<prime, prime, 0>>}
Core0Resume == {<<prime, shell, 0>>, <<idle0, shell, 0>>, <<idle0, prime, 0>>,
                <<shell, prime, 0>>}
PriorityOne == shell :> 3 @@ idle1 :> 2 @@ prime :> 1 @@ idle0 :> 0
CreatedByOne == shell :> 0 @@ idle1 :> 1 @@ prime :> 0 @@ idle0 :> 0

(* Each core suspends and resumes its own task only.                        *)
OwnSuspend == {<<shell, shell, 0>>, <<idle1, idle1, 1>>}
OwnResume == {<<prime, shell, 0>>, <<idle0, idle1, 1>>}

(* The primeSMP command: shell.c:126-129, apps.c:50-54.                     *)
AppSuspend == {<<shell, idle1, 1>>, <<shell, shell, 0>>}
AppResume == {<<prime, shell, 0>>, <<prime, idle1, 1>>}

(* A task that suspends itself on core 1 while core 0 holds the scheduler.  *)
Idle1Suspends == {<<idle1, idle1, 1>>}
=============================================================================

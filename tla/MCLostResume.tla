---------------------------- MODULE MCLostResume ----------------------------
(***************************************************************************)
(* One call of each kind: the shell suspends itself on core 0, and the     *)
(* task of core 1 resumes it after it entered xSuspendedTaskList.  The cfg *)
(* gives FromaSched no vTaskResume() calls of its own.                     *)
(***************************************************************************)
EXTENDS MCSched

VARIABLE made     (* the calls made so far *)

OnceInit == Init /\ made = {}

ResumeOnce ==
  /\ "resume" \notin made
  /\ shell \in suspended
  /\ \E c \in Cores : ResumeCheck(c, idle1, shell, 0)
  /\ made' = made \cup {"resume"}

OtherStep ==
  /\ Next
  /\ IF pc[shell] = "run" /\ pc'[shell] # "run"
     THEN "suspend" \notin made /\ made' = made \cup {"suspend"}
     ELSE UNCHANGED made

OnceNext == ResumeOnce \/ OtherStep
OnceSpec == OnceInit /\ [][OnceNext]_<<vars, made>>

(* A single vTaskResume() call that has returned made the task available    *)
(* for running again.                                                       *)
ResumeTakes == "resume" \in made /\ pc[idle1] = "run" => shell \notin suspended
=============================================================================

------------------------------ MODULE MCSerial ------------------------------
(***************************************************************************)
(* The user of the shell types a few keys: letters, wiped out, an Enter,   *)
(* or letters until the buffer is full.  Every command is a line of one or *)
(* two letters, so that it can be given and have something typed after it. *)
(***************************************************************************)
EXTENDS FromaSerial, TLC

CONSTANTS a, b
TwoLetters == {a, b}
CommandTable ==
  <<a>> :> "primeSMP" @@ <<b>> :> "prime" @@ <<a, a>> :> "help" @@
  <<a, b>> :> "version" @@ <<b, a>> :> "clear" @@ <<b, b>> :> "state"
=============================================================================

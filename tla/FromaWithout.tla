----------------------------- MODULE FromaWithout -----------------------------
(***************************************************************************)
(* A list of source/list.c that several of its items leave at once.        *)
(* Written as a recursive function, which the proofs can reason about.     *)
(***************************************************************************)
EXTENDS Integers, SequencesExt

(* The list s after a vListRemove of each of its items in T: the others     *)
(* stay, in their order.                                                    *)
Without(s, T) ==
  LET keep[n \in 0 .. Len(s)] ==
        IF n = 0 THEN <<>>
        ELSE IF s[n] \in T THEN keep[n - 1] ELSE Append(keep[n - 1], s[n])
  IN  keep[Len(s)]
=============================================================================

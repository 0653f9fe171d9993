--------------------------- MODULE FromaQueueSpec ---------------------------
(***************************************************************************)
(* What a queue promises, whoever uses it and however calls and interrupts *)
(* interleave: a bounded sequence of messages, each delivered once, in the *)
(* order in which they were sent, those sent to the front before the rest. *)
(* FromaQueue implements it.                                               *)
(***************************************************************************)
EXTENDS Integers, Sequences

CONSTANTS
  Fifos,     (* the queues                                                  *)
  Items,     (* the messages                                                *)
  Capacity   (* the number of messages each queue holds                     *)

VARIABLES
  messages,  (* the messages in each queue, the next to be received first   *)
  got        (* the message received or peeked at last                      *)

Room(q) == Len(messages[q]) < Capacity[q]

ToBack(q, x) == /\ Room(q)
                /\ messages' = [messages EXCEPT ![q] = Append(@, x)]
                /\ UNCHANGED got

ToFront(q, x) == /\ Room(q)
                 /\ messages' = [messages EXCEPT ![q] = <<x>> \o @]
                 /\ UNCHANGED got

Receive(q) == /\ messages[q] # <<>>
              /\ got' = Head(messages[q])
              /\ messages' = [messages EXCEPT ![q] = Tail(@)]

Peek(q) == /\ messages[q] # <<>>
           /\ got' = Head(messages[q])
           /\ UNCHANGED messages

Init == messages = [q \in Fifos |-> <<>>] /\ got \in Items

Next == \E q \in Fifos : \/ \E x \in Items : ToBack(q, x) \/ ToFront(q, x)
                         \/ Receive(q)
                         \/ Peek(q)

Spec == Init /\ [][Next]_<<messages, got>>
=============================================================================

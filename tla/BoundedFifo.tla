----------------------------- MODULE BoundedFifo -----------------------------
(***************************************************************************)
(* What a NABD queue promises to one producer and one consumer: a bounded  *)
(* first-in first-out queue.  The producer offers one message at a time,   *)
(* the offer is either accepted at the back of the queue or turned down,   *)
(* and the consumer takes the message at the front.                        *)
(*                                                                         *)
(* An offer may be turned down although there is room: the producer's      *)
(* knowledge of the consumer's progress may be out of date, and a crash of *)
(* the producer before the message is published drops the offer.  What is  *)
(* accepted is never lost, duplicated, altered or reordered.               *)
(***************************************************************************)
EXTENDS Naturals, Sequences

CONSTANTS Message,   \* the messages that can be sent
          Capacity,  \* how many accepted messages the queue can hold
          None       \* "no message"; not a message

VARIABLES queue,     \* messages accepted and not yet taken, oldest first
          offered,   \* the message the producer is trying to send, or None
          taken      \* the message the consumer took last, or None

vars == <<queue, offered, taken>>

Init ==
  /\ queue = <<>>
  /\ offered = None
  /\ taken = None

Offer ==
  /\ offered = None
  /\ offered' \in Message
  /\ UNCHANGED <<queue, taken>>

Accept ==
  /\ offered # None
  /\ Len(queue) < Capacity
  /\ queue' = Append(queue, offered)
  /\ offered' = None
  /\ UNCHANGED taken

TurnDown ==
  /\ offered # None
  /\ offered' = None
  /\ UNCHANGED <<queue, taken>>

Take ==
  /\ queue # <<>>
  /\ taken' = Head(queue)
  /\ queue' = Tail(queue)
  /\ UNCHANGED offered

Next == Offer \/ Accept \/ TurnDown \/ Take

Spec == Init /\ [][Next]_vars
=============================================================================

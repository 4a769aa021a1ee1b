------------------------------ MODULE GroupLog ------------------------------
(***************************************************************************)
(* What consumer groups promise (src/include/nabd/nabd.h:215): every group *)
(* has a read position of its own and reads every message from where it    *)
(* started, in order, and a message stays until all groups have read it.   *)
(* Messages are numbered in the order of their publication.                *)
(***************************************************************************)
EXTENDS Integers

CONSTANTS Groups, Capacity, None

VARIABLES end,     \* number of messages published
          cursor,  \* next message of each group, None if there is no such group
          read     \* the message each group read last, None before the first

logvars == <<end, cursor, read>>

LogInit ==
  /\ end = 0
  /\ cursor = [g \in Groups |-> None]
  /\ read = [g \in Groups |-> None]

Append ==
  /\ \A g \in Groups : cursor[g] # None => end - cursor[g] < Capacity
  /\ end' = end + 1
  /\ UNCHANGED <<cursor, read>>

\* A group starts at a position that is still retained.
Start(g) ==
  /\ cursor[g] = None
  /\ \E p \in 0 .. end :
       /\ end - p <= Capacity
       /\ cursor' = [cursor EXCEPT ![g] = p]
  /\ UNCHANGED <<end, read>>

Stop(g) ==
  /\ cursor' = [cursor EXCEPT ![g] = None]
  /\ read' = [read EXCEPT ![g] = None]
  /\ UNCHANGED end

Read(g) ==
  /\ cursor[g] # None
  /\ cursor[g] < end
  /\ read' = [read EXCEPT ![g] = cursor[g]]
  /\ cursor' = [cursor EXCEPT ![g] = @ + 1]
  /\ UNCHANGED end

LogNext == Append \/ \E g \in Groups : Start(g) \/ Stop(g) \/ Read(g)

LogSpec == LogInit /\ [][LogNext]_logvars
=============================================================================

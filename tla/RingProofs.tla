----------------------------- MODULE RingProofs -----------------------------
(***************************************************************************)
(* Proofs about Ring, for every capacity, counter width, payload size and  *)
(* set of messages that the assumptions of Ring allow: its invariants, and *)
(* that it implements BoundedFifo.                                         *)
(***************************************************************************)
EXTENDS Ring, TLAPS

(* Arithmetic of positions *)

\* Counters and their distances stay in the range of the counter type.
LEMMA PosFacts ==
  ASSUME NEW a \in Pos, NEW b \in Pos
  PROVE  /\ Dist(a, b) \in 0 .. IndexMod - 1
         /\ Inc(a) \in Pos
         /\ Dist(a, b) = 0 <=> a = b
BY CapacityAssumption, IndexAssumption DEF Pos, Dist, Inc

\* get_slot maps a position into the slot array.
LEMMA SlotType == \A p \in Pos : get_slot(p) \in Slot
BY CapacityAssumption, IndexAssumption DEF Pos, Slot, get_slot

\* Division with remainder by the capacity.
LEMMA DivMod ==
  \A a \in Nat : /\ a = Capacity * (a \div Capacity) + (a % Capacity)
                 /\ a % Capacity \in 0 .. Capacity - 1
                 /\ a \div Capacity \in Nat
BY CapacityAssumption

\* A multiple of the capacity that is positive is at least the capacity.
LEMMA MultipleOfCapacity ==
  ASSUME NEW k \in Int, Capacity * k > 0
  PROVE  Capacity * k >= Capacity
<1>1. k >= 1
  BY CapacityAssumption
<1> QED
  BY <1>1, CapacityAssumption

\* Two positions fewer than Capacity apart use different slots (the mask in
\* get_slot), also when the counter wraps between them: IndexMod is a multiple
\* of Capacity.
LEMMA SlotDistinct ==
  ASSUME NEW p \in Pos, NEW q \in Pos, Dist(q, p) > 0, Dist(q, p) < Capacity
  PROVE  get_slot(p) # get_slot(q)
<1> DEFINE x == q \div Capacity
           y == p \div Capacity
           k == IndexMod \div Capacity
<1>1. SUFFICES ASSUME p % Capacity = q % Capacity
               PROVE  FALSE
  BY Zenon DEF get_slot
<1>2. p \in Nat /\ q \in Nat /\ IndexMod \in Nat /\ Capacity \in Nat
  BY CapacityAssumption, IndexAssumption DEF Pos
<1>3. /\ x \in Nat /\ q = Capacity * x + (q % Capacity) /\ q % Capacity \in Nat
      /\ y \in Nat /\ p = Capacity * y + (p % Capacity)
      /\ k \in Nat /\ IndexMod = Capacity * k + (IndexMod % Capacity)
  BY <1>2, DivMod
<1>4. /\ q - p = Capacity * x - Capacity * y
      /\ IndexMod = Capacity * k
  BY <1>1, <1>2, <1>3, IndexAssumption
<1> HIDE DEF x, y, k
<1>5. CASE p <= q
  <2>1. q - p = Capacity * (x - y) /\ x - y \in Int
    BY <1>2, <1>3, <1>4
  <2>2. q - p > 0 /\ q - p < Capacity
    BY <1>2, <1>5, Zenon DEF Dist
  <2> QED
    BY <1>2, <2>1, <2>2, MultipleOfCapacity
<1>6. CASE q < p
  <2>1. q - p + IndexMod = Capacity * (x - y + k) /\ x - y + k \in Int
    BY <1>2, <1>3, <1>4
  <2>2. q - p + IndexMod > 0 /\ q - p + IndexMod < Capacity
    BY <1>2, <1>6 DEF Dist
  <2> QED
    BY <1>2, <2>1, <2>2, MultipleOfCapacity
<1> QED
  BY <1>2, <1>5, <1>6

\* The producer's writes go elsewhere: the slot at head, once the producer may
\* reuse it, is the slot of no published message.
LEMMA WritesElsewhere ==
  ASSUME TypeOK, CursorChain, Reusable(head), NEW i \in 1 .. Dist(head, tail)
  PROVE  /\ Plus(tail, i - 1) \in Pos
         /\ get_slot(Plus(tail, i - 1)) # get_slot(head)
<1> DEFINE p == Plus(tail, i - 1)
<1>1. /\ head \in Pos /\ p \in Pos
      /\ Dist(head, p) > 0 /\ Dist(head, p) < Capacity
  BY CapacityAssumption, IndexAssumption
     DEF TypeOK, CursorChain, Reusable, Pos, Dist, Plus
<1> HIDE DEF p
<1>2. get_slot(p) # get_slot(head)
  BY <1>1, SlotDistinct, Zenon
<1> QED
  BY <1>1, <1>2, Zenon DEF p

\* In particular it is not the slot the consumer is reading.
LEMMA WriteMissesRead ==
  ASSUME TypeOK, CursorChain, Reusable(head), Visible(tail)
  PROVE  get_slot(tail) # get_slot(head)
<1>1. 1 \in 1 .. Dist(head, tail) /\ Plus(tail, 0) = tail
  BY CapacityAssumption, IndexAssumption
     DEF TypeOK, CursorChain, Visible, Pos, Dist, Plus
<1>2. get_slot(Plus(tail, 1 - 1)) # get_slot(head)
  BY <1>1, WritesElsewhere, Zenon
<1> QED
  BY <1>1, <1>2

\* Lengths written to a slot header fit its length field.
LEMMA LenType == \A len \in Lens : len % LenMod \in 0 .. LenMod - 1
BY LenAssumption DEF Lens
-----------------------------------------------------------------------------
\* IInv holds of the queue that nabd_open leaves.
LEMMA InitInv == Init => IInv
<1> SUFFICES ASSUME Init PROVE IInv
  BY Zenon
<1> USE CapacityAssumption, IndexAssumption, LenAssumption, NoneAssumption
<1>0. 0 \in Pos /\ 0 \in Lens /\ 0 \in 0 .. LenMod - 1 /\ Dist(0, 0) = 0
  BY DEF Pos, Lens, Dist
<1>1. TypeOK
  <2>1. NoBytes = [data |-> None, len |-> 0]
    BY Zenon DEF NoBytes, Bytes
  <2> QED
    BY <1>0, <2>1, Zenon DEF Init, TypeOK
<1>2. CursorChain
  BY <1>0 DEF Init, CursorChain
<1>3. NoDataRace
  BY Zenon DEF Init, NoDataRace
<1>4. CallInv
  BY Zenon DEF Init, CallInv
<1>5. SlotInv
  BY Zenon DEF Init, SlotInv, Offered, NoBytes, Bytes
<1> QED
  BY <1>1, <1>2, <1>3, <1>4, <1>5, Zenon DEF IInv

\* Every step of push, pop, the zero-copy calls and the restarts keeps IInv.
LEMMA NextInv == IInv /\ [Next]_vars => IInv'
<1> SUFFICES ASSUME IInv, [Next]_vars PROVE IInv'
  BY Zenon
<1> USE CapacityAssumption, IndexAssumption, LenAssumption, NoneAssumption
<1> USE DEF shared, producer, consumer
<1>1. CASE ~reserved /\ \E m \in Message : nabd_push(m)
  <2>1. TypeOK'
    BY <1>1, PosFacts, SlotType, LenType
       DEF IInv, TypeOK, NoBytes, Bytes, Message, Lens, nabd_push, ProducerReturns
  <2>2. CursorChain' /\ NoDataRace' /\ CallInv'
    BY <1>1 DEF IInv, TypeOK, CursorChain, NoDataRace, CallInv, Reusable, Visible,
                Pos, Dist, Inc, nabd_push, ProducerReturns
  <2>3. SlotInv'
    BY <1>1, SlotType
       DEF IInv, TypeOK, NoDataRace, CallInv, SlotInv, MessageAt, Bytes, NoBytes,
           Message, Lens, Offered, nabd_push, ProducerReturns
  <2> QED
    BY <2>1, <2>2, <2>3, Zenon DEF IInv
<1>2. CASE \E len \in Lens : nabd_reserve(len)
  <2>1. TypeOK'
    BY <1>2, PosFacts, SlotType, LenType
       DEF IInv, TypeOK, NoBytes, Bytes, Message, Lens, nabd_reserve, ProducerReturns
  <2>2. CursorChain' /\ NoDataRace' /\ CallInv'
    BY <1>2, SMTT(30) DEF IInv, TypeOK, CursorChain, NoDataRace, CallInv, Reusable, Visible,
                Pos, Dist, Inc, nabd_reserve, ProducerReturns
  <2>3. SlotInv'
    BY <1>2, SlotType
       DEF IInv, TypeOK, NoDataRace, CallInv, SlotInv, MessageAt, Bytes, NoBytes,
           Message, Lens, Offered, nabd_reserve, ProducerReturns
  <2> QED
    BY <2>1, <2>2, <2>3 DEF IInv
<1>3. CASE \E d \in Data : write_reserved(d)
  <2>1. TypeOK'
    BY <1>3, PosFacts, SlotType, LenType
       DEF IInv, TypeOK, NoBytes, Bytes, Message, Lens, write_reserved
  <2>2. CursorChain' /\ NoDataRace' /\ CallInv'
    BY <1>3 DEF IInv, TypeOK, CursorChain, NoDataRace, CallInv, Reusable, Visible,
                Pos, Dist, Inc, write_reserved
  <2>3. SlotInv'
    BY <1>3, SlotType, WriteMissesRead
       DEF IInv, TypeOK, NoDataRace, CallInv, SlotInv, MessageAt, Bytes, NoBytes,
           Message, Lens, Offered, write_reserved
  <2> QED
    BY <2>1, <2>2, <2>3 DEF IInv
<1>4. CASE \E len \in Lens :
             /\ reserved => len <= MaxPayload /\ (len > 0 => pmsg.data # None)
             /\ nabd_commit(len)
  <2>1. TypeOK'
    BY <1>4, PosFacts, SlotType, LenType, SMTT(30)
       DEF IInv, TypeOK, NoBytes, Bytes, Message, Lens, nabd_commit, ProducerReturns
  <2>2. CursorChain' /\ NoDataRace' /\ CallInv'
    BY <1>4, SMTT(30) DEF IInv, TypeOK, CursorChain, NoDataRace, CallInv, Reusable, Visible,
                Pos, Dist, Inc, nabd_commit, ProducerReturns
  <2>3. SlotInv'
    BY <1>4, SlotType, WriteMissesRead
       DEF IInv, TypeOK, NoDataRace, CallInv, SlotInv, MessageAt, Bytes, NoBytes,
           Message, Lens, Offered, nabd_commit, ProducerReturns
  <2> QED
    BY <2>1, <2>2, <2>3 DEF IInv
<1>5. CASE push_load_tail
  <2>1. TypeOK'
    BY <1>5, PosFacts, SlotType, LenType, SMTT(30)
       DEF IInv, TypeOK, NoBytes, Bytes, Message, Lens, push_load_tail,
           NABD_LOAD_ACQUIRE_tail, IsFull, Between, ProducerReturns
  <2>2. CursorChain' /\ NoDataRace' /\ CallInv'
    BY <1>5, SMTT(30) DEF IInv, TypeOK, CursorChain, NoDataRace, CallInv, Reusable, Visible,
                Pos, Dist, Inc, push_load_tail, NABD_LOAD_ACQUIRE_tail,
                         IsFull, Between, ProducerReturns
  <2>3. SlotInv'
    BY <1>5, SlotType
       DEF IInv, TypeOK, NoDataRace, CallInv, SlotInv, MessageAt, Bytes, NoBytes,
           Message, Lens, Offered, push_load_tail, NABD_LOAD_ACQUIRE_tail,
                         IsFull, Between, ProducerReturns
  <2> QED
    BY <2>1, <2>2, <2>3 DEF IInv
<1>6. CASE push_copy
  <2>1. TypeOK'
    BY <1>6, PosFacts, SlotType, LenType, SMTT(30)
       DEF IInv, TypeOK, NoBytes, Bytes, Message, Lens, push_copy, ProducerGoes
  <2>2. CursorChain' /\ NoDataRace' /\ CallInv'
    BY <1>6, SMTT(30) DEF IInv, TypeOK, CursorChain, NoDataRace, CallInv, Reusable, Visible,
                Pos, Dist, Inc, push_copy, ProducerGoes
  <2>3. SlotInv'
    BY <1>6, SlotType, WriteMissesRead
       DEF IInv, TypeOK, NoDataRace, CallInv, SlotInv, MessageAt, Bytes, NoBytes,
           Message, Lens, Offered, push_copy, ProducerGoes
  <2> QED
    BY <2>1, <2>2, <2>3 DEF IInv
<1>7. CASE push_header
  <2>1. TypeOK'
    BY <1>7, PosFacts, SlotType, LenType, SMTT(30)
       DEF IInv, TypeOK, NoBytes, Bytes, Message, Lens, push_header, ProducerGoes
  <2>2. CursorChain' /\ NoDataRace' /\ CallInv'
    BY <1>7, SMTT(30) DEF IInv, TypeOK, CursorChain, NoDataRace, CallInv, Reusable, Visible,
                Pos, Dist, Inc, push_header, ProducerGoes
  <2>3. SlotInv'
    BY <1>7, SlotType, WriteMissesRead
       DEF IInv, TypeOK, NoDataRace, CallInv, SlotInv, MessageAt, Bytes, NoBytes,
           Message, Lens, Offered, push_header, ProducerGoes
  <2> QED
    BY <2>1, <2>2, <2>3 DEF IInv
<1>8. CASE push_publish
  <2>1. TypeOK'
    BY <1>8, PosFacts, SlotType, LenType, SMTT(30)
       DEF IInv, TypeOK, NoBytes, Bytes, Message, Lens, push_publish, ProducerReturns
  <2>2. CursorChain' /\ NoDataRace' /\ CallInv'
    BY <1>8 DEF IInv, TypeOK, CursorChain, NoDataRace, CallInv, Reusable, Visible,
                Pos, Dist, Inc, push_publish, ProducerReturns
  <2>3. SlotInv'
    BY <1>8, SlotType, Zenon
       DEF IInv, TypeOK, NoDataRace, CallInv, SlotInv, MessageAt, Bytes, NoBytes,
           Message, Lens, Offered, push_publish, ProducerReturns
  <2> QED
    BY <2>1, <2>2, <2>3 DEF IInv
<1>9. CASE reserve_load_tail
  <2>1. TypeOK'
    <3>1. reserved' \in BOOLEAN
      BY <1>9, Zenon DEF IInv, TypeOK, reserve_load_tail, NABD_LOAD_ACQUIRE_tail,
                         IsFull, Between, ProducerReturns
    <3> QED
      BY <1>9, <3>1, PosFacts DEF IInv, TypeOK, NoBytes, Bytes, Lens, reserve_load_tail,
         NABD_LOAD_ACQUIRE_tail, IsFull, Between, ProducerReturns
  <2>2. CursorChain' /\ NoDataRace' /\ CallInv'
    BY <1>9 DEF IInv, TypeOK, CursorChain, NoDataRace, CallInv, Reusable, Visible,
                Pos, Dist, Inc, reserve_load_tail, NABD_LOAD_ACQUIRE_tail,
                         IsFull, Between, ProducerReturns
  <2>3. SlotInv'
    BY <1>9, SlotType
       DEF IInv, TypeOK, NoDataRace, CallInv, SlotInv, MessageAt, Bytes, NoBytes,
           Message, Lens, Offered, reserve_load_tail, NABD_LOAD_ACQUIRE_tail,
                         IsFull, Between, ProducerReturns
  <2> QED
    BY <2>1, <2>2, <2>3 DEF IInv
<1>10. CASE commit_publish
  <2>1. TypeOK'
    <3>1. reserved' \in BOOLEAN
      BY <1>10, Zenon DEF IInv, TypeOK, commit_publish, ProducerReturns
    <3> QED
      BY <1>10, <3>1, PosFacts, SMTT(30)
         DEF IInv, TypeOK, NoBytes, Bytes, Lens, commit_publish, ProducerReturns
  <2>2. CursorChain' /\ NoDataRace' /\ CallInv'
    BY <1>10 DEF IInv, TypeOK, CursorChain, NoDataRace, CallInv, Reusable, Visible,
                Pos, Dist, Inc, commit_publish, ProducerReturns
  <2>3. SlotInv'
    BY <1>10, SlotType, Zenon
       DEF IInv, TypeOK, NoDataRace, CallInv, SlotInv, MessageAt, Bytes, NoBytes,
           Message, Lens, Offered, commit_publish, ProducerReturns
  <2> QED
    BY <2>1, <2>2, <2>3 DEF IInv
<1>11. CASE producer_restart
  <2>1. TypeOK'
    <3>1. reserved' \in BOOLEAN
      BY <1>11, Zenon DEF IInv, TypeOK, producer_restart
    <3>2. pmsg' \in [data : Data \cup {None}, len : Lens]
      BY <1>11, LenAssumption DEF NoBytes, Bytes, Lens, producer_restart
    <3>3. reserve_pos' \in Pos
      BY <1>11, CapacityAssumption, IndexAssumption DEF Pos, producer_restart
    <3> QED
      BY <1>11, <3>1, <3>2, <3>3 DEF IInv, TypeOK, producer_restart
  <2>2. CursorChain' /\ NoDataRace' /\ CallInv'
    BY <1>11, Zenon DEF IInv, TypeOK, CursorChain, NoDataRace, CallInv, Reusable, Visible,
                Pos, Dist, Inc, producer_restart
  <2>3. SlotInv'
    BY <1>11, SlotType, Zenon
       DEF IInv, TypeOK, NoDataRace, CallInv, SlotInv, MessageAt, Bytes, NoBytes,
           Message, Lens, Offered, producer_restart
  <2> QED
    BY <2>1, <2>2, <2>3 DEF IInv
<1>12. CASE peeked = None /\ nabd_pop
  <2>1. TypeOK'
    BY <1>12, PosFacts, SlotType, LenType, SMTT(30)
       DEF IInv, TypeOK, NoBytes, Bytes, Message, Lens, nabd_pop, ConsumerGoes
  <2>2. CursorChain' /\ NoDataRace' /\ CallInv'
    BY <1>12, SMTT(30) DEF IInv, TypeOK, CursorChain, NoDataRace, CallInv, Reusable,
       Visible, Pos, Dist, Inc, nabd_pop, ConsumerGoes
  <2>3. SlotInv'
    BY <1>12, SlotType, SMTT(30)
       DEF IInv, TypeOK, NoDataRace, CallInv, SlotInv, MessageAt, Bytes, NoBytes,
           Message, Lens, Offered, nabd_pop, ConsumerGoes
  <2> QED
    BY <2>1, <2>2, <2>3 DEF IInv
<1>13. CASE nabd_peek
  <2>1. TypeOK'
    BY <1>13, PosFacts, SlotType, LenType, SMTT(30)
       DEF IInv, TypeOK, NoBytes, Bytes, Message, Lens, nabd_peek, ConsumerGoes
  <2>2. CursorChain' /\ NoDataRace' /\ CallInv'
    BY <1>13, SMTT(30) DEF IInv, TypeOK, CursorChain, NoDataRace, CallInv, Reusable,
       Visible, Pos, Dist, Inc, nabd_peek, ConsumerGoes
  <2>3. SlotInv'
    BY <1>13, SlotType, SMTT(30)
       DEF IInv, TypeOK, NoDataRace, CallInv, SlotInv, MessageAt, Bytes, NoBytes,
           Message, Lens, Offered, nabd_peek, ConsumerGoes
  <2> QED
    BY <2>1, <2>2, <2>3 DEF IInv
<1>14. CASE read_peeked
  <2>1. TypeOK'
    BY <1>14, PosFacts, SlotType, LenType, SMTT(30)
       DEF IInv, TypeOK, NoBytes, Bytes, Message, Lens, read_peeked, PayloadReads
  <2>2. CursorChain' /\ NoDataRace' /\ CallInv'
    BY <1>14, SMTT(30) DEF IInv, TypeOK, CursorChain, NoDataRace, CallInv, Reusable,
       Visible, Pos, Dist, Inc, read_peeked, PayloadReads
  <2>3. SlotInv'
    BY <1>14, SlotType, SMTT(30)
       DEF IInv, TypeOK, NoDataRace, CallInv, SlotInv, MessageAt, Bytes, NoBytes,
           Message, Lens, Offered, read_peeked, PayloadReads
  <2> QED
    BY <2>1, <2>2, <2>3 DEF IInv
<1>15. CASE peeked # None /\ (cbuf.len > 0 => cbuf.data # None) /\ nabd_release
  <2>1. TypeOK'
    BY <1>15, PosFacts, SlotType, LenType, SMTT(30)
       DEF IInv, TypeOK, NoBytes, Bytes, Message, Lens, nabd_release, ConsumerReturns
  <2>2. CursorChain' /\ NoDataRace' /\ CallInv'
    BY <1>15, SMTT(30) DEF IInv, TypeOK, CursorChain, NoDataRace, CallInv, Reusable,
       Visible, Pos, Dist, Inc, nabd_release, ConsumerReturns
  <2>3. SlotInv'
    BY <1>15, SlotType, SMTT(30)
       DEF IInv, TypeOK, NoDataRace, CallInv, SlotInv, MessageAt, Bytes, NoBytes,
           Message, Lens, Offered, nabd_release, ConsumerReturns
  <2> QED
    BY <2>1, <2>2, <2>3 DEF IInv
<1>16. CASE pop_load_head
  <2>1. TypeOK'
    BY <1>16, PosFacts, SlotType, LenType, SMTT(30)
       DEF IInv, TypeOK, NoBytes, Bytes, Message, Lens, pop_load_head,
           NABD_LOAD_ACQUIRE_head, Between, ConsumerReturns
  <2>2. CursorChain' /\ NoDataRace' /\ CallInv'
    BY <1>16, SMTT(30) DEF IInv, TypeOK, CursorChain, NoDataRace, CallInv, Reusable,
       Visible, Pos, Dist, Inc, pop_load_head, NABD_LOAD_ACQUIRE_head, Between,
                ConsumerReturns
  <2>3. SlotInv'
    BY <1>16, SlotType, SMTT(30)
       DEF IInv, TypeOK, NoDataRace, CallInv, SlotInv, MessageAt, Bytes, NoBytes,
           Message, Lens, Offered, pop_load_head, NABD_LOAD_ACQUIRE_head, Between,
           ConsumerReturns
  <2> QED
    BY <2>1, <2>2, <2>3 DEF IInv
<1>17. CASE \E size \in 0 .. MaxPayload : pop_length(size)
  <2>1. TypeOK'
    BY <1>17, PosFacts, SlotType, LenType, SMTT(30)
       DEF IInv, TypeOK, NoBytes, Bytes, Message, Lens, pop_length, LengthReads,
           ConsumerReturns
  <2>2. CursorChain' /\ NoDataRace' /\ CallInv'
    BY <1>17, SMTT(30) DEF IInv, TypeOK, CursorChain, NoDataRace, CallInv, Reusable,
       Visible, Pos, Dist, Inc, pop_length, LengthReads, ConsumerReturns
  <2>3. SlotInv'
    BY <1>17, SlotType, SMTT(30)
       DEF IInv, TypeOK, NoDataRace, CallInv, SlotInv, MessageAt, Bytes, NoBytes,
           Message, Lens, Offered, pop_length, LengthReads, ConsumerReturns
  <2> QED
    BY <2>1, <2>2, <2>3 DEF IInv
<1>18. CASE pop_copy
  <2>1. TypeOK'
    BY <1>18, PosFacts, SlotType, LenType, SMTT(30)
       DEF IInv, TypeOK, NoBytes, Bytes, Message, Lens, pop_copy, PayloadReads, ConsumerGoes
  <2>2. CursorChain' /\ NoDataRace' /\ CallInv'
    BY <1>18, SMTT(30) DEF IInv, TypeOK, CursorChain, NoDataRace, CallInv, Reusable,
       Visible, Pos, Dist, Inc, pop_copy, PayloadReads, ConsumerGoes
  <2>3. SlotInv'
    BY <1>18, SlotType, SMTT(30)
       DEF IInv, TypeOK, NoDataRace, CallInv, SlotInv, MessageAt, Bytes, NoBytes,
           Message, Lens, Offered, pop_copy, PayloadReads, ConsumerGoes
  <2> QED
    BY <2>1, <2>2, <2>3 DEF IInv
<1>19. CASE pop_advance
  <2>1. TypeOK'
    BY <1>19, PosFacts, SlotType, LenType, SMTT(30)
       DEF IInv, TypeOK, NoBytes, Bytes, Message, Lens, pop_advance, ConsumerReturns
  <2>2. CursorChain' /\ NoDataRace' /\ CallInv'
    BY <1>19, SMTT(30) DEF IInv, TypeOK, CursorChain, NoDataRace, CallInv, Reusable,
       Visible, Pos, Dist, Inc, pop_advance, ConsumerReturns
  <2>3. SlotInv'
    BY <1>19, SlotType, SMTT(30)
       DEF IInv, TypeOK, NoDataRace, CallInv, SlotInv, MessageAt, Bytes, NoBytes,
           Message, Lens, Offered, pop_advance, ConsumerReturns
  <2> QED
    BY <2>1, <2>2, <2>3 DEF IInv
<1>20. CASE peek_load_head
  <2>1. TypeOK'
    BY <1>20, PosFacts, SlotType, LenType, SMTT(30)
       DEF IInv, TypeOK, NoBytes, Bytes, Message, Lens, peek_load_head,
           NABD_LOAD_ACQUIRE_head, Between, ConsumerReturns
  <2>2. CursorChain' /\ NoDataRace' /\ CallInv'
    BY <1>20, SMTT(30) DEF IInv, TypeOK, CursorChain, NoDataRace, CallInv, Reusable,
       Visible, Pos, Dist, Inc, peek_load_head, NABD_LOAD_ACQUIRE_head, Between,
                ConsumerReturns
  <2>3. SlotInv'
    BY <1>20, SlotType, SMTT(30)
       DEF IInv, TypeOK, NoDataRace, CallInv, SlotInv, MessageAt, Bytes, NoBytes,
           Message, Lens, Offered, peek_load_head, NABD_LOAD_ACQUIRE_head, Between,
           ConsumerReturns
  <2> QED
    BY <2>1, <2>2, <2>3 DEF IInv
<1>21. CASE peek_length
  <2>1. TypeOK'
    BY <1>21, PosFacts, SlotType, LenType, SMTT(30)
       DEF IInv, TypeOK, NoBytes, Bytes, Message, Lens, peek_length, LengthReads,
           ConsumerReturns
  <2>2. CursorChain' /\ NoDataRace' /\ CallInv'
    BY <1>21, SMTT(30) DEF IInv, TypeOK, CursorChain, NoDataRace, CallInv, Reusable,
       Visible, Pos, Dist, Inc, peek_length, LengthReads, ConsumerReturns
  <2>3. SlotInv'
    BY <1>21, SlotType, SMTT(30)
       DEF IInv, TypeOK, NoDataRace, CallInv, SlotInv, MessageAt, Bytes, NoBytes,
           Message, Lens, Offered, peek_length, LengthReads, ConsumerReturns
  <2> QED
    BY <2>1, <2>2, <2>3 DEF IInv
<1>22. CASE consumer_restart
  <2>1. TypeOK'
    BY <1>22, PosFacts, SlotType, LenType, SMTT(30)
       DEF IInv, TypeOK, NoBytes, Bytes, Message, Lens, consumer_restart
  <2>2. CursorChain' /\ NoDataRace' /\ CallInv'
    BY <1>22, SMTT(30) DEF IInv, TypeOK, CursorChain, NoDataRace, CallInv, Reusable,
       Visible, Pos, Dist, Inc, consumer_restart
  <2>3. SlotInv'
    BY <1>22, SlotType, SMTT(30)
       DEF IInv, TypeOK, NoDataRace, CallInv, SlotInv, MessageAt, Bytes, NoBytes,
           Message, Lens, Offered, consumer_restart
  <2> QED
    BY <2>1, <2>2, <2>3 DEF IInv
<1>23. CASE UNCHANGED vars
  <2>1. TypeOK'
    BY <1>23, PosFacts, SlotType, LenType, SMTT(30)
       DEF IInv, TypeOK, NoBytes, Bytes, Message, Lens, vars
  <2>2. CursorChain' /\ NoDataRace' /\ CallInv'
    BY <1>23, SMTT(30) DEF IInv, TypeOK, CursorChain, NoDataRace, CallInv, Reusable,
                Visible, Pos, Dist, Inc, vars
  <2>3. SlotInv'
    BY <1>23, SlotType
       DEF IInv, TypeOK, NoDataRace, CallInv, SlotInv, MessageAt, Bytes, NoBytes,
           Message, Lens, Offered, vars
  <2> QED
    BY <2>1, <2>2, <2>3 DEF IInv
<1> QED
  BY <1>1, <1>2, <1>3, <1>4, <1>5, <1>6, <1>7, <1>8, <1>9, <1>10, <1>11, <1>12, <1>13,
     <1>14, <1>15, <1>16, <1>17, <1>18, <1>19, <1>20, <1>21, <1>22, <1>23, Zenon
     DEF Next, ProducerCalls, ProducerInternal, ConsumerCalls, ConsumerInternal
-----------------------------------------------------------------------------
\* IInv is an invariant of the ring.
THEOREM Invariant == Spec => []IInv
BY InitInv, NextInv, PTL DEF Spec

\* Type correctness.
THEOREM TypeCorrect == Spec => []TypeOK
<1>1. IInv => TypeOK
  BY Zenon DEF IInv
<1> QED
  BY <1>1, Invariant, PTL

\* The counters and what the threads know of them stay in order, for every
\* capacity and across the wrap of the counters.
THEOREM Chain == Spec => []CursorChain
<1>1. IInv => CursorChain
  BY Zenon DEF IInv
<1> QED
  BY <1>1, Invariant, PTL

\* nabd_push, nabd_pop and the zero-copy calls never race on a slot.
THEOREM RaceFree == Spec => []NoDataRace
<1>1. IInv => NoDataRace
  BY SMTT(30) DEF IInv
<1> QED
  BY <1>1, Invariant, PTL

\* A step leaves the slot that the consumer's caller holds a pointer to alone.
LEMMA PeekStep ==
  ASSUME IInv, [Next]_vars, peeked # None, peeked' = peeked
  PROVE  /\ payload'[get_slot(peeked)] = payload[get_slot(peeked)]
         /\ length'[get_slot(peeked)] = length[get_slot(peeked)]
<1>1. peeked = tail /\ Visible(tail)
  BY Zenon DEF IInv, CallInv, NoDataRace
<1>2. Reusable(head) => get_slot(tail) # get_slot(head)
  BY <1>1, WriteMissesRead, Zenon DEF IInv
<1>3. get_slot(tail) \in Slot /\ get_slot(head) \in Slot
  BY SlotType, SMTT(30) DEF IInv, TypeOK
<1>4. \/ UNCHANGED <<payload, length>>
      \/ /\ Reusable(head)
         /\ \/ \E d : payload' = [payload EXCEPT ![get_slot(head)] = d] /\ UNCHANGED length
            \/ \E l : length' = [length EXCEPT ![get_slot(head)] = l] /\ UNCHANGED payload
  BY Zenon DEF IInv, NoDataRace, CallInv, Next, vars, shared, producer, consumer,
         ProducerCalls, ProducerInternal, ConsumerCalls, ConsumerInternal,
         nabd_push, push_load_tail, push_copy, push_header, push_publish, nabd_reserve,
         reserve_load_tail, write_reserved, nabd_commit, commit_publish,
         producer_restart, nabd_pop, pop_load_head, pop_length, pop_copy, pop_advance,
         nabd_peek, peek_load_head, peek_length, read_peeked, nabd_release,
         consumer_restart, ProducerGoes
<1> QED
  BY <1>1, <1>2, <1>3, <1>4, Zenon DEF IInv, TypeOK

\* The pointer nabd_peek returned stays good until nabd_release.
THEOREM PeekSafe == Spec => PeekStable
BY PeekStep, Invariant, PTL DEF Spec, PeekStable

-----------------------------------------------------------------------------
(* Ring implements BoundedFifo: what Contents, the abstract queue, becomes *)
(* in each kind of step, and which step of the abstract queue each step of *)
(* the code is.                                                            *)


\* What a consumer can find in a slot.
Found == [data : Data \cup {None}, len : 0 .. LenMod - 1]

\* A function on 1 .. n is a sequence of length n.
LEMMA SeqOfLength ==
  ASSUME NEW S, NEW n \in Nat, NEW s \in [1 .. n -> S]
  PROVE  s \in Seq(S) /\ Len(s) = n
OBVIOUS

\* The positions of the published messages.
LEMMA PlusType ==
  ASSUME TypeOK, NEW i \in 1 .. Dist(head, tail)
  PROVE  Plus(tail, i - 1) \in Pos
BY CapacityAssumption, IndexAssumption DEF TypeOK, Pos, Dist, Plus

\* What the consumer finds in a slot is a message.
LEMMA MessageType ==
  ASSUME TypeOK, NEW p \in Pos
  PROVE  MessageAt(p) \in Found
<1>1. get_slot(p) \in Slot
  BY SlotType, Zenon
<1> QED
  BY <1>1, Zenon DEF TypeOK, MessageAt, Bytes, Found

\* Contents is a sequence of at most Capacity messages.
LEMMA ContentsType ==
  ASSUME TypeOK
  PROVE  /\ Dist(head, tail) \in Nat
         /\ Contents \in [1 .. Dist(head, tail) -> Found]
         /\ Contents \in Seq(Found)
         /\ Len(Contents) = Dist(head, tail)
<1>1. Dist(head, tail) \in Nat
  BY IndexAssumption DEF TypeOK, Dist, Pos
<1>2. Contents \in [1 .. Dist(head, tail) -> Found]
  BY PlusType, MessageType, Zenon DEF Contents
<1> QED
  BY <1>1, <1>2, SeqOfLength, Zenon

\* A step that leaves the counters and the slots alone leaves Contents alone.
LEMMA ContentsFrame ==
  UNCHANGED shared => UNCHANGED Contents
BY Zenon DEF shared, Contents, MessageAt

\* So does a write to the slot at head once that slot may be reused.
LEMMA ContentsWrite ==
  ASSUME TypeOK, CursorChain, Reusable(head), UNCHANGED <<head, tail>>,
         \A s \in Slot \ {get_slot(head)} :
            payload'[s] = payload[s] /\ length'[s] = length[s]
  PROVE  UNCHANGED Contents
<1>1. ASSUME NEW i \in 1 .. Dist(head, tail)
      PROVE  MessageAt(Plus(tail, i - 1))' = MessageAt(Plus(tail, i - 1))
  <2>1. get_slot(Plus(tail, i - 1)) \in Slot \ {get_slot(head)}
    BY WritesElsewhere, SlotType, Zenon
  <2>2. Plus(tail, i - 1)' = Plus(tail, i - 1)
    BY Zenon DEF Plus
  <2> QED
    BY <2>1, <2>2, Zenon DEF MessageAt, get_slot
<1> QED
  BY <1>1, Zenon DEF Contents

\* Publishing the slot at head appends its message.
LEMMA ContentsAppend ==
  ASSUME TypeOK, TypeOK', CursorChain, Reusable(head), head' = Inc(head),
         UNCHANGED <<tail, payload, length>>
  PROVE  /\ Len(Contents) < Capacity
         /\ Contents' = Append(Contents, MessageAt(head))
<1> DEFINE n == Dist(head, tail)
<1>1. /\ n < Capacity /\ Dist(head, tail)' = n + 1
      /\ Plus(tail, n) = head
  BY CapacityAssumption, IndexAssumption
     DEF TypeOK, CursorChain, Reusable, Pos, Dist, Inc, Plus
<1>2. /\ n \in Nat /\ Contents \in Seq(Found) /\ Len(Contents) = n
      /\ Contents = [i \in 1 .. n |-> MessageAt(Plus(tail, i - 1))]
  BY ContentsType, Zenon DEF Contents
<1>3. Contents' = [i \in 1 .. n + 1 |-> MessageAt(Plus(tail, i - 1))]
  BY <1>1, Zenon DEF Contents, MessageAt
<1> HIDE DEF n
<1>4. \A i \in 1 .. n + 1 :
        MessageAt(Plus(tail, i - 1))
          = IF i = n + 1 THEN MessageAt(head) ELSE Contents[i]
  BY <1>1, <1>2
<1>5. Append(Contents, MessageAt(head))
        = [i \in 1 .. n + 1 |-> IF i = n + 1 THEN MessageAt(head) ELSE Contents[i]]
  BY <1>2
<1> QED
  BY <1>1, <1>2, <1>3, <1>4, <1>5

\* Advancing tail removes the message at tail, the oldest.
LEMMA ContentsTail ==
  ASSUME TypeOK, TypeOK', CursorChain, Visible(tail), tail' = Inc(tail),
         UNCHANGED <<head, payload, length>>
  PROVE  /\ Contents # <<>>
         /\ Head(Contents) = MessageAt(tail)
         /\ Contents' = Tail(Contents)
<1> DEFINE n == Dist(head, tail)
<1>1. /\ n > 0 /\ Dist(head, tail)' = n - 1
      /\ Plus(tail, 0) = tail
      /\ \A i \in 1 .. n - 1 : Plus(Inc(tail), i - 1) = Plus(tail, i)
  BY CapacityAssumption, IndexAssumption
     DEF TypeOK, CursorChain, Visible, Pos, Dist, Inc, Plus
<1>2. /\ n \in Nat /\ Contents \in Seq(Found) /\ Len(Contents) = n
      /\ Contents = [i \in 1 .. n |-> MessageAt(Plus(tail, i - 1))]
  BY ContentsType, Zenon DEF Contents
<1>3. Contents' = [i \in 1 .. n - 1 |-> MessageAt(Plus(Inc(tail), i - 1))]
  BY <1>1, Zenon DEF Contents, MessageAt
<1> HIDE DEF n
<1>4. \A i \in 1 .. n - 1 : MessageAt(Plus(Inc(tail), i - 1)) = Contents[i + 1]
  BY <1>1, <1>2
<1>5. Tail(Contents) = [i \in 1 .. n - 1 |-> Contents[i + 1]]
  BY <1>1, <1>2
<1>6. Head(Contents) = Contents[1] /\ Contents[1] = MessageAt(tail)
  BY <1>1, <1>2
<1>7. Contents # <<>>
  BY <1>1, <1>2
<1> QED
  BY <1>2, <1>3, <1>4, <1>5, <1>6, <1>7, Zenon
-----------------------------------------------------------------------------
\* A step that changes neither the abstract queue, nor what is offered, nor what
\* was delivered last, is a stutter of the abstract queue.
LEMMA Stutter ==
  ASSUME UNCHANGED <<Contents, Offered, delivered>>
  PROVE  [Fifo!Next]_Fifo!vars
BY Zenon DEF Fifo!vars

\* The message found in a slot is the one whose content and length were written
\* there, when the length field is wide enough for the payload.
LEMMA Untruncated ==
  ASSUME IInv, MaxPayload < LenMod, ppc \in {"push_publish", "commit_publish"}
  PROVE  MessageAt(head) = pmsg
<1>1. pmsg \in Message /\ pmsg.len <= MaxPayload
  BY NoneAssumption DEF IInv, SlotInv, TypeOK, Offered, Lens
<1>2. pmsg.len \in Nat /\ pmsg.len % LenMod = pmsg.len
  BY <1>1, LenAssumption DEF Message
<1>3. length[get_slot(head)] = pmsg.len
  BY <1>2, Zenon DEF IInv, SlotInv
<1>4. pmsg.len > 0 => pmsg.data # None /\ payload[get_slot(head)] = pmsg.data
  BY <1>1, NoneAssumption DEF IInv, SlotInv, CallInv, Message
<1> QED
  BY <1>1, <1>2, <1>3, <1>4 DEF MessageAt, Bytes, Message

\* A new queue is an empty bounded queue.
LEMMA FifoInit == Init => Fifo!Init
<1> SUFFICES ASSUME Init PROVE Fifo!Init
  BY Zenon
<1>1. Dist(head, tail) = 0
  BY DEF Init, Dist
<1>2. Contents = <<>>
  BY <1>1 DEF Contents
<1> QED
  BY <1>2, Zenon DEF Init, Fifo!Init, Offered

\* Every step of the ring is a step or a stutter of the abstract queue.
LEMMA FifoNext ==
  ASSUME MaxPayload < LenMod, IInv, IInv', [Next]_vars
  PROVE  [Fifo!Next]_Fifo!vars
<1> USE DEF shared, producer, consumer
<1>0. pmsg # None /\ pmsg' # None
  BY NoneAssumption DEF IInv, TypeOK, Lens
<1>1. CASE ~reserved /\ \E m \in Message : nabd_push(m)
  <2>1. UNCHANGED Contents
    BY <1>1, ContentsFrame, Zenon DEF nabd_push
  <2> QED
    BY <1>1, <2>1, Zenon DEF nabd_push, ProducerReturns, Offered, Fifo!vars, Fifo!Next,
       Fifo!Offer
<1>2. CASE \E len \in Lens : nabd_reserve(len)
  BY <1>2, ContentsFrame, Stutter, Zenon DEF nabd_reserve, ProducerReturns, Offered
<1>3. CASE \E d \in Data : write_reserved(d)
  <2>1. UNCHANGED Contents
    BY <1>3, ContentsWrite
       DEF write_reserved, IInv, TypeOK, NoDataRace, CallInv
  <2> QED
    BY <1>3, <2>1, Stutter, Zenon DEF write_reserved, Offered
<1>4. CASE \E len \in Lens :
             /\ reserved => len <= MaxPayload /\ (len > 0 => pmsg.data # None)
             /\ nabd_commit(len)
  <2>1. UNCHANGED Contents
    BY <1>4, ContentsWrite, ContentsFrame
       DEF nabd_commit, IInv, TypeOK, NoDataRace, CallInv
  <2>2. Offered' # None => Offered' \in Message
    BY Zenon DEF IInv, SlotInv, Offered
  <2> QED
    BY <1>4, <2>1, <2>2, <1>0, SMTT(30)
       DEF nabd_commit, ProducerReturns, Offered, Fifo!vars, Fifo!Next, Fifo!Offer
<1>5. CASE push_load_tail
  <2>1. UNCHANGED Contents
    BY <1>5, ContentsFrame, Zenon DEF push_load_tail
  <2> QED
    BY <1>0, <1>5, <2>1, Zenon
       DEF push_load_tail, ProducerReturns, Offered, Fifo!vars, Fifo!Next, Fifo!TurnDown
<1>6. CASE push_copy
  <2>1. UNCHANGED Contents
    BY <1>6, ContentsWrite, Zenon
       DEF push_copy, ProducerGoes, IInv, TypeOK, NoDataRace
  <2> QED
    BY <1>6, <2>1, Stutter, SMTT(30) DEF push_copy, ProducerGoes, Offered
<1>7. CASE push_header
  <2>1. UNCHANGED Contents
    BY <1>7, ContentsWrite, Zenon
       DEF push_header, ProducerGoes, IInv, TypeOK, NoDataRace
  <2> QED
    BY <1>7, <2>1, Stutter, Zenon DEF push_header, ProducerGoes, Offered
<1>8. CASE push_publish \/ commit_publish
  <2>1. /\ Reusable(head) /\ head' = Inc(head)
        /\ UNCHANGED <<tail, payload, length, delivered>>
        /\ ppc \in {"push_publish", "commit_publish"} /\ ppc' = "idle"
    BY <1>8, Zenon DEF push_publish, commit_publish, ProducerReturns, IInv, NoDataRace,
       CallInv
  <2>2. Len(Contents) < Capacity /\ Contents' = Append(Contents, pmsg)
    BY <2>1, ContentsAppend, Untruncated, Zenon DEF IInv
  <2> QED
    BY <1>0, <2>1, <2>2, Zenon DEF Offered, Fifo!vars, Fifo!Next, Fifo!Accept
<1>9. CASE reserve_load_tail
  BY <1>9, ContentsFrame, Stutter, Zenon DEF reserve_load_tail, ProducerReturns, Offered
<1>10. CASE producer_restart
  <2>1. UNCHANGED Contents
    BY <1>10, ContentsFrame, Zenon DEF producer_restart
  <2> QED
    BY <1>0, <1>10, <2>1, Zenon
       DEF producer_restart, Offered, Fifo!vars, Fifo!Next, Fifo!TurnDown
<1>11. CASE pop_advance \/ (peeked # None /\ (cbuf.len > 0 => cbuf.data # None) /\ nabd_release)
  <2>1. /\ Visible(tail) /\ tail' = Inc(tail)
        /\ UNCHANGED <<head, payload, length, producer>>
        /\ delivered' = cbuf
    BY <1>11, SMTT(30) DEF pop_advance, nabd_release, IInv, NoDataRace, CallInv
  <2>2. cbuf = MessageAt(tail)
    BY <1>11 DEF pop_advance, nabd_release, IInv, TypeOK, SlotInv, MessageAt, Bytes
  <2>3. Contents # <<>> /\ Head(Contents) = cbuf /\ Contents' = Tail(Contents)
    BY <2>1, <2>2, ContentsTail, Zenon DEF IInv
  <2> QED
    BY <2>1, <2>3, Zenon DEF Offered, Fifo!vars, Fifo!Next, Fifo!Take
<1>12. CASE \/ nabd_pop \/ nabd_peek \/ read_peeked \/ pop_load_head
            \/ \E size \in 0 .. MaxPayload : pop_length(size)
            \/ pop_copy \/ peek_load_head \/ peek_length \/ consumer_restart
  <2>1. UNCHANGED <<shared, producer, delivered>>
    BY <1>12, Zenon DEF nabd_pop, nabd_peek, read_peeked, pop_load_head, pop_length,
       pop_copy, peek_load_head, peek_length, consumer_restart
  <2> QED
    BY <2>1, ContentsFrame, Stutter, SMTT(30) DEF Offered
<1>13. CASE UNCHANGED vars
  BY <1>13, ContentsFrame, Stutter, Zenon DEF vars, Offered
<1> QED
  BY <1>1, <1>2, <1>3, <1>4, <1>5, <1>6, <1>7, <1>8, <1>9, <1>10, <1>11, <1>12, <1>13, Zenon
     DEF Next, ProducerCalls, ProducerInternal, ConsumerCalls, ConsumerInternal

\* When a payload's length fits the length field of the slot header, the ring
\* buffer implements the bounded queue: what nabd_push and nabd_commit accept is
\* consumed once, unaltered and in order.
THEOREM Refinement == MaxPayload < LenMod => (Spec => IsFifo)
<1> SUFFICES ASSUME MaxPayload < LenMod PROVE Spec => IsFifo
  BY Zenon
<1>1. IInv /\ IInv' /\ [Next]_vars => [Fifo!Next]_Fifo!vars
  BY FifoNext, Zenon
<1> QED
  BY <1>1, FifoInit, Invariant, PTL DEF Spec, IsFifo, Fifo!Spec
=============================================================================

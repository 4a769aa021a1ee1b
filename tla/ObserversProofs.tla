-------------------------- MODULE ObserversProofs --------------------------
(* Proofs about Observers, on top of the inductive invariant of Ring. *)
EXTENDS Observers, RingProofs

\* A step of the ring moves what a thread has loaded of the other's counter forward,
\* up to the newest value stored.
LEMMA SeenAdvances ==
  ASSUME [Next]_vars
  PROVE  /\ tailSeen' = tailSeen \/ tailSeen' \in Between(tailSeen, tail)
         /\ headSeen' = headSeen \/ headSeen' \in Between(headSeen, head)
BY Zenon DEF Next, vars, shared, producer, consumer,
       ProducerCalls, ProducerInternal, ConsumerCalls, ConsumerInternal,
       nabd_push, push_load_tail, push_copy, push_header, push_publish, nabd_reserve,
       reserve_load_tail, write_reserved, nabd_commit, commit_publish,
       producer_restart, nabd_pop, pop_load_head, pop_length, pop_copy, pop_advance,
       nabd_peek, peek_load_head, peek_length, read_peeked, nabd_release,
       consumer_restart, NABD_LOAD_ACQUIRE_tail, NABD_LOAD_ACQUIRE_head

\* A load of tail in the producer's thread preserves the invariant of the ring, and
\* finds a fill between the real one and the capacity.
LEMMA ProducerLoads ==
  ASSUME IInv, NEW v \in Pos,
         NABD_LOAD_RELAXED_tail(v) \/ NABD_LOAD_ACQUIRE_tail(v),
         UNCHANGED <<shared, consumer, ppc, pret, pmsg, reserved, reserve_pos>>
  PROVE  /\ IInv'
         /\ Dist(head, v) \in Nat /\ Dist(head, v) <= Capacity
         /\ tailSeen' = v
<1> USE CapacityAssumption, IndexAssumption
<1> USE DEF shared, consumer, NABD_LOAD_RELAXED_tail, NABD_LOAD_ACQUIRE_tail
<1>1. TypeOK' /\ CallInv' /\ NoDataRace' /\ CursorChain'
  BY DEF IInv, TypeOK, CallInv, NoDataRace, CursorChain, Reusable, Visible, Between,
         Pos, Dist
<1>2. SlotInv'
  BY Zenon DEF IInv, SlotInv, Offered, MessageAt
<1>3. Dist(head, v) \in Nat /\ Dist(head, v) <= Capacity
  BY DEF IInv, TypeOK, CursorChain, Between, Pos, Dist
<1> QED
  BY <1>1, <1>2, <1>3, Zenon DEF IInv

\* A load of head in the consumer's thread preserves the invariant of the ring.
LEMMA ConsumerLoads ==
  ASSUME IInv, NEW v \in Pos,
         NABD_LOAD_RELAXED_head(v) \/ NABD_LOAD_ACQUIRE_head(v),
         UNCHANGED <<shared, producer, cpc, cret, cbuf, peeked, delivered>>
  PROVE  /\ IInv'
         /\ Dist(v, tail) \in Nat
         /\ headSeen' = v
<1> USE CapacityAssumption, IndexAssumption
<1> USE DEF shared, producer, NABD_LOAD_RELAXED_head, NABD_LOAD_ACQUIRE_head
<1>1. TypeOK' /\ CallInv' /\ NoDataRace' /\ CursorChain'
  BY DEF IInv, TypeOK, CallInv, NoDataRace, CursorChain, Reusable, Visible, Between,
         Pos, Dist
<1>2. SlotInv'
  BY Zenon DEF IInv, SlotInv, Offered, MessageAt
<1>3. Dist(v, tail) \in Nat
  BY DEF IInv, TypeOK, Pos, Dist
<1> QED
  BY <1>1, <1>2, <1>3, Zenon DEF IInv

\* ObsInv holds of a new queue.
LEMMA ObsInitInv == ObsInit => ObsInv
BY InitInv, Zenon DEF ObsInit, ObsInv

\* Every step of the ring and of the observers in its two threads keeps ObsInv.
LEMMA ObsNextInv == ObsInv /\ [ObsNext]_obsvars => ObsInv'
<1> SUFFICES ASSUME ObsInv, [ObsNext]_obsvars PROVE ObsInv'
  BY Zenon
<1>1. CASE RingStep \/ UNCHANGED obsvars
  <2>1. [Next]_vars
    BY <1>1, Zenon DEF RingStep, obsvars
  <2>2. IInv'
    BY <2>1, NextInv, Zenon DEF ObsInv
  <2> DEFINE between(p, a, b) == p = a \/ p \in Between(a, b)
  <2>3. between(tailSeen', tailSeen, tail) /\ between(headSeen', headSeen, head)
    BY <2>1, SeenAdvances, Zenon
  <2>4. /\ head \in Pos /\ tail \in Pos /\ headSeen \in Pos /\ tailSeen \in Pos
        /\ tailSync \in Pos /\ headSync \in Pos /\ CursorChain
    BY Zenon DEF ObsInv, IInv, TypeOK
  <2>5. ASSUME pused' # None
        PROVE  /\ pused' \in Nat /\ pused' <= Capacity
               /\ Dist(head', tailSeen') <= pused'
    <3>1. pused' = pused /\ head' = head
      BY <1>1, <2>5, Zenon DEF RingStep, obsvars, vars, shared
    <3>2. Dist(head, tailSeen') <= Dist(head, tailSeen)
      BY <2>3, <2>4, CapacityAssumption, IndexAssumption
         DEF CursorChain, Between, Pos, Dist
    <3>3. /\ pused \in Nat /\ pused <= Capacity /\ Dist(head, tailSeen) <= pused
          /\ Dist(head, tailSeen') \in Int /\ Dist(head, tailSeen) \in Int
      BY <2>3, <2>4, <2>5, <3>1, IndexAssumption DEF ObsInv, Between, Pos, Dist
    <3> QED
      BY <3>1, <3>2, <3>3, CapacityAssumption
  <2>6. ASSUME cused' # None
        PROVE  cused' \in Nat /\ cused' <= Dist(headSeen', tail')
    <3>1. cused' = cused /\ tail' = tail
      BY <1>1, <2>6, Zenon DEF RingStep, obsvars, vars, shared
    <3>2. Dist(headSeen, tail) <= Dist(headSeen', tail)
      BY <2>3, <2>4, CapacityAssumption, IndexAssumption
         DEF CursorChain, Between, Pos, Dist
    <3>3. /\ cused \in Nat /\ cused <= Dist(headSeen, tail)
          /\ Dist(headSeen', tail) \in Int /\ Dist(headSeen, tail) \in Int
      BY <2>3, <2>4, <2>6, <3>1, IndexAssumption DEF ObsInv, Between, Pos, Dist
    <3> QED
      BY <3>1, <3>2, <3>3
  <2> QED
    BY <2>2, <2>5, <2>6, Zenon DEF ObsInv, Dist
<1>2. CASE producer_stats \/ producer_nabd_full
  <2>1. PICK v \in Pos :
          /\ NABD_LOAD_RELAXED_tail(v) \/ NABD_LOAD_ACQUIRE_tail(v)
          /\ pused' = Dist(head, v)
          /\ UNCHANGED <<shared, consumer, ppc, pret, pmsg, reserved, reserve_pos, cused>>
    BY <1>2, Zenon DEF producer_stats, producer_nabd_full
  <2>2. /\ IInv' /\ tailSeen' = v
        /\ Dist(head, v) \in Nat /\ Dist(head, v) <= Capacity
    BY <2>1, ProducerLoads, Zenon DEF ObsInv
  <2> QED
    BY <2>1, <2>2 DEF ObsInv, Dist, shared, consumer
<1>3. CASE consumer_stats \/ consumer_nabd_empty
  <2>1. PICK v \in Pos :
          /\ NABD_LOAD_RELAXED_head(v) \/ NABD_LOAD_ACQUIRE_head(v)
          /\ cused' = Dist(v, tail)
          /\ UNCHANGED <<shared, producer, cpc, cret, cbuf, peeked, delivered, pused>>
    BY <1>3, Zenon DEF consumer_stats, consumer_nabd_empty
  <2>2. IInv' /\ headSeen' = v /\ Dist(v, tail) \in Nat
    BY <2>1, ConsumerLoads, Zenon DEF ObsInv
  <2> QED
    BY <2>1, <2>2 DEF ObsInv, Dist, shared, producer
<1> QED
  BY <1>1, <1>2, <1>3, Zenon DEF ObsNext

\* ObsInv is an invariant.
THEOREM ObsInvariant == ObsSpec => []ObsInv
BY ObsInitInv, ObsNextInv, PTL DEF ObsSpec

\* The fill a thread finds bounds the real one until the thread moves its counter.
THEOREM UsedBound == ObsSpec => []UsedBounds
<1>1. ObsInv => UsedBounds
  BY CapacityAssumption, IndexAssumption
     DEF ObsInv, UsedBounds, IInv, TypeOK, CursorChain, Pos, Dist
<1> QED
  BY <1>1, ObsInvariant, PTL

\* The arithmetic of nabd_fill_level: the product does not wrap, and its quotient by
\* the capacity is at most Percent.
LEMMA FillRange ==
  ASSUME NEW u \in Nat, u <= Capacity
  PROVE  nabd_fill_level(u) \in 0 .. Percent
<1> USE CapacityAssumption, IndexAssumption, PercentAssumption
<1> DEFINE x == u * Percent
           m == Capacity * Percent
<1>1. x \in Nat /\ m \in Nat
  OBVIOUS
<1>2. x <= m
  <2>1. (Capacity - u) * Percent \in Nat
    OBVIOUS
  <2>2. m = x + (Capacity - u) * Percent
    OBVIOUS
  <2> QED BY <2>1, <2>2, <1>1
<1>3. m < IndexMod
  BY Percent * Capacity = Capacity * Percent
<1> HIDE DEF x, m
<1>4. x % IndexMod = x
  BY <1>1, <1>2, <1>3
<1>5. x \div Capacity \in Nat /\ Capacity * (x \div Capacity) <= x
  BY <1>1
<1>6. x \div Capacity <= Percent
  <2> SUFFICES ASSUME x \div Capacity >= Percent + 1 PROVE FALSE
    BY <1>5
  <2> DEFINE y == x \div Capacity
  <2>1. y \in Nat /\ y >= Percent + 1 /\ Capacity * y <= x
    BY <1>5, Zenon
  <2> HIDE DEF y
  <2>2. Capacity * y = Capacity * (y - Percent - 1) + Capacity * Percent + Capacity
    BY <2>1
  <2>3. Capacity * (y - Percent - 1) \in Nat
    BY <2>1
  <2>4. Capacity * Percent = m /\ Capacity * Percent \in Nat
    BY DEF m
  <2> QED
    BY <2>1, <2>2, <2>3, <2>4, <1>2, <1>1
<1> QED
  BY <1>4, <1>5, <1>6 DEF nabd_fill_level, x

\* nabd_fill_level is a percentage in the producer's and in the consumer's thread.
THEOREM FillBound == ObsSpec => []FillInRange
<1>1. ASSUME ObsInv
      PROVE  /\ pused # None => pused \in Nat /\ pused <= Capacity
             /\ cused # None => cused \in Nat /\ cused <= Capacity
  BY <1>1, CapacityAssumption, IndexAssumption
     DEF ObsInv, IInv, TypeOK, CursorChain, Pos, Dist
<1>2. ObsInv => FillInRange
  BY <1>1, FillRange, Zenon DEF FillInRange
<1> QED
  BY <1>2, ObsInvariant, PTL

\* While the producer knows of room, a step does not make its call return NABD_FULL:
\* the tail it loads is no older than the one it knows.
LEMMA RoomStep ==
  ASSUME ObsInv, [ObsNext]_obsvars, pused # None, pused < Capacity,
         ppc \in {"push_load_tail", "reserve_load_tail"}
  PROVE  pret' # "FULL"
<1>1. pret = "NONE" /\ ~IsFull(tailSeen)
  BY CapacityAssumption, IndexAssumption
     DEF ObsInv, IInv, CallInv, TypeOK, IsFull, Pos, Dist
<1>2. CASE push_load_tail \/ reserve_load_tail
  <2>1. PICK v \in Pos : v \in Between(tailSeen, tail) /\ (IsFull(v) \/ pret' # "FULL")
    BY <1>1, <1>2, Zenon DEF push_load_tail, reserve_load_tail, NABD_LOAD_ACQUIRE_tail,
                      ProducerReturns
  <2>2. ~IsFull(v)
    BY <1>1, <2>1, CapacityAssumption, IndexAssumption
       DEF ObsInv, IInv, TypeOK, CursorChain, IsFull, Between, Pos, Dist
  <2> QED
    BY <2>1, <2>2, Zenon
<1>3. CASE ~(push_load_tail \/ reserve_load_tail)
  <2>1. UNCHANGED pret \/ pret' = "NONE"
    BY <1>3, Zenon DEF ObsNext, obsvars, RingStep, Next, vars, shared, producer, consumer,
         producer_stats, producer_nabd_full, consumer_stats, consumer_nabd_empty,
         ProducerCalls, ProducerInternal, ConsumerCalls, ConsumerInternal,
         nabd_push, push_copy, push_header, push_publish, nabd_reserve,
         write_reserved, nabd_commit, commit_publish, ProducerGoes,
         producer_restart, nabd_pop, pop_load_head, pop_length, pop_copy, pop_advance,
         nabd_peek, peek_load_head, peek_length, read_peeked, nabd_release,
         consumer_restart
  <2> QED
    BY <1>1, <2>1, SMTT(30)
<1> QED
  BY <1>2, <1>3, Zenon

\* nabd_full() = 0 in the producer's thread is a promise.
THEOREM RoomPromise == ObsSpec => RoomLasts
BY RoomStep, ObsInvariant, PTL DEF ObsSpec, RoomLasts

\* While the consumer knows of a message, a step does not make its call return
\* NABD_EMPTY.
LEMMA ItemStep ==
  ASSUME ObsInv, [ObsNext]_obsvars, cused # None, cused > 0,
         cpc \in {"pop_load_head", "peek_load_head"}
  PROVE  cret' # "EMPTY"
<1>1. cret = "NONE" /\ headSeen # tail
  BY CapacityAssumption, IndexAssumption
     DEF ObsInv, IInv, CallInv, TypeOK, Pos, Dist
<1>2. CASE pop_load_head \/ peek_load_head
  <2>1. PICK v \in Pos : v \in Between(headSeen, head) /\ (tail = v \/ cret' # "EMPTY")
    BY <1>1, <1>2, Zenon DEF pop_load_head, peek_load_head, NABD_LOAD_ACQUIRE_head,
                      ConsumerReturns
  <2>2. tail # v
    BY <1>1, <2>1, CapacityAssumption, IndexAssumption
       DEF ObsInv, IInv, TypeOK, CursorChain, Between, Pos, Dist
  <2> QED
    BY <2>1, <2>2, Zenon
<1>3. CASE ~(pop_load_head \/ peek_load_head)
  <2>1. UNCHANGED cret \/ cret' = "NONE"
    BY <1>3, Zenon DEF ObsNext, obsvars, RingStep, Next, vars, shared, producer, consumer,
         producer_stats, producer_nabd_full, consumer_stats, consumer_nabd_empty,
         ProducerCalls, ProducerInternal, ConsumerCalls, ConsumerInternal,
         nabd_push, push_load_tail, push_copy, push_header, push_publish, nabd_reserve,
         reserve_load_tail, write_reserved, nabd_commit, commit_publish,
         producer_restart, nabd_pop, pop_length, pop_copy, pop_advance,
         nabd_peek, peek_length, read_peeked, nabd_release,
         consumer_restart, ConsumerGoes
  <2> QED
    BY <1>1, <2>1, SMTT(30)
<1> QED
  BY <1>2, <1>3, Zenon

\* nabd_empty() = 0 in the consumer's thread is a promise.
THEOREM ItemPromise == ObsSpec => ItemLasts
BY ItemStep, ObsInvariant, PTL DEF ObsSpec, ItemLasts

\* A call that looks at the fill, and a step of the monitor, change nothing the
\* abstract queue consists of.
LEMMA ObservingStutters ==
  ASSUME [MonitoredNext]_obsvars, ~RingStep
  PROVE  UNCHANGED <<Contents, Offered, delivered>>
<1>1. UNCHANGED <<shared, ppc, pmsg, delivered>>
  BY Zenon DEF MonitoredNext, ObsNext, producer_stats, producer_nabd_full, consumer_stats,
     consumer_nabd_empty, nabd_stats, stats_tail, nabd_get_metrics, metrics_tail,
     monitor_load_head, monitor_load_tail, obsvars, vars, producer, consumer
<1> QED
  BY <1>1, ContentsFrame, Zenon DEF Offered

\* ObsInv is about the two threads: a monitor beside them leaves it alone.
THEOREM MonitoredInvariant == MonitoredSpec => []ObsInv
<1>1. ASSUME ObsInv, [MonitoredNext]_obsvars
      PROVE  ObsInv'
  <2>1. CASE [ObsNext]_obsvars
    BY <1>1, <2>1, ObsNextInv, Zenon
  <2>2. CASE nabd_stats \/ stats_tail \/ nabd_get_metrics \/ metrics_tail
    <3>1. UNCHANGED <<vars, pused, cused>>
      BY <2>2, Zenon DEF nabd_stats, stats_tail, nabd_get_metrics, metrics_tail,
         monitor_load_head, monitor_load_tail
    <3>2. IInv'
      BY <1>1, <3>1, NextInv, Zenon DEF ObsInv
    <3> QED
      BY <1>1, <3>1, <3>2, Zenon DEF ObsInv, vars, shared, producer, consumer, Dist
  <2> QED
    BY <1>1, <2>1, <2>2, Zenon DEF MonitoredNext
<1>2. ObsInv /\ [MonitoredNext]_obsvars => ObsInv'
  BY <1>1, Zenon
<1> QED
  BY <1>2, ObsInitInv, PTL DEF MonitoredSpec

\* nabd_stats, nabd_empty, nabd_full, nabd_fill_level and nabd_get_metrics can be
\* called at any time, in both threads and in a third process: the queue stays a
\* bounded first-in first-out queue.
THEOREM ObservedFifo == MaxPayload < LenMod => (MonitoredSpec => IsFifo)
<1> SUFFICES ASSUME MaxPayload < LenMod PROVE MonitoredSpec => IsFifo
  BY Zenon
<1>1. ObsInit => Fifo!Init
  BY FifoInit, Zenon DEF ObsInit
<1>2. ASSUME ObsInv, ObsInv', [MonitoredNext]_obsvars
      PROVE  [Fifo!Next]_Fifo!vars
  <2>1. CASE RingStep
    BY <1>2, <2>1, FifoNext, Zenon DEF RingStep, ObsInv
  <2>2. CASE ~RingStep
    BY <1>2, <2>2, ObservingStutters, Stutter, Zenon
  <2> QED
    BY <2>1, <2>2, Zenon
<1>3. ObsInv /\ ObsInv' /\ [MonitoredNext]_obsvars => [Fifo!Next]_Fifo!vars
  BY <1>2, Zenon
<1> QED
  BY <1>1, <1>3, MonitoredInvariant, PTL DEF MonitoredSpec, IsFifo, Fifo!Spec
============================================================================

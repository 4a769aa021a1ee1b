----------------------------- MODULE Observers -----------------------------
(***************************************************************************)
(* The calls that look at the fill of a queue and change nothing:          *)
(* nabd_stats, nabd_empty, nabd_full (src/src/nabd.c), nabd_fill_level     *)
(* (src/src/backpressure.c) and nabd_get_metrics (src/src/metrics.c), made *)
(* by the producer, by the consumer, or by a third process that monitors   *)
(* the queue.                                                              *)
(*                                                                         *)
(* In the producer's and the consumer's thread one of the two counters is  *)
(* the thread's own, so a call is one step.  The monitor loads both, one   *)
(* after the other, and anything may happen in between.                    *)
(***************************************************************************)
EXTENDS Ring

CONSTANT Percent   \* 100 in the code

ASSUME PercentAssumption == Percent \in Nat /\ Percent * Capacity < IndexMod

VARIABLES
  pused,   \* the fill the producer found last, None once it has published since
  cused,   \* the fill the consumer found last, None once it has consumed since
  (* the monitor *)
  mpc,
  mhead,                   \* the head it has loaded
  mheadSeen, mtailSeen,    \* the newest values it has loaded
  mused,                   \* nabd_stats_t.used of its last nabd_stats
  mfill                    \* nabd_metrics_t.fill_pct of its last nabd_get_metrics

monitor == <<mpc, mhead, mheadSeen, mtailSeen, mused, mfill>>
obsvars == <<vars, pused, cused, monitor>>

ObsInit ==
  /\ Init
  /\ pused = None /\ cused = None
  /\ mpc = "idle" /\ mhead = 0 /\ mheadSeen = 0 /\ mtailSeen = 0
  /\ mused = None /\ mfill = None

\* Mutant of nabd_fill_level: divides by the mask.
nabd_fill_level_by_mask(used) ==
  IF Capacity = 1 THEN 0 ELSE ((used * Percent) % IndexMod) \div (Capacity - 1)

\* The code returns 0 for a capacity of 0, which a handle has only if it was attached too
\* early (HandleGeometry of Lifecycle).
nabd_fill_level(used) == ((used * Percent) % IndexMod) \div Capacity
-----------------------------------------------------------------------------
(* The producer: its own head is exact *)

\* nabd_stats, and nabd_empty, which also loads tail relaxed.
producer_stats ==
  /\ ppc = "idle"
  /\ \E v \in Pos : NABD_LOAD_RELAXED_tail(v) /\ pused' = Dist(head, v)
  /\ UNCHANGED <<shared, consumer, ppc, pret, pmsg, reserved, reserve_pos, cused, monitor>>

producer_nabd_full ==
  /\ ppc = "idle"
  /\ \E v \in Pos : NABD_LOAD_ACQUIRE_tail(v) /\ pused' = Dist(head, v)
  /\ UNCHANGED <<shared, consumer, ppc, pret, pmsg, reserved, reserve_pos, cused, monitor>>

(* The consumer: its own tail is exact *)

\* nabd_stats, and nabd_full, which also loads head relaxed.
consumer_stats ==
  /\ cpc = "idle"
  /\ \E v \in Pos : NABD_LOAD_RELAXED_head(v) /\ cused' = Dist(v, tail)
  /\ UNCHANGED <<shared, producer, cpc, cret, cbuf, peeked, delivered, pused, monitor>>

consumer_nabd_empty ==
  /\ cpc = "idle"
  /\ \E v \in Pos : NABD_LOAD_ACQUIRE_head(v) /\ cused' = Dist(v, tail)
  /\ UNCHANGED <<shared, producer, cpc, cret, cbuf, peeked, delivered, pused, monitor>>
-----------------------------------------------------------------------------
(* The monitor *)

monitor_load_head(to) ==
  /\ mpc = "idle" /\ mpc' = to
  /\ mhead' \in Between(mheadSeen, head)
  /\ mheadSeen' = mhead'
  /\ UNCHANGED <<vars, pused, cused, mtailSeen, mused, mfill>>

monitor_load_tail(v) ==
  /\ v \in Between(mtailSeen, tail)
  /\ mtailSeen' = v
  /\ mpc' = "idle" /\ mhead' = 0
  /\ UNCHANGED <<vars, pused, cused, mheadSeen>>

nabd_stats == monitor_load_head("stats")

stats_tail ==
  /\ mpc = "stats"
  /\ \E v \in Pos : monitor_load_tail(v) /\ mused' = Dist(mhead, v)
  /\ UNCHANGED mfill

nabd_get_metrics == monitor_load_head("metrics")

metrics_tail ==
  /\ mpc = "metrics"
  /\ \E v \in Pos :
       /\ monitor_load_tail(v)
       /\ mfill' = nabd_fill_level(IF mhead >= v THEN mhead - v ELSE 0)
  /\ UNCHANGED mused
-----------------------------------------------------------------------------
\* A step of the ring: what a thread knew of the fill is out of date once it has
\* moved its own counter.
RingStep ==
  /\ Next
  /\ pused' = IF head' = head THEN pused ELSE None
  /\ cused' = IF tail' = tail THEN cused ELSE None
  /\ UNCHANGED monitor

ObsNext ==
  \/ RingStep
  \/ producer_stats \/ producer_nabd_full
  \/ consumer_stats \/ consumer_nabd_empty

ObsSpec == ObsInit /\ [][ObsNext]_obsvars

MonitoredNext == ObsNext \/ nabd_stats \/ stats_tail \/ nabd_get_metrics \/ metrics_tail

MonitoredSpec == ObsInit /\ [][MonitoredNext]_obsvars
-----------------------------------------------------------------------------
(* Properties *)

\* What nabd_stats reports in the producer's thread bounds the fill from above until
\* the producer publishes, what it reports in the consumer's thread bounds it from
\* below until the consumer consumes.  So nabd_empty() = 1 tells the producer that
\* everything it sent has been consumed, and nabd_full() = 1 tells the consumer that
\* the queue is full.
UsedBounds ==
  /\ pused # None => Dist(head, tail) <= pused /\ pused <= Capacity
  /\ cused # None => cused <= Dist(head, tail)

\* nabd_fill_level is a percentage in both threads (backpressure.h: "0-100").
FillInRange ==
  /\ pused # None => nabd_fill_level(pused) \in 0 .. Percent
  /\ cused # None => nabd_fill_level(cused) \in 0 .. Percent

\* nabd_full() = 0 in the producer's thread is a promise: its next push or reserve
\* does not return NABD_FULL, however old the tail is that it loads.
RoomLasts ==
  [][pused # None /\ pused < Capacity /\ ppc \in {"push_load_tail", "reserve_load_tail"}
       => pret' # "FULL"]_obsvars

\* nabd_empty() = 0 in the consumer's thread is a promise: its next pop or peek does
\* not return NABD_EMPTY.
ItemLasts ==
  [][cused # None /\ cused > 0 /\ cpc \in {"pop_load_head", "peek_load_head"}
       => cret' # "EMPTY"]_obsvars

\* The used field of nabd_stats_t, "Slots currently in use" in a structure "for
\* monitoring" (types.h), is at most the capacity in every process.
UsedInRange == mused # None => mused <= Capacity

\* The fill_pct field of nabd_metrics_t is a percentage in every process.
MetricsFillInRange == mfill # None => mfill \in 0 .. Percent
-----------------------------------------------------------------------------
\* The inductive invariant: what a thread found is bounded by the newest value of
\* the other's counter that it has loaded, and that value only advances.
ObsInv ==
  /\ IInv
  /\ pused # None => /\ pused \in Nat /\ pused <= Capacity
                     /\ Dist(head, tailSeen) <= pused
  /\ cused # None => /\ cused \in Nat
                     /\ cused <= Dist(headSeen, tail)
============================================================================

------------------------- MODULE BackpressureProofs -------------------------
(***************************************************************************)
(* Proofs about Backpressure: its types, that retrying sends nothing twice *)
(* and stops at its limit, and that the queue underneath remains a FIFO.   *)
(***************************************************************************)
EXTENDS Backpressure, RingProofs

\* A blocking push uses the ring as its callers are asked to: each step of it is a
\* step of Ring, or leaves the ring alone.
LEMMA BPSimulates ==
  ASSUME BPInv, [BPNext]_bpvars
  PROVE  [Next]_vars
<1>1. ASSUME NEW m \in Message, nabd_push(m)
      PROVE  Next
  BY <1>1, Zenon DEF BPInv, Next, ProducerCalls
<1>2. arg \in Message
  BY Zenon DEF BPInv, BPTypeOK
<1>3. CASE ProducerStarts
  BY <1>1, <1>3, Zenon DEF ProducerStarts, nabd_push_wait, nabd_push_backoff
<1>4. CASE wait_retry \/ backoff_retry
  BY <1>1, <1>2, <1>4, Zenon DEF wait_retry, backoff_retry, Pushes
<1>5. CASE wait_first \/ wait_retried \/ backoff_tried \/ deadline_passes
  BY <1>5, Zenon DEF wait_first, wait_retried, backoff_tried, deadline_passes, Returns
<1>6. CASE push_load_tail \/ push_copy \/ push_header \/ push_publish
  BY <1>6, Zenon DEF Next, ProducerInternal
<1>7. CASE Poll
  <2>1. MaxPayload \in 0 .. MaxPayload
    BY LenAssumption
  <2> QED
    BY <1>7, <2>1, Zenon DEF BPInv, Poll, Next, ConsumerCalls, ConsumerInternal
<1>8. CASE UNCHANGED bpvars
  BY <1>8, Zenon DEF bpvars
<1> QED
  BY <1>3, <1>4, <1>5, <1>6, <1>7, <1>8, Zenon DEF BPNext, ProducerStep

\* BPInv holds before the first blocking push.
LEMMA BPInitInv == BPInit => BPInv
<1> SUFFICES ASSUME BPInit PROVE BPInv
  BY Zenon
<1>1. IInv
  BY InitInv, Zenon DEF BPInit
<1>2. BPTypeOK
  <2>1. NoBytes \in Message
    BY Zenon DEF NoBytes, Bytes, Message
  <2>2. TypeOK
    BY <1>1, Zenon DEF IInv
  <2>3. expired \in BOOLEAN
    BY Zenon DEF BPInit
  <2> QED
    BY <2>1, <2>2, <2>3, DelayAssumption DEF BPInit, BPTypeOK, Ints
<1> QED
  BY <1>1, <1>2, Zenon DEF BPInit, Init, BPInv, PublishOnce

\* Every step of the retry loops, of the nabd_push they call and of the consumer
\* keeps BPInv.
LEMMA BPNextInv == BPInv /\ [BPNext]_bpvars => BPInv'
<1> SUFFICES ASSUME BPInv, [BPNext]_bpvars PROVE BPInv'
  BY Zenon
<1>1. IInv' /\ TypeOK'
  BY BPSimulates, NextInv, Zenon DEF BPInv, IInv
<1> USE DelayAssumption
<1> USE DEF waiting, backoff, counts, shared, producer, consumer, ProducerReturns,
            ProducerGoes
<1>2. NoBytes \in Message
  BY Zenon DEF NoBytes, Bytes, Message
<1>3. ASSUME NEW m \in Message, nabd_push(m)
      PROVE  /\ ~reserved' /\ peeked' = None
             /\ \/ ppc' = "push_load_tail"
                \/ ppc' = "idle" /\ pret' = "TOOBIG"
  BY <1>3, Zenon DEF nabd_push, BPInv
<1>0. expired' \in BOOLEAN
  <2>1. expired' \in {expired, TRUE, FALSE}
    BY Zenon DEF BPNext, ProducerStarts, ProducerStep, Poll, bpvars, Returns, Pushes,
           nabd_push_wait, nabd_push_backoff, wait_first, wait_retry, wait_retried,
           backoff_retry, backoff_tried, deadline_passes
  <2> QED
    BY <2>1, Zenon DEF BPInv, BPTypeOK
<1>4. CASE ProducerStarts
  <2>1. PICK m \in Message :
          \/ \E t \in {-1, 0, 1} : nabd_push_wait(m, t)
          \/ \E max \in 0 .. MaxRetries, base \in BaseDelays :
               nabd_push_backoff(m, max, base)
    BY <1>4, Zenon DEF ProducerStarts
  <2>2. nabd_push(m)
    BY <2>1, Zenon DEF nabd_push_wait, nabd_push_backoff
  <2>3. BPTypeOK'
    BY <1>0, <1>1, <2>1 DEF BPInv, BPTypeOK, nabd_push_wait, nabd_push_backoff, Ints
  <2> QED
    BY <1>1, <1>3, <2>1, <2>2, <2>3, Zenon
       DEF BPInv, PublishOnce, nabd_push_wait, nabd_push_backoff
<1>5. CASE wait_retry \/ backoff_retry
  <2>1. nabd_push(arg) /\ arg \in Message
    BY <1>5, Zenon DEF wait_retry, backoff_retry, Pushes, BPInv, BPTypeOK
  <2>2. BPTypeOK'
    BY <1>0, <1>1, <1>5 DEF BPInv, BPTypeOK, wait_retry, backoff_retry, Pushes, min
  <2> QED
    BY <1>1, <1>3, <1>5, <2>1, <2>2, Zenon
       DEF BPInv, PublishOnce, wait_retry, backoff_retry, Pushes
<1>6. ASSUME NEW code, Returns(code), code = pret, ppc = "idle",
             call \in {"wait_first", "wait_retried", "backoff_tried"}
      PROVE  BPInv'
  <2>1. UNCHANGED vars
    BY <1>6, Zenon DEF Returns
  <2>2. BPTypeOK'
    BY <1>0, <1>1, <1>2, <1>6 DEF BPInv, BPTypeOK, Returns, Ints
  <2> QED
    BY <1>1, <1>6, <2>1, <2>2 DEF BPInv, PublishOnce, Returns, vars
<1>7. CASE wait_first
  BY <1>1, <1>6, <1>7 DEF BPInv, BPTypeOK, PublishOnce, wait_first, Returned, vars
<1>8. CASE wait_retried
  <2>1. CASE pret # "FULL" \/ TimedOut
    BY <1>6, <1>8, <2>1, Zenon DEF wait_retried, Returned
  <2>2. CASE pret = "FULL" /\ ~TimedOut
    <3>1. min(SLEEP_US * (spin_count \div MAX_SPINS), MaxSleep) \in Int
      BY DEF BPInv, BPTypeOK, min
    <3>2. sleeps' \in Nat \X Nat
      BY <1>8, <2>2, <3>1 DEF wait_retried, BPInv, BPTypeOK, Sleep
    <3>3. BPTypeOK'
      BY <1>0, <1>1, <1>8, <2>2, <3>2 DEF BPInv, BPTypeOK, wait_retried
    <3> QED
      BY <1>1, <1>8, <2>2, <3>3 DEF BPInv, PublishOnce, wait_retried, Returned, vars
  <2> QED
    BY <2>1, <2>2, Zenon
<1>9. CASE backoff_tried
  <2>1. CASE pret # "FULL" \/ (max_retries > 0 /\ retries + 1 >= max_retries)
    BY <1>6, <1>9, <2>1, Zenon DEF backoff_tried, Returned
  <2>2. CASE pret = "FULL" /\ ~(max_retries > 0 /\ retries + 1 >= max_retries)
    <3>1. sleeps' \in Nat \X Nat
      BY <1>9, <2>2 DEF backoff_tried, BPInv, BPTypeOK, Sleep, Ints
    <3>2. delay' \in Ints
      BY <1>9, <2>2 DEF backoff_tried, BPInv, BPTypeOK, Doubled, Ints, min
    <3>3. BPTypeOK'
      BY <1>0, <1>1, <1>9, <2>2, <3>1, <3>2 DEF BPInv, BPTypeOK, backoff_tried
    <3> QED
      BY <1>1, <1>9, <2>2, <3>3 DEF BPInv, PublishOnce, backoff_tried, Returned, vars
  <2> QED
    BY <2>1, <2>2, Zenon
<1>10. CASE deadline_passes
  <2>1. BPTypeOK'
    BY <1>0, <1>1, <1>10, Zenon DEF BPInv, BPTypeOK, deadline_passes
  <2> QED
    BY <1>1, <1>10, <2>1, Zenon DEF BPInv, PublishOnce, deadline_passes, vars
<1>11. CASE /\ push_load_tail \/ push_copy \/ push_header
            /\ UNCHANGED <<call, bret, arg, waiting, backoff, sleeps, counts>>
  <2>1. BPTypeOK'
    BY <1>0, <1>1, <1>11, Zenon DEF BPInv, BPTypeOK
  <2> QED
    BY <1>1, <1>11, <2>1 DEF BPInv, PublishOnce, push_load_tail, push_copy, push_header
<1>12. CASE /\ push_publish
            /\ published' = published + 1
            /\ UNCHANGED <<call, bret, arg, waiting, backoff, sleeps, attempts>>
  <2>1. published = 0
    BY <1>12, Zenon DEF BPInv, push_publish
  <2>2. BPTypeOK'
    BY <1>0, <1>1, <1>12, <2>1, SMTT(30) DEF BPInv, BPTypeOK
  <2> QED
    BY <1>1, <1>12, <2>1, <2>2 DEF BPInv, PublishOnce, push_publish
<1>13. CASE Poll
  <2>1. BPTypeOK'
    BY <1>0, <1>1, <1>13, Zenon DEF BPInv, BPTypeOK, Poll
  <2> QED
    BY <1>1, <1>13, <2>1, SMTT(30)
       DEF BPInv, PublishOnce, Poll, nabd_pop, pop_load_head, pop_length, pop_copy,
           pop_advance, ConsumerReturns, ConsumerGoes
<1>14. CASE UNCHANGED bpvars
  BY <1>1, <1>14 DEF BPInv, BPTypeOK, PublishOnce, bpvars, vars
<1> QED
  BY <1>4, <1>5, <1>7, <1>8, <1>9, <1>10, <1>11, <1>12, <1>13, <1>14, Zenon
     DEF BPNext, ProducerStep

\* The inductive invariant of the blocking pushes holds.
THEOREM BPInvariant == BPSpec => []BPInv
  BY BPInitInv, BPNextInv, PTL DEF BPSpec

\* Type correctness: the spins, the retries, the delay and the count of what a
\* blocking push has published stay in their ranges.
THEOREM BPTypeCorrect == BPSpec => []BPTypeOK
<1>1. BPInv => BPTypeOK
  BY Zenon DEF BPInv
<1> QED
  BY <1>1, BPInvariant, PTL

\* nabd_push_wait and nabd_push_backoff publish their message once if they return
\* NABD_OK and never otherwise, whatever the sizes, the timeout and the retries.
THEOREM PublishesOnce == BPSpec => []PublishOnce
<1>1. BPInv => PublishOnce
  BY SMTT(30) DEF BPInv
<1> QED
  BY <1>1, BPInvariant, PTL

\* The doubling of delay keeps it positive and, once capped, below the cap, if it
\* does not overflow.
LEMMA DelayNext ==
  ASSUME SmallDelays, DelayInv, [BPNext]_bpvars
  PROVE  DelayInv'
<1>1. BPInv'
  BY BPNextInv, Zenon DEF DelayInv
<1> USE DelayAssumption
<1> USE DEF waiting, backoff, counts, DelayInv, CappedSleeps
<1>2. delay \in Int /\ attempts \in Nat /\ sleeps \in Nat \X Nat
  BY SMTT(30) DEF BPInv, BPTypeOK, Ints
<1>3. CASE ProducerStarts
  <2>1. call' \in {"wait_first", "backoff_tried"} /\ attempts' = 1
    BY <1>3, Zenon DEF ProducerStarts, nabd_push_wait, nabd_push_backoff
  <2>2. CASE UNCHANGED delay
    BY <1>1, <2>1, <2>2
  <2>3. CASE \E base \in BaseDelays : delay' = IF base > 0 THEN base ELSE 1
    BY <1>1, <2>1, <2>3 DEF SmallDelays, Ints
  <2> QED
    BY <1>3, <2>2, <2>3, SMTT(30) DEF ProducerStarts, nabd_push_wait, nabd_push_backoff
<1>4. CASE wait_retry \/ backoff_retry
  BY <1>1, <1>2, <1>4, SMTT(30) DEF wait_retry, backoff_retry, Pushes, min
<1>5. CASE wait_first \/ wait_retried \/ deadline_passes
  BY <1>1, <1>2, <1>5 DEF wait_first, wait_retried, deadline_passes, Returned, Returns
<1>6. CASE backoff_tried
  <2>1. CASE call' = "none"
    BY <1>1, <1>6, <2>1 DEF backoff_tried, Returns
  <2>2. CASE call' # "none"
    <3>1. 2 * delay \in Ints
      BY <1>2 DEF SmallDelays, Ints
    <3>2. delay' = min(2 * delay, MAX_DELAY) /\ call' = "backoff_loop"
      BY <1>6, <2>2, <3>1, Zenon DEF backoff_tried, Returns, Doubled
    <3>3. sleeps' = <<sleeps[2], delay>> /\ UNCHANGED attempts
      BY <1>2, <1>6, <2>2, Zenon DEF backoff_tried, Returns, Sleep
    <3>4. attempts >= 2 => delay <= MAX_DELAY
      BY <1>6, Zenon DEF backoff_tried, Returned
    <3> QED
      BY <1>1, <1>2, <3>1, <3>2, <3>3, <3>4 DEF SmallDelays, min
  <2> QED
    BY <2>1, <2>2, Zenon
<1>7. CASE UNCHANGED <<call, bret, arg, waiting, backoff, sleeps, attempts>>
  BY <1>1, <1>7, Zenon
<1> QED
  BY <1>3, <1>4, <1>5, <1>6, <1>7, Zenon DEF BPNext, ProducerStep, Poll, bpvars

\* nabd_push_backoff sleeps a positive time before each retry, and at most its cap
\* from the second retry on, if no caller's delay is so large that doubling it
\* overflows an int.
THEOREM SleepsCapped == SmallDelays => (BPSpec => []CappedSleeps)
<1> SUFFICES ASSUME SmallDelays PROVE BPSpec => []CappedSleeps
  BY Zenon
<1>1. BPInit => DelayInv
  BY BPInitInv DEF BPInit, DelayInv, CappedSleeps
<1>2. DelayInv /\ [BPNext]_bpvars => DelayInv'
  BY DelayNext, Zenon
<1>3. DelayInv => CappedSleeps
  BY Zenon DEF DelayInv
<1> QED
  BY <1>1, <1>2, <1>3, PTL DEF BPSpec

\* Each attempt of a limited nabd_push_backoff is counted once, and the loop is left
\* when they are used up.
LEMMA AttemptNext == AttemptInv /\ [BPNext]_bpvars => AttemptInv'
<1> SUFFICES ASSUME AttemptInv, [BPNext]_bpvars PROVE AttemptInv'
  BY Zenon
<1>1. BPInv'
  BY BPNextInv, Zenon DEF AttemptInv
<1> USE DelayAssumption
<1> USE DEF waiting, backoff, counts, AttemptInv
<1>2. max_retries \in 0 .. MaxRetries /\ retries \in 0 .. MaxRetries /\ attempts \in Nat
  BY SMTT(30) DEF BPInv, BPTypeOK
<1>3. CASE ProducerStarts
  <2>1. \/ call' = "wait_first"
        \/ call' = "backoff_tried" /\ attempts' = 1 /\ retries' = 0
    BY <1>3, Zenon DEF ProducerStarts, nabd_push_wait, nabd_push_backoff
  <2>2. max_retries' \in Nat
    BY <1>1, SMTT(30) DEF BPInv, BPTypeOK
  <2> QED
    BY <1>1, <2>1, <2>2
<1>4. CASE backoff_retry
  <2>1. /\ call = "backoff_loop" /\ call' = "backoff_tried"
        /\ attempts' = min(attempts + 1, MaxRetries + 1) /\ UNCHANGED backoff
    BY <1>4, Zenon DEF backoff_retry, Pushes
  <2> QED
    BY <1>1, <1>2, <2>1 DEF min
<1>5. CASE backoff_tried
  <2>1. CASE call' = "none"
    BY <1>1, <2>1
  <2>2. CASE call' # "none"
    <3>1. /\ call = "backoff_tried" /\ call' = "backoff_loop"
          /\ ~(max_retries > 0 /\ retries + 1 >= max_retries)
          /\ retries' = IF max_retries > 0 THEN retries + 1 ELSE 0
          /\ UNCHANGED <<max_retries, attempts>>
      BY <1>5, <2>2, Zenon DEF backoff_tried, Returned, Returns
    <3> QED
      BY <1>1, <1>2, <3>1
  <2> QED
    BY <2>1, <2>2, Zenon
<1>6. CASE call' \in {"none", "wait_first", "wait_loop", "wait_retried"}
  BY <1>1, <1>6
<1>7. CASE UNCHANGED <<call, backoff, attempts>>
  BY <1>1, <1>7, Zenon
<1>8. ASSUME \/ wait_first \/ wait_retry \/ wait_retried
      PROVE  call' \in {"none", "wait_first", "wait_loop", "wait_retried"}
  BY <1>8, Zenon DEF wait_first, wait_retry, wait_retried, Pushes, Returns
<1> QED
  BY <1>3, <1>4, <1>5, <1>6, <1>7, <1>8, Zenon
     DEF BPNext, ProducerStep, Poll, deadline_passes, bpvars

\* nabd_push_backoff retries at most max_retries times and returns NABD_FULL only if it
\* has a limit and has made as many attempts, for any limit and any base delay.
THEOREM RetriesCounted == BPSpec => RetriesLimited
<1>1. BPInit => AttemptInv
  BY BPInitInv, Zenon DEF BPInit, AttemptInv
<1>2. ASSUME AttemptInv, [BPNext]_bpvars,
             call = "backoff_tried", call' = "none", bret' = "FULL"
      PROVE  max_retries > 0 /\ attempts >= max_retries
  <2>1. backoff_tried
    BY <1>2, Zenon DEF BPNext, ProducerStarts, ProducerStep, Poll, deadline_passes, bpvars,
       nabd_push_wait, nabd_push_backoff, wait_first, wait_retry, wait_retried,
       backoff_retry, Pushes, Returned
  <2>2. max_retries > 0 /\ retries + 1 >= max_retries
    BY <1>2, <2>1, Zenon DEF backoff_tried, Returns
  <2>3. max_retries \in Nat /\ retries \in Nat
    BY <1>2, DelayAssumption, SMTT(30) DEF AttemptInv, BPInv, BPTypeOK
  <2> QED
    BY <1>2, <2>2, <2>3 DEF AttemptInv
<1>3. AttemptInv => (call = "backoff_loop" /\ max_retries > 0 => attempts - 1 < max_retries)
  BY DelayAssumption, SMTT(30) DEF AttemptInv, BPInv, BPTypeOK
<1>4. AttemptInv /\ [BPNext]_bpvars =>
        [/\ call = "backoff_loop" /\ max_retries > 0 => attempts - 1 < max_retries
         /\ call = "backoff_tried" /\ call' = "none" /\ bret' = "FULL"
              => max_retries > 0 /\ attempts >= max_retries]_bpvars
  BY <1>2, <1>3, Zenon
<1> QED
  BY <1>1, <1>4, AttemptNext, PTL DEF BPSpec, RetriesLimited

\* The queue stays a bounded first-in first-out queue when it is fed by
\* nabd_push_wait and nabd_push_backoff, however often they retry.
THEOREM BlockingFifo == MaxPayload < LenMod => (BPSpec => IsFifo)
<1> SUFFICES ASSUME MaxPayload < LenMod PROVE BPSpec => IsFifo
  BY Zenon
<1>1. BPInit => Init
  BY Zenon DEF BPInit
<1>2. BPInv /\ [BPNext]_bpvars => [Next]_vars
  BY BPSimulates, Zenon
<1>3. BPSpec => Spec
  BY <1>1, <1>2, BPInvariant, PTL DEF BPSpec, Spec
<1> QED
  BY <1>3, Refinement, PTL
=============================================================================

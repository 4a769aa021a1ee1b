---------------------------- MODULE Backpressure ----------------------------
(***************************************************************************)
(* The blocking pushes of src/src/backpressure.c: retry loops of the       *)
(* producer's thread around the nabd_push of Ring, while a consumer polls  *)
(* the queue with nabd_pop.                                                *)
(*                                                                         *)
(* Time is the one question the code asks of the clock: whether the        *)
(* deadline of the call has passed.  A sleep is the amount the code asks   *)
(* for; how long the thread is away is up to the scheduler.                *)
(***************************************************************************)
EXTENDS Ring

CONSTANTS MAX_SPINS,   \* 100 in the code
          SLEEP_US,    \* 10
          MaxSleep,    \* 1000
          MAX_DELAY,   \* 100000
          INT_MAX,     \* the largest int
          MaxRetries,  \* bound: the largest max_retries of a caller
          BaseDelays   \* the base_delay_us of the callers

Ints == -(INT_MAX + 1) .. INT_MAX

ASSUME DelayAssumption ==
  /\ {MAX_SPINS, SLEEP_US, MaxSleep, MAX_DELAY} \subseteq Nat \ {0}
  /\ INT_MAX \in Nat /\ MAX_DELAY <= INT_MAX
  /\ MaxRetries \in Nat
  /\ BaseDelays \subseteq Ints

VARIABLES
  call,        \* where the thread is in a blocking push, "none" outside
  bret,        \* what the last blocking push returned
  arg,         \* its message
  timeout,     \* the sign of timeout_us: 0, 1 or -1 (infinite)
  expired,     \* get_time_us() >= deadline
  spin_count,
  max_retries, retries, delay,
  sleeps,      \* the last two sleeps of the call, 0 for none
  attempts,    \* how often the call has called nabd_push, up to MaxRetries + 1
  published    \* how many messages it has published

waiting == <<timeout, expired, spin_count>>
backoff == <<max_retries, retries, delay>>
counts  == <<attempts, published>>
bpvars  == <<vars, call, bret, arg, waiting, backoff, sleeps, counts>>

BPInit ==
  /\ Init
  /\ call = "none" /\ bret = "NONE" /\ arg = NoBytes
  /\ timeout = 0 /\ expired = FALSE /\ spin_count = 0
  /\ max_retries = 0 /\ retries = 0 /\ delay = 1
  /\ sleeps = <<0, 0>> /\ attempts = 0 /\ published = 0

min(a, b) == IF a <= b THEN a ELSE b

\* The call ends; its locals are gone.
Returns(code) ==
  /\ call' = "none" /\ bret' = code /\ arg' = NoBytes
  /\ timeout' = 0 /\ expired' = FALSE /\ spin_count' = 0
  /\ max_retries' = 0 /\ retries' = 0 /\ delay' = 1
  /\ sleeps' = <<0, 0>>
  /\ UNCHANGED <<vars, counts>>

\* The call calls nabd_push.
Pushes(m, from, to) ==
  /\ call = from /\ call' = to
  /\ nabd_push(m)
  /\ attempts' = min(attempts + 1, MaxRetries + 1)

\* The nabd_push made at the given point of the call has returned.
Returned(at) == call = at /\ ppc = "idle"

\* sleep_us returns at once if there is nothing to sleep.
Sleep(us) == sleeps' = <<sleeps[2], IF us > 0 THEN us ELSE 0>>
-----------------------------------------------------------------------------
(* nabd_push_wait *)

nabd_push_wait(m, t) ==
  /\ call = "none" /\ call' = "wait_first" /\ ppc = "idle"
  /\ nabd_push(m)
  /\ bret' = "NONE" /\ arg' = m /\ timeout' = t
  /\ attempts' = 1 /\ published' = 0
  /\ UNCHANGED <<expired, spin_count, backoff, sleeps>>

\* Mutant of wait_first: the result of the first push is not looked at.
wait_first_unchecked ==
  /\ Returned("wait_first")
  /\ IF timeout = 0 THEN Returns("FULL")
     ELSE /\ call' = "wait_loop"
          /\ UNCHANGED <<vars, bret, arg, waiting, backoff, sleeps, counts>>

wait_first ==
  /\ Returned("wait_first")
  /\ \/ pret # "FULL" /\ Returns(pret)
     \/ pret = "FULL" /\ timeout = 0 /\ Returns("FULL")
     \/ /\ pret = "FULL" /\ timeout # 0
        /\ call' = "wait_loop"
        /\ UNCHANGED <<vars, bret, arg, waiting, backoff, sleeps, counts>>

\* Mutant of wait_retry: no push any more after the spinning is over.
wait_retry_spinning ==
  /\ spin_count < MAX_SPINS
  /\ Pushes(arg, "wait_loop", "wait_retried")
  /\ UNCHANGED <<bret, arg, waiting, backoff, sleeps, published>>

wait_retry ==
  /\ Pushes(arg, "wait_loop", "wait_retried")
  /\ UNCHANGED <<bret, arg, waiting, backoff, sleeps, published>>

\* Mutant of TimedOut: the deadline is checked while spinning only.
TimedOutSpinning == timeout > 0 /\ expired /\ spin_count < MAX_SPINS

TimedOut == timeout > 0 /\ expired

\* Mutant of wait_retried: the sleeping goes on counting.
wait_retried_counting ==
  /\ Returned("wait_retried")
  /\ \/ pret # "FULL" /\ Returns(pret)
     \/ pret = "FULL" /\ TimedOut /\ Returns("FULL")
     \/ /\ pret = "FULL" /\ ~TimedOut
        /\ call' = "wait_loop"
        /\ \/ /\ spin_count < MAX_SPINS
              /\ spin_count' = spin_count + 1
              /\ UNCHANGED sleeps
           \/ /\ spin_count >= MAX_SPINS
              /\ Sleep(min(SLEEP_US * (spin_count \div MAX_SPINS), MaxSleep))
              /\ spin_count' = spin_count + 1
        /\ UNCHANGED <<vars, bret, arg, timeout, expired, backoff, counts>>

wait_retried ==
  /\ Returned("wait_retried")
  /\ \/ pret # "FULL" /\ Returns(pret)
     \/ pret = "FULL" /\ TimedOut /\ Returns("FULL")
     \/ /\ pret = "FULL" /\ ~TimedOut
        /\ call' = "wait_loop"
        /\ \/ /\ spin_count < MAX_SPINS
              /\ spin_count' = spin_count + 1
              /\ UNCHANGED sleeps
           \/ /\ spin_count >= MAX_SPINS
              /\ Sleep(min(SLEEP_US * (spin_count \div MAX_SPINS), MaxSleep))
              /\ UNCHANGED spin_count
        /\ UNCHANGED <<vars, bret, arg, timeout, expired, backoff, counts>>

\* The deadline is set when the first push has failed.
deadline_passes ==
  /\ call \in {"wait_loop", "wait_retried"} /\ timeout > 0 /\ ~expired
  /\ expired' = TRUE
  /\ UNCHANGED <<vars, call, bret, arg, timeout, spin_count, backoff, sleeps, counts>>
-----------------------------------------------------------------------------
(* nabd_push_backoff *)

\* Mutant of nabd_push_backoff: a base delay of zero is kept.
nabd_push_backoff_zero_delay(m, max, base) ==
  /\ call = "none" /\ call' = "backoff_tried" /\ ppc = "idle"
  /\ nabd_push(m)
  /\ bret' = "NONE" /\ arg' = m
  /\ max_retries' = max /\ retries' = 0
  /\ delay' = base
  /\ attempts' = 1 /\ published' = 0
  /\ UNCHANGED <<waiting, sleeps>>

nabd_push_backoff(m, max, base) ==
  /\ call = "none" /\ call' = "backoff_tried" /\ ppc = "idle"
  /\ nabd_push(m)
  /\ bret' = "NONE" /\ arg' = m
  /\ max_retries' = max /\ retries' = 0
  /\ delay' = IF base > 0 THEN base ELSE 1
  /\ attempts' = 1 /\ published' = 0
  /\ UNCHANGED <<waiting, sleeps>>

backoff_retry ==
  /\ Pushes(arg, "backoff_loop", "backoff_tried")
  /\ UNCHANGED <<bret, arg, waiting, backoff, sleeps, published>>

\* delay *= 2 on an int, undefined if it overflows.
Doubled(d) == IF 2 * d \in Ints THEN {2 * d} ELSE Ints

\* Mutant of backoff_tried: the counter is compared before it counts the attempt, and
\* has to exceed the limit.
backoff_tried_late ==
  /\ Returned("backoff_tried")
  /\ \/ pret # "FULL" /\ Returns(pret)
     \/ pret = "FULL" /\ max_retries > 0 /\ retries > max_retries /\ Returns("FULL")
     \/ /\ pret = "FULL" /\ ~(max_retries > 0 /\ retries > max_retries)
        /\ retries' = IF max_retries > 0 THEN retries + 1 ELSE 0
        /\ call' = "backoff_loop"
        /\ Sleep(delay)
        /\ \E d \in Doubled(delay) : delay' = min(d, MAX_DELAY)
        /\ UNCHANGED <<vars, bret, arg, waiting, max_retries, counts>>

\* retries counts up without a limit if max_retries is not positive, and is not
\* read then.
backoff_tried ==
  /\ Returned("backoff_tried")
  /\ \/ pret # "FULL" /\ Returns(pret)
     \/ pret = "FULL" /\ max_retries > 0 /\ retries + 1 >= max_retries /\ Returns("FULL")
     \/ /\ pret = "FULL" /\ ~(max_retries > 0 /\ retries + 1 >= max_retries)
        /\ retries' = IF max_retries > 0 THEN retries + 1 ELSE 0
        /\ call' = "backoff_loop"
        /\ Sleep(delay)
        /\ \E d \in Doubled(delay) : delay' = min(d, MAX_DELAY)
        /\ UNCHANGED <<vars, bret, arg, waiting, max_retries, counts>>
-----------------------------------------------------------------------------
(***************************************************************************)
(* The processes.  The producer's caller uses blocking pushes only.  The   *)
(* consumer polls, as examples/simple_consumer.c does, with a buffer for   *)
(* the largest message: with a smaller one, nabd_pop may return            *)
(* NABD_TOOBIG for ever and nothing is consumed.                           *)
(***************************************************************************)
ProducerStep ==
  \/ /\ push_load_tail \/ push_copy \/ push_header
     /\ UNCHANGED <<call, bret, arg, waiting, backoff, sleeps, counts>>
  \/ /\ push_publish
     /\ published' = published + 1
     /\ UNCHANGED <<call, bret, arg, waiting, backoff, sleeps, attempts>>
  \/ wait_first \/ wait_retry \/ wait_retried
  \/ backoff_tried \/ backoff_retry

ProducerStarts ==
  \E m \in Message :
    \/ \E t \in {-1, 0, 1} : nabd_push_wait(m, t)
    \/ \E max \in 0 .. MaxRetries, base \in BaseDelays : nabd_push_backoff(m, max, base)

Poll ==
  /\ \/ nabd_pop \/ pop_load_head \/ pop_length(MaxPayload) \/ pop_copy \/ pop_advance
  /\ UNCHANGED <<call, bret, arg, waiting, backoff, sleeps, counts>>

BPNext == ProducerStarts \/ ProducerStep \/ deadline_passes \/ Poll

BPSpec == BPInit /\ [][BPNext]_bpvars

(***************************************************************************)
(* Fairness.  The scheduler runs each process again and again, and the     *)
(* clock advances.  A store becomes visible within finite time (the C      *)
(* standard asks it of implementations): a thread that keeps loading a     *)
(* counter will at some time load its newest value.                        *)
(***************************************************************************)
FreshTail == ProducerStep /\ push_load_tail /\ tailSeen' = tail

FreshHead == Poll /\ pop_load_head /\ headSeen' = head

FairProducer ==
  /\ WF_bpvars(ProducerStep) /\ WF_bpvars(deadline_passes)
  /\ SF_bpvars(FreshTail)

FairConsumer == WF_bpvars(Poll) /\ SF_bpvars(FreshHead)

\* The consumer may stop polling at any time.
FairSpec == BPSpec /\ FairProducer
-----------------------------------------------------------------------------
(* Properties *)

\* Type invariant.
BPTypeOK ==
  /\ TypeOK
  /\ call \in {"none", "wait_first", "wait_loop", "wait_retried",
               "backoff_loop", "backoff_tried"}
  /\ bret \in {"NONE", "OK", "FULL", "TOOBIG"}
  /\ arg \in Message
  /\ timeout \in {-1, 0, 1} /\ expired \in BOOLEAN /\ spin_count \in 0 .. MAX_SPINS
  /\ max_retries \in 0 .. MaxRetries /\ retries \in 0 .. MaxRetries
  /\ delay \in Ints
  /\ sleeps \in Nat \X Nat
  /\ attempts \in 0 .. MaxRetries + 1
  /\ published \in 0 .. 1

\* Retrying never sends a message twice: a blocking push that returns NABD_OK has
\* published exactly one message, one that returns anything else has published
\* none, and none is published while the call is still going to retry.
PublishOnce ==
  /\ call = "none" => published = (IF bret = "OK" THEN 1 ELSE 0)
  /\ call \in {"wait_loop", "backoff_loop"} => published = 0

\* nabd_push_backoff sleeps before each retry, and from the second one on at most
\* its cap (backpressure.c:134, "Cap at 100ms"; line 147, "Sleep with exponential
\* backoff").
CappedSleeps ==
  call = "backoff_loop" => /\ sleeps[2] > 0
                           /\ attempts >= 2 => sleeps[2] <= MAX_DELAY

\* nabd_push_backoff never retries more often than its limit says (backpressure.h:82,
\* "Maximum retry attempts (0 = infinite)"): when it is about to retry, the retries so
\* far, its attempts but the first, are fewer.  It gives up only if it has a limit, and
\* not before it has made as many attempts.  That it makes all the retries is
\* AllRetriesMade.
RetriesLimited ==
  [][/\ call = "backoff_loop" /\ max_retries > 0 => attempts - 1 < max_retries
     /\ call = "backoff_tried" /\ call' = "none" /\ bret' = "FULL"
          => max_retries > 0 /\ attempts >= max_retries]_bpvars

\* A blocking push with a timeout or a limit on its retries returns, whether or
\* not anything is ever consumed.
BoundedReturns ==
  \/ call \in {"wait_first", "wait_loop", "wait_retried"} /\ timeout >= 0
  \/ call \in {"backoff_tried", "backoff_loop"} /\ max_retries > 0
  ~> call = "none"

\* While the consumer keeps polling, every blocking push returns, also one without
\* a timeout or without a limit on its retries.
AlwaysReturns == FairConsumer => (call # "none" ~> call = "none")

\* While the consumer keeps polling, everything published is consumed: tail gets
\* to wherever head was.
AllConsumed == FairConsumer => \A p \in Pos : head = p ~> tail = p

\* The sleeps of nabd_push_wait grow up to their cap (the comment in its loop:
\* "Sleep with exponential backoff, capped at 1ms").
SleepGrows ==
  call \in {"wait_loop", "wait_retried"} /\ sleeps[1] # 0
    => sleeps[2] > sleeps[1] \/ sleeps[2] = MaxSleep

\* nabd_push_backoff gives up when it has retried max_retries times after its first
\* attempt (backpressure.h: "Maximum retry attempts", "NABD_FULL if max retries
\* exceeded").  The code counts the first attempt as a retry.
AllRetriesMade ==
  [][call = "backoff_tried" /\ call' = "none" /\ bret' = "FULL"
       => attempts = max_retries + 1]_bpvars
-----------------------------------------------------------------------------
(* The inductive invariants of the proofs *)

\* Between the calls of nabd_push nothing is
\* reserved or half sent, while one is running nothing is published yet, and when
\* one has returned it has published a message if and only if it returned NABD_OK.
BPInv ==
  /\ IInv
  /\ BPTypeOK
  /\ ~reserved /\ peeked = None
  /\ ppc \in {"idle", "push_load_tail", "push_copy", "push_header", "push_publish"}
  /\ ppc # "idle" => call \in {"wait_first", "wait_retried", "backoff_tried"}
  /\ call \in {"wait_first", "wait_retried", "backoff_tried"} =>
       \/ ppc # "idle" /\ published = 0
       \/ /\ ppc = "idle" /\ pret \in {"OK", "FULL", "TOOBIG"}
          /\ published = IF pret = "OK" THEN 1 ELSE 0
  /\ PublishOnce

\* Doubling a delay of the callers or the cap of the delays does not overflow.
SmallDelays ==
  /\ 2 * MAX_DELAY <= INT_MAX
  /\ \A base \in BaseDelays : 2 * base <= INT_MAX

\* With such delays: the next sleep of nabd_push_backoff is positive, can be doubled,
\* and is capped once the first retry is over.
DelayInv ==
  /\ BPInv
  /\ delay > 0 /\ (delay = 1 \/ 2 * delay <= INT_MAX)
  /\ call = "backoff_loop" => delay <= MAX_DELAY
  /\ call = "backoff_tried" /\ attempts >= 2 => delay <= MAX_DELAY
  /\ CappedSleeps

\* The attempts of a limited nabd_push_backoff are its retries and the first one, and
\* it has not used them up while it goes on.
AttemptInv ==
  /\ BPInv
  /\ call = "backoff_tried" /\ max_retries > 0 =>
       attempts = retries + 1 /\ retries < max_retries
  /\ call = "backoff_loop" /\ max_retries > 0 =>
       attempts = retries /\ retries < max_retries
=============================================================================

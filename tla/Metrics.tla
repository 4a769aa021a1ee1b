------------------------------ MODULE Metrics -------------------------------
(***************************************************************************)
(* The rate between two snapshots of a queue (src/src/metrics.c:61-91), on *)
(* machine words.  The counters of a queue and the clock are words; the    *)
(* values they have at the first snapshot are enumerated by the counter    *)
(* input.                                                                  *)
(***************************************************************************)
EXTENDS Integers

CONSTANTS Words,    \* 2 ^ 64 in the code, the number of values of a word
          Second,   \* 1000000000, the nanoseconds of a second
          Moves     \* bound: the moves of a counter between two snapshots

ASSUME MetricsAssumption ==
  /\ Words \in Nat \ {0} /\ Second \in Nat \ {0}
  /\ Moves \in Nat \ {0} /\ 2 * Moves <= Words

VARIABLE input

Word == 0 .. Words - 1

nabd_take_snapshot(now, head, tail) ==
  [timestamp_ns |-> now, head |-> head, tail |-> tail, pushed |-> head, popped |-> tail]

\* Mutant of nabd_calc_throughput: the differences are not unsigned ones.
calc_throughput_signed(prev, curr) ==
  LET time_diff == (curr.timestamp_ns - prev.timestamp_ns) % Words
      msg_diff  == (curr.pushed - prev.pushed) + (curr.popped - prev.popped)
  IN IF time_diff = 0 THEN 0 ELSE (msg_diff * Second) \div time_diff

nabd_calc_throughput(prev, curr) ==
  LET time_diff == (curr.timestamp_ns - prev.timestamp_ns) % Words
      msg_diff  == ((curr.pushed - prev.pushed) + (curr.popped - prev.popped)) % Words
  IN IF time_diff = 0 THEN 0 ELSE ((msg_diff * Second) % Words) \div time_diff

WordsInit == input = 0

WordsNext == input' = (input + 1) % Words

WordsSpec == WordsInit /\ [][WordsNext]_input
-----------------------------------------------------------------------------
(* Properties *)

\* What is compared: a snapshot of a queue that holds used messages, at time now and
\* with the counter of pushes at n, and one taken after the given moves.  The counters
\* are loaded one after the other and without ordering, so that any number of pushes
\* goes with any number of pops.
Before(now, n, used) == nabd_take_snapshot(now, n, (n - used) % Words)

After(now, n, used, pushes, pops) ==
  nabd_take_snapshot(now, (n + pushes) % Words, (n - used + pops) % Words)

Rate(now, time, n, used, pushes, pops) ==
  nabd_calc_throughput(Before(now, n, used), After(now + time, n, used, pushes, pops))

\* The rate that nabd_calc_throughput returns depends on what happened between the two
\* snapshots only: it is the same for a new queue, whose tail is 0, and for one of which
\* the counters are anywhere, also if one of them has wrapped in between.  And it is the
\* messages per second (metrics.h:96) if they were only pushed or only popped, and their
\* number times the nanoseconds of a second fits a word.
RateAcrossWrap ==
  \A used, pushes, pops \in 0 .. Moves, time \in 1 .. Moves :
    /\ Rate(input \div 2, time, input, used, pushes, pops)
         = Rate(0, time, used, used, pushes, pops)
    /\ (pushes = 0 \/ pops = 0) /\ (pushes + pops) * Second < Words =>
         Rate(input \div 2, time, input, used, pushes, pops)
           = ((pushes + pops) * Second) \div time

\* The throughput is the messages per second (metrics.h:96) if each message was pushed
\* and popped between the snapshots.  The code counts it twice.
MessagesPerSecond ==
  \A messages \in 0 .. Moves, time \in 1 .. Moves :
    2 * messages * Second < Words =>
      Rate(input \div 2, time, input, 0, messages, messages) = (messages * Second) \div time

\* A snapshot has the messages pushed and popped since the last one (metrics.h:65-66).
\* The code stores the counters, which count from the creation of the queue.
SinceLastSnapshot ==
  \A used, pushes, pops \in 0 .. Moves :
    LET curr == After(input \div 2, input, used, pushes, pops)
    IN curr.pushed = pushes /\ curr.popped = pops
=============================================================================

-------------------------------- MODULE Ring --------------------------------
(***************************************************************************)
(* The ring buffer of NABD (src/src/nabd.c): one producer thread and one   *)
(* consumer thread, usually of two processes, share a control block with   *)
(* the atomic counters head and tail, and an array of slots.               *)
(*                                                                         *)
(* Granularity.  A step touches shared memory once: a load of the other    *)
(* side's counter, the copy of a payload, the write or read of a slot      *)
(* header, the store of a counter.  A thread's load of the counter that it *)
(* alone stores has no step of its own, because no step of the other       *)
(* thread can come between it and its use.                                 *)
(*                                                                         *)
(* Memory model.  A load of the other side's counter may return any value  *)
(* between the newest one the thread has already seen and the newest one   *)
(* stored (C11 coherence).  If the load is an acquire load the thread also *)
(* synchronises with the release store that wrote the value: everything    *)
(* the other thread did before that store happens before what this thread  *)
(* does next.  A slot access that is not ordered in this way is a data     *)
(* race and reads anything.                                                *)
(*                                                                         *)
(* Counters are unsigned and wrap at IndexMod (2^64 in the code), a slot's *)
(* length field wraps at LenMod (2^16).  The flags and sequence fields of  *)
(* the slot header are written and never read, and are left out.           *)
(***************************************************************************)
EXTENDS Integers, Sequences

CONSTANTS Capacity,    \* number of slots
          IndexMod,    \* number of values of head and tail
          LenMod,      \* number of values of a slot's length field
          MaxPayload,  \* slot_size - sizeof(nabd_slot_header_t)
          MaxLen,      \* bound: the longest message a caller tries to send
          Data,        \* message contents
          None         \* no content, no message, no position

ASSUME CapacityAssumption == Capacity \in Nat \ {0}

\* Both are powers of two in the code.
ASSUME IndexAssumption ==
  /\ IndexMod \in Nat
  /\ Capacity < IndexMod
  /\ IndexMod % Capacity = 0

ASSUME LenAssumption ==
  /\ LenMod \in Nat \ {0}
  /\ MaxPayload \in Nat
  /\ MaxLen \in Nat

ASSUME NoneAssumption ==
  /\ None \notin Data
  /\ None \notin Nat
  /\ None \notin [data : Data \cup {None}, len : Nat]

VARIABLES
  head, tail,          \* the counters, newest value stored
  payload, length,     \* the slots: content and length field of each
  (* producer thread *)
  ppc,                 \* where it is in a call, "idle" between calls
  pret,                \* what its last call returned
  pmsg,                \* the message it is sending, cleared once it is sent
  reserved,            \* nabd_t.reserved
  reserve_pos,         \* nabd_t.reserve_pos
  tailSeen,            \* newest value of tail it has loaded
  tailSync,            \* newest value of tail it has synchronised with
  (* consumer thread *)
  cpc, cret,
  cbuf,                \* what it has copied or read of a message not yet consumed
  peeked,              \* the position nabd_peek gave it a pointer to, or None
  headSeen, headSync,
  delivered            \* the message its last nabd_pop or nabd_release consumed

shared   == <<head, tail, payload, length>>
producer == <<ppc, pret, pmsg, reserved, reserve_pos, tailSeen, tailSync>>
consumer == <<cpc, cret, cbuf, peeked, headSeen, headSync, delivered>>
vars     == <<shared, producer, consumer>>
-----------------------------------------------------------------------------
(* Counters and slots *)

Pos == 0 .. IndexMod - 1

\* Mutant of Inc: an increment that does not wrap.
IncUnbounded(p) == p + 1

\* p + 1 and a - b on uint64_t.
Inc(p) == IF p = IndexMod - 1 THEN 0 ELSE p + 1

Dist(a, b) == IF b <= a THEN a - b ELSE a - b + IndexMod

\* The k-th position after p.
Plus(p, k) == IF p + k < IndexMod THEN p + k ELSE p + k - IndexMod

\* The values a counter took while it went from a to b.
Between(a, b) == {p \in Pos : Dist(p, a) <= Dist(b, a)}

Slot == 0 .. Capacity - 1

\* Mutant of get_slot: a mask that is one too small.
SlotOfShortMask(p) == IF Capacity = 1 THEN 0 ELSE p % (Capacity - 1)

get_slot(p) == p % Capacity

\* A message of length zero has no content.
Message == [data : Data, len : 1 .. MaxLen] \cup {[data |-> None, len |-> 0]}

\* What len bytes of content d amount to.
Bytes(d, len) == [data |-> IF len = 0 THEN None ELSE d, len |-> len]

NoBytes == Bytes(None, 0)

\* The message a consumer finds at position p.
MessageAt(p) == Bytes(payload[get_slot(p)], length[get_slot(p)])

\* The published messages that have not been consumed, oldest first.
Contents == [i \in 1 .. Dist(head, tail) |-> MessageAt(Plus(tail, i - 1))]
-----------------------------------------------------------------------------
(* Loads of the other side's counter *)

NABD_LOAD_RELAXED_tail(v) ==
  /\ v \in Between(tailSeen, tail)
  /\ tailSeen' = v
  /\ UNCHANGED tailSync

NABD_LOAD_ACQUIRE_tail(v) ==
  /\ v \in Between(tailSeen, tail)
  /\ tailSeen' = v
  /\ tailSync' = v

NABD_LOAD_RELAXED_head(v) ==
  /\ v \in Between(headSeen, head)
  /\ headSeen' = v
  /\ UNCHANGED headSync

NABD_LOAD_ACQUIRE_head(v) ==
  /\ v \in Between(headSeen, head)
  /\ headSeen' = v
  /\ headSync' = v

\* The last read of the slot that position p reuses happens before what the
\* producer does now.
Reusable(p) == Dist(p, tailSync) < Capacity

\* The write of position p happens before what the consumer does now.
Visible(p) == Dist(headSync, p) \in 1 .. Capacity

\* What the consumer may read from the slot of position p.
PayloadReads(p) ==
  IF Visible(p) THEN {payload[get_slot(p)]} ELSE Data \cup {None}

LengthReads(p) ==
  IF Visible(p) THEN {length[get_slot(p)]} ELSE 0 .. LenMod - 1
-----------------------------------------------------------------------------
Init ==
  /\ head = 0 /\ tail = 0
  /\ payload = [s \in Slot |-> None] /\ length = [s \in Slot |-> 0]
  /\ ppc = "idle" /\ pret = "NONE" /\ pmsg = NoBytes
  /\ reserved = FALSE /\ reserve_pos = 0
  /\ tailSeen = 0 /\ tailSync = 0
  /\ cpc = "idle" /\ cret = "NONE" /\ cbuf = NoBytes
  /\ peeked = None /\ headSeen = 0 /\ headSync = 0
  /\ delivered = None

ProducerReturns(code) == ppc' = "idle" /\ pret' = code

ConsumerReturns(code) == cpc' = "idle" /\ cret' = code

ProducerGoes(from, to) == ppc = from /\ ppc' = to

ConsumerGoes(from, to) == cpc = from /\ cpc' = to
-----------------------------------------------------------------------------
(* nabd_push *)

\* Mutant of IsFull: > for >=.
IsFullOffByOne(t) == Dist(head, t) > Capacity

\* Mutant of IsFull: one slot is kept free.
IsFullWastingOne(t) == Dist(head, t) >= Capacity - 1

IsFull(t) == Dist(head, t) >= Capacity

nabd_push(m) ==
  /\ ppc = "idle"
  /\ \/ /\ m.len > MaxPayload
        /\ ProducerReturns("TOOBIG")
        /\ UNCHANGED pmsg
     \/ /\ m.len <= MaxPayload
        /\ ppc' = "push_load_tail" /\ pret' = "NONE"
        /\ pmsg' = m
  /\ UNCHANGED <<shared, consumer, reserved, reserve_pos, tailSeen, tailSync>>

push_load_tail ==
  /\ ppc = "push_load_tail"
  /\ \E v \in Pos :
       /\ NABD_LOAD_ACQUIRE_tail(v)
       /\ \/ IsFull(v) /\ ProducerReturns("FULL") /\ pmsg' = NoBytes
          \/ ~IsFull(v) /\ ppc' = "push_copy" /\ UNCHANGED <<pret, pmsg>>
  /\ UNCHANGED <<shared, consumer, reserved, reserve_pos>>

\* memcpy: a copy of no bytes leaves the slot alone.
push_copy ==
  /\ ProducerGoes("push_copy", "push_header")
  /\ payload' = IF pmsg.len = 0 THEN payload
                ELSE [payload EXCEPT ![get_slot(head)] = pmsg.data]
  /\ UNCHANGED <<head, tail, length, consumer, pret, pmsg, reserved, reserve_pos,
                 tailSeen, tailSync>>

push_header ==
  /\ ProducerGoes("push_header", "push_publish")
  /\ length' = [length EXCEPT ![get_slot(head)] = pmsg.len % LenMod]
  /\ UNCHANGED <<head, tail, payload, consumer, pret, pmsg, reserved, reserve_pos,
                 tailSeen, tailSync>>

push_publish ==
  /\ ppc = "push_publish"
  /\ head' = Inc(head)
  /\ ProducerReturns("OK") /\ pmsg' = NoBytes
  /\ UNCHANGED <<tail, payload, length, consumer, reserved, reserve_pos,
                 tailSeen, tailSync>>
-----------------------------------------------------------------------------
(* nabd_reserve, the caller's write through the returned pointer, nabd_commit *)

nabd_reserve(len) ==
  /\ ppc = "idle"
  /\ \/ reserved /\ ProducerReturns("INVALID")
     \/ ~reserved /\ len > MaxPayload /\ ProducerReturns("TOOBIG")
     \/ ~reserved /\ len <= MaxPayload /\ ppc' = "reserve_load_tail" /\ pret' = "NONE"
  /\ UNCHANGED <<shared, consumer, pmsg, reserved, reserve_pos, tailSeen, tailSync>>

reserve_load_tail ==
  /\ ppc = "reserve_load_tail"
  /\ \E v \in Pos :
       /\ NABD_LOAD_ACQUIRE_tail(v)
       /\ \/ /\ IsFull(v)
             /\ ProducerReturns("FULL")
             /\ UNCHANGED <<reserved, reserve_pos>>
          \/ /\ ~IsFull(v)
             /\ ProducerReturns("OK")
             /\ reserved' = TRUE
             /\ reserve_pos' = head
  /\ UNCHANGED <<shared, consumer, pmsg>>

write_reserved(d) ==
  /\ ppc = "idle" /\ reserved
  /\ payload' = [payload EXCEPT ![get_slot(reserve_pos)] = d]
  /\ pmsg' = [pmsg EXCEPT !.data = d]
  /\ UNCHANGED <<head, tail, length, consumer, ppc, pret, reserved, reserve_pos,
                 tailSeen, tailSync>>

nabd_commit(len) ==
  /\ ppc = "idle"
  /\ \/ /\ ~reserved
        /\ ProducerReturns("INVALID")
        /\ UNCHANGED <<length, pmsg>>
     \/ /\ reserved
        /\ length' = [length EXCEPT ![get_slot(reserve_pos)] = len % LenMod]
        /\ pmsg' = Bytes(pmsg.data, len)
        /\ ppc' = "commit_publish" /\ pret' = "NONE"
  /\ UNCHANGED <<head, tail, payload, consumer, reserved, reserve_pos, tailSeen, tailSync>>

\* Mutant of commit_publish: without q->reserved = 0.
commit_publish_keeps_reservation ==
  /\ ppc = "commit_publish"
  /\ head' = Inc(reserve_pos)
  /\ ProducerReturns("OK") /\ pmsg' = NoBytes
  /\ UNCHANGED <<tail, payload, length, consumer, reserved, reserve_pos, tailSeen, tailSync>>

commit_publish ==
  /\ ppc = "commit_publish"
  /\ head' = Inc(reserve_pos)
  /\ reserved' = FALSE
  /\ ProducerReturns("OK") /\ pmsg' = NoBytes
  /\ UNCHANGED <<tail, payload, length, consumer, reserve_pos, tailSeen, tailSync>>
-----------------------------------------------------------------------------
(* nabd_pop *)

nabd_pop ==
  /\ ConsumerGoes("idle", "pop_load_head")
  /\ cret' = "NONE"
  /\ UNCHANGED <<shared, producer, cbuf, peeked, headSeen, headSync, delivered>>

\* Mutant of pop_load_head: the newest message is left alone.
pop_load_head_short ==
  /\ cpc = "pop_load_head"
  /\ \E v \in Pos :
       /\ NABD_LOAD_ACQUIRE_head(v)
       /\ \/ Dist(v, tail) <= 1 /\ ConsumerReturns("EMPTY")
          \/ Dist(v, tail) > 1 /\ cpc' = "pop_length" /\ UNCHANGED cret
  /\ UNCHANGED <<shared, producer, cbuf, peeked, delivered>>

pop_load_head ==
  /\ cpc = "pop_load_head"
  /\ \E v \in Pos :
       /\ NABD_LOAD_ACQUIRE_head(v)
       /\ \/ tail = v /\ ConsumerReturns("EMPTY")
          \/ tail # v /\ cpc' = "pop_length" /\ UNCHANGED cret
  /\ UNCHANGED <<shared, producer, cbuf, peeked, delivered>>

\* The caller's buffer holds size bytes.
pop_length(size) ==
  /\ cpc = "pop_length"
  /\ \E len \in LengthReads(tail) :
       \/ len > size /\ ConsumerReturns("TOOBIG") /\ UNCHANGED cbuf
       \/ len <= size /\ cpc' = "pop_copy" /\ cbuf' = Bytes(None, len) /\ UNCHANGED cret
  /\ UNCHANGED <<shared, producer, peeked, headSeen, headSync, delivered>>

pop_copy ==
  /\ ConsumerGoes("pop_copy", "pop_advance")
  /\ \E d \in PayloadReads(tail) : cbuf' = Bytes(d, cbuf.len)
  /\ UNCHANGED <<shared, producer, cret, peeked, headSeen, headSync, delivered>>

\* Mutant of pop_advance: without the store of tail.
pop_advance_forgets_tail ==
  /\ cpc = "pop_advance"
  /\ delivered' = cbuf
  /\ ConsumerReturns("OK") /\ cbuf' = NoBytes
  /\ UNCHANGED <<shared, producer, peeked, headSeen, headSync>>

pop_advance ==
  /\ cpc = "pop_advance"
  /\ tail' = Inc(tail)
  /\ delivered' = cbuf
  /\ ConsumerReturns("OK") /\ cbuf' = NoBytes
  /\ UNCHANGED <<head, payload, length, producer, peeked, headSeen, headSync>>
-----------------------------------------------------------------------------
(* nabd_peek, the caller's read through the returned pointer, nabd_release *)

nabd_peek ==
  /\ ConsumerGoes("idle", "peek_load_head")
  /\ cret' = "NONE"
  /\ UNCHANGED <<shared, producer, cbuf, peeked, headSeen, headSync, delivered>>

peek_load_head ==
  /\ cpc = "peek_load_head"
  /\ \E v \in Pos :
       /\ NABD_LOAD_ACQUIRE_head(v)
       /\ \/ tail = v /\ ConsumerReturns("EMPTY")
          \/ tail # v /\ cpc' = "peek_length" /\ UNCHANGED cret
  /\ UNCHANGED <<shared, producer, cbuf, peeked, delivered>>

peek_length ==
  /\ cpc = "peek_length"
  /\ \E len \in LengthReads(tail) : cbuf' = Bytes(None, len)
  /\ peeked' = tail
  /\ ConsumerReturns("OK")
  /\ UNCHANGED <<shared, producer, headSeen, headSync, delivered>>

read_peeked ==
  /\ cpc = "idle" /\ peeked # None
  /\ \E d \in PayloadReads(peeked) : cbuf' = Bytes(d, cbuf.len)
  /\ UNCHANGED <<shared, producer, cpc, cret, peeked, headSeen, headSync, delivered>>

nabd_release ==
  /\ cpc = "idle"
  /\ tail' = Inc(tail)
  /\ peeked' = None
  /\ delivered' = cbuf
  /\ ConsumerReturns("OK") /\ cbuf' = NoBytes
  /\ UNCHANGED <<head, payload, length, producer, headSeen, headSync>>
-----------------------------------------------------------------------------
(***************************************************************************)
(* A process dies between any two steps and its successor attaches with    *)
(* nabd_open, without NABD_CREATE: it gets a fresh handle on the control   *)
(* block and the slots as they are.  The end of one process and the start  *)
(* of the next are ordered by the kernel, so the successor starts from     *)
(* what its predecessor had seen.                                          *)
(***************************************************************************)
producer_restart ==
  /\ ppc' = "idle" /\ pret' = "NONE" /\ pmsg' = NoBytes
  /\ reserved' = FALSE /\ reserve_pos' = 0
  /\ UNCHANGED <<shared, consumer, tailSeen, tailSync>>

consumer_restart ==
  /\ cpc' = "idle" /\ cret' = "NONE" /\ cbuf' = NoBytes
  /\ peeked' = None
  /\ UNCHANGED <<shared, producer, headSeen, headSync, delivered>>
-----------------------------------------------------------------------------
(***************************************************************************)
(* Callers.  nabd.h asks of them: commit the slot that was reserved, after *)
(* writing it, with at most the reserved length; release a message that    *)
(* was peeked, once.  The code checks none of this except that a commit    *)
(* follows a reserve.  Next is the system with callers that keep to it,    *)
(* and that neither push between reserve and commit nor pop between peek   *)
(* and release.  nabd.h does not exclude the push: InterleavedNext is the  *)
(* system with it.                                                         *)
(***************************************************************************)
ProducerInternal ==
  \/ push_load_tail \/ push_copy \/ push_header \/ push_publish
  \/ reserve_load_tail \/ commit_publish

ConsumerInternal ==
  \/ pop_load_head \/ \E size \in 0 .. MaxPayload : pop_length(size)
  \/ pop_copy \/ pop_advance
  \/ peek_load_head \/ peek_length

Lens == 0 .. MaxLen

ProducerCalls ==
  \/ ~reserved /\ \E m \in Message : nabd_push(m)
  \/ \E len \in Lens : nabd_reserve(len)
  \/ \E d \in Data : write_reserved(d)
  \/ \E len \in Lens :
       /\ reserved => len <= MaxPayload /\ (len > 0 => pmsg.data # None)
       /\ nabd_commit(len)

ConsumerCalls ==
  \/ peeked = None /\ nabd_pop
  \/ nabd_peek
  \/ read_peeked
  \/ peeked # None /\ (cbuf.len > 0 => cbuf.data # None) /\ nabd_release

Next ==
  \/ ProducerCalls \/ ProducerInternal \/ producer_restart
  \/ ConsumerCalls \/ ConsumerInternal \/ consumer_restart

Spec == Init /\ [][Next]_vars

InterleavedNext == Next \/ \E m \in Message : nabd_push(m)

InterleavedSpec == Init /\ [][InterleavedNext]_vars
-----------------------------------------------------------------------------
(* Properties *)

\* Type invariant.
TypeOK ==
  /\ head \in Pos /\ tail \in Pos /\ reserve_pos \in Pos
  /\ tailSeen \in Pos /\ tailSync \in Pos /\ headSeen \in Pos /\ headSync \in Pos
  /\ payload \in [Slot -> Data \cup {None}]
  /\ length \in [Slot -> 0 .. LenMod - 1]
  /\ ppc \in {"idle", "push_load_tail", "push_copy", "push_header", "push_publish",
              "reserve_load_tail", "commit_publish"}
  /\ pret \in {"NONE", "OK", "FULL", "TOOBIG", "INVALID"}
  /\ pmsg \in [data : Data \cup {None}, len : Lens]
  /\ reserved \in BOOLEAN
  /\ cpc \in {"idle", "pop_load_head", "pop_length", "pop_copy", "pop_advance",
              "peek_load_head", "peek_length"}
  /\ cret \in {"NONE", "OK", "EMPTY", "TOOBIG"}
  /\ cbuf \in [data : Data \cup {None}, len : 0 .. LenMod - 1]
  /\ peeked \in Pos \cup {None}
  /\ delivered \in [data : Data \cup {None}, len : 0 .. LenMod - 1] \cup {None}

\* The counters and each thread's knowledge of them stay in order, across the
\* wrap of the counters too: what the producer knows of tail is at or before
\* tail, what the consumer knows of head lies from tail up to head, and head is
\* at most Capacity ahead of the tail the producer has synchronised with.
CursorChain ==
  LET d(p) == Dist(p, tailSync)
  IN  /\ d(tailSeen) <= d(tail) /\ d(tail) <= d(headSync)
      /\ d(headSync) <= d(headSeen) /\ d(headSeen) <= d(head)
      /\ d(head) <= Capacity

\* No data race on a slot: wherever the producer, or its caller through the
\* pointer nabd_reserve returned, may write a slot, the consumer's last read of
\* the slot happens before; wherever the consumer, or its caller through the
\* pointer nabd_peek returned, may read one, the producer's write happens before.
NoDataRace ==
  /\ ppc \in {"push_copy", "push_header"} => Reusable(head)
  /\ reserved => Reusable(reserve_pos)
  /\ cpc \in {"pop_length", "pop_copy", "peek_length"} => Visible(tail)
  /\ peeked # None => Visible(peeked)

\* The pointer that nabd_peek returned stays good until nabd_release: no step of
\* the producer changes the slot while the consumer's caller holds the pointer.
PeekStable ==
  [][(peeked # None /\ peeked' = peeked) =>
       /\ payload'[get_slot(peeked)] = payload[get_slot(peeked)]
       /\ length'[get_slot(peeked)] = length[get_slot(peeked)]]_vars

\* The header of a slot that is about to be published holds the length of the
\* payload that nabd_push copied or the caller committed (types.h: "payload length").
LengthKept ==
  ppc \in {"push_publish", "commit_publish"} => length[get_slot(head)] = pmsg.len

\* head moves forward by one slot at a time and never back (protocol.md: head and
\* tail "are monotonically increasing"): nabd_push and nabd_commit publish the next slot.
HeadMonotone == [][head' \in {head, Inc(head)}]_vars

\* The message that the producer's call in progress will publish.
Offered ==
  IF ppc \in {"push_load_tail", "push_copy", "push_header", "push_publish",
              "commit_publish"}
  THEN pmsg ELSE None

Fifo == INSTANCE BoundedFifo
          WITH queue <- Contents, offered <- Offered, taken <- delivered

\* The ring buffer is a bounded first-in first-out queue: every message whose
\* push or commit returns NABD_OK is popped or released exactly once, unaltered
\* and in order, whatever the interleaving, the age of the counter values the
\* threads load, and the crashes.
IsFifo == Fifo!Spec
-----------------------------------------------------------------------------
(* The inductive invariant *)

\* Where each thread is in a call agrees with the slot it holds: a reservation
\* is of the slot at head and is pending during no push, a peeked message is
\* the one at tail and none is held during a pop, a counter is about to advance
\* only over a slot the thread was free to access, and a call has no result yet.
CallInv ==
  /\ reserved => reserve_pos = head
  /\ ppc \in {"push_load_tail", "push_copy", "push_header", "push_publish",
              "reserve_load_tail"} => ~reserved
  /\ ppc = "commit_publish" => reserved
  /\ ppc = "push_publish" => Reusable(head)
  /\ peeked # None => peeked = tail
  /\ cpc \in {"pop_load_head", "pop_length", "pop_copy", "pop_advance"} => peeked = None
  /\ cpc = "pop_advance" => Visible(tail)
  /\ ppc # "idle" => pret = "NONE"
  /\ cpc # "idle" => cret = "NONE"

\* What the slot at head holds so far of the message being sent, and the
\* consumer's buffer of the message at tail.
SlotInv ==
  /\ Offered # None => pmsg \in Message /\ pmsg.len <= MaxPayload
  /\ ppc \in {"push_header", "push_publish"} /\ pmsg.len > 0
       => payload[get_slot(head)] = pmsg.data
  /\ ppc \in {"push_publish", "commit_publish"}
       => length[get_slot(head)] = pmsg.len % LenMod
  /\ reserved /\ pmsg.data # None => payload[get_slot(head)] = pmsg.data
  /\ ppc \in {"idle", "reserve_load_tail"} /\ ~reserved => pmsg = NoBytes
  /\ cpc = "pop_copy" \/ peeked # None => cbuf.len = length[get_slot(tail)]
  /\ cpc = "pop_advance" \/ (peeked # None /\ cbuf.data # None) => cbuf = MessageAt(tail)
  /\ cbuf.len = 0 => cbuf.data = None

\* The inductive invariant behind every safety property of the ring: it holds
\* initially and every step of nabd_push, nabd_pop, the zero-copy calls and a
\* restart preserves it.
IInv == TypeOK /\ CursorChain /\ NoDataRace /\ CallInv /\ SlotInv
=============================================================================

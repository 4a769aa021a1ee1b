------------------------------- MODULE Arith --------------------------------
(***************************************************************************)
(* What the code does with the bits of a word: the geometry of a queue as  *)
(* nabd_open computes it from what the caller asks for                     *)
(* (src/src/nabd.c:97-112), the power-of-two helpers                       *)
(* (src/include/nabd/internal.h:124-142), the place of a slot, and the     *)
(* checksum of a checkpoint (src/src/persistence.c:36).                    *)
(*                                                                         *)
(* A word is the set of its bits that are 1, bit 0 the lowest: the         *)
(* operators & and | of C are \cap and \cup.  The inputs are enumerated as *)
(* in Metrics.                                                             *)
(***************************************************************************)
EXTENDS Metrics, FiniteSets

CONSTANTS Width,            \* 64 in the code
          DefaultCapacity,  \* NABD_DEFAULT_CAPACITY
          DefaultSlotSize,  \* NABD_DEFAULT_SLOT_SIZE
          MinSlotSize,      \* sizeof(nabd_slot_header_t) + 8
          ControlSize,      \* sizeof(nabd_control_t)
          Rotation,         \* 13
          CheckpointMagic,  \* NABD_CHECKPOINT_MAGIC
          SlotSizes         \* the slot sizes asked for

Bit == 0 .. Width - 1

Powers == {{k} : k \in Bit}

ASSUME ArithAssumption ==
  /\ Width \in 1 .. 64 /\ Words = 2 ^ Width /\ Rotation \in 0 .. Width
  /\ DefaultCapacity \in Powers /\ CheckpointMagic \subseteq Bit
  /\ {DefaultSlotSize, MinSlotSize} \subseteq Nat \ {0} /\ ControlSize \in Nat
  /\ SlotSizes \subseteq Nat

\* The unsigned comparison: the highest bit in which the two differ decides.
Less(x, y) == \E i \in y \ x : \A j \in Bit : j > i => (j \in x <=> j \in y)

\* The number a word stands for: how many words are less.
Value == [x \in SUBSET Bit |-> Cardinality({y \in SUBSET Bit : Less(y, x)})]

\* A bit is flipped by an increment if all bits below it are 1, by a decrement if all
\* are 0.
Inc(x) == {i \in Bit : i \in x <=> \E j \in Bit \ x : j < i}

Dec(x) == {i \in Bit : i \in x <=> \E j \in x : j < i}

shiftL(x, k) == {i \in Bit : i - k \in x}

shiftR(x, k) == {i \in Bit : i + k \in x}

Xor(x, y) == (x \ y) \cup (y \ x)

\* The word of the input.
Asked == {i \in Bit : (input \div 2 ^ i) % 2 = 1}
-----------------------------------------------------------------------------
nabd_is_power_of_2(x) == x # {} /\ x \cap Dec(x) = {}

smear(x, k) == x \cup shiftR(x, k)

\* Mutant of nabd_next_power_of_2: the third shift is missing.
next_power_short(x) ==
  Inc(smear(smear(smear(smear(smear(Dec(x), 1), 2), 8), 16), 32))

nabd_next_power_of_2(x) ==
  Inc(smear(smear(smear(smear(smear(smear(Dec(x), 1), 2), 4), 8), 16), 32))

nabd_mod_pow2(x, mask) == x \cap mask

open_capacity(c) ==
  LET asked == IF c = {} THEN DefaultCapacity ELSE c
  IN IF nabd_is_power_of_2(asked) THEN asked ELSE nabd_next_power_of_2(asked)

open_slot_size(s) ==
  LET asked == IF s = 0 THEN DefaultSlotSize ELSE s
  IN IF asked < MinSlotSize THEN MinSlotSize ELSE asked

total_size(c, s) == (ControlSize + Value[c] * s) % Words

\* Mutant of mask: the capacity itself.
mask_capacity(c) == c

mask(c) == Dec(c)

\* The offset of the slot of position p in the mapping.
get_slot(p, c, s) == ControlSize + Value[nabd_mod_pow2(p, mask(c))] * s

\* Mutant of compute_checksum: the position is not included.
checksum_without_tail(k) ==
  LET sum == Xor(Xor(k.magic, k.timestamp), k.group_id)
  IN shiftL(sum, Rotation) \cup shiftR(sum, Width - Rotation)

compute_checksum(k) ==
  LET sum == Xor(Xor(Xor(k.magic, k.timestamp), k.group_id), k.tail)
  IN shiftL(sum, Rotation) \cup shiftR(sum, Width - Rotation)
-----------------------------------------------------------------------------
(* Properties *)

\* The capacity of a queue is the least power of two that is not below the one
\* asked for, where a word can hold it.
CapacityRounded ==
  LET c == open_capacity(Asked)
  IN Asked # {} /\ ~Less({Width - 1}, Asked) =>
       /\ c \in Powers /\ ~Less(c, Asked)
       /\ \A p \in Powers : ~Less(p, Asked) => ~Less(p, c)

\* If the size of the mapping fits a word, then the slot of every position, which the
\* mask selects, is the one its remainder by the capacity counts to, and it lies inside
\* the mapping.
SlotsInMapping ==
  \A asked \in SlotSizes :
    LET c == open_capacity(Asked)
        s == open_slot_size(asked)
    IN c # {} /\ ControlSize + Value[c] * s < Words =>
         \A p \in SUBSET Bit :
           /\ get_slot(p, c, s) = ControlSize + (Value[p] % Value[c]) * s
           /\ get_slot(p, c, s) + s <= total_size(c, s)

\* A checkpoint of which one field has changed does not pass for the original: the
\* checksum of the changed record is another one.
ChecksumDetects ==
  LET k == [magic |-> CheckpointMagic, timestamp |-> Asked,
            group_id |-> Asked \cap {0, 1}, tail |-> shiftR(Asked, 2)]
  IN \A v \in SUBSET Bit :
       /\ v # k.timestamp => compute_checksum([k EXCEPT !.timestamp = v]) # compute_checksum(k)
       /\ v # k.group_id => compute_checksum([k EXCEPT !.group_id = v]) # compute_checksum(k)
       /\ v # k.tail => compute_checksum([k EXCEPT !.tail = v]) # compute_checksum(k)
=============================================================================

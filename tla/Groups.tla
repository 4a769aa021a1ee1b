------------------------------- MODULE Groups -------------------------------
(***************************************************************************)
(* Consumer groups (src/src/nabd.c:532-760): a table of groups in shared   *)
(* memory, each with a tail of its own, member processes that create or    *)
(* join a group and consume through it, the producer, and a cleaner thread *)
(* that gives slots back to the producer as nabd_min_tail allows.          *)
(*                                                                         *)
(* A step touches shared memory once, but for nabd_push, join_entry and    *)
(* ReadsSlot, which say why two accesses may be one step.  Loads return    *)
(* the newest value: the questions here are about the order of the steps.  *)
(* The message published at position p is p itself, so a slot holds the    *)
(* position written to it last.                                            *)
(*                                                                         *)
(* No function of the library sets nabd_t.multi: the table is attached by  *)
(* a step of the embedding program.  Nor does any call nabd_min_tail: the  *)
(* cleaner is the caller nabd.h:290 has in mind.                           *)
(***************************************************************************)
EXTENDS Integers

CONSTANTS Members,       \* the processes that consume through groups
          GroupIds,      \* the ids their callers ask for, 0 to have one assigned
          MaxConsumers,  \* NABD_MAX_CONSUMERS
          Capacity,      \* number of slots
          MaxHead,       \* bound: the number of messages pushed
          None

ASSUME GroupsAssumption ==
  /\ GroupIds \subseteq Nat
  /\ MaxConsumers \in Nat \ {0}
  /\ Capacity \in Nat \ {0}
  /\ MaxHead \in Nat
  /\ None \notin Nat

VARIABLES
  head, tail, slots,   \* control block and buffer
  ppc,                 \* producer: "idle", or "publish" once it wrote a slot
  attached,            \* nabd_t.multi is not NULL
  active, group_id, gtail,  \* the group table
  mpc,                 \* where each member is in a call
  at,                  \* the table entry of its call or handle, 0 if it has none
  want,                \* the id its call asks for
  mtail,               \* the position its call has loaded
  mbuf,                \* what it read from the slot
  failure,             \* why its last create or join failed
  cpc, scan, min_tail, \* cleaner: its place, loop index and minimum so far
  started, read        \* history: where each group started, what it read last

ring    == <<head, tail, slots, ppc>>
table   == <<active, group_id, gtail>>
member  == <<mpc, at, want, mtail, mbuf, failure>>
cleaner == <<cpc, scan, min_tail>>
history == <<started, read>>
gvars   == <<ring, attached, table, member, cleaner, history>>

Group == 1 .. MaxConsumers

CreatePCs == {"create_cas", "create_id", "create_head", "create_tail", "create_alloc"}

PCs == CreatePCs \cup {"idle", "join", "pop_head", "pop_copy", "pop_advance",
                       "peek_head", "peeked", "peek_read", "release"}

Creating(m) == mpc[m] \in CreatePCs

get_slot(p) == p % Capacity

GroupsInit ==
  /\ head = 0 /\ tail = 0 /\ slots = [s \in 0 .. Capacity - 1 |-> None]
  /\ ppc = "idle"
  /\ attached = FALSE
  /\ active = [g \in Group |-> 0]
  /\ group_id = [g \in Group |-> 0]
  /\ gtail = [g \in Group |-> 0]
  /\ mpc = [m \in Members |-> "idle"]
  /\ at = [m \in Members |-> 0]
  /\ want = [m \in Members |-> 0]
  /\ mtail = [m \in Members |-> 0]
  /\ mbuf = [m \in Members |-> None]
  /\ failure = [m \in Members |-> "NONE"]
  /\ cpc = "idle" /\ scan = 0 /\ min_tail = None
  /\ started = [g \in Group |-> None]
  /\ read = [g \in Group |-> None]

attach_multi ==
  /\ ~attached
  /\ attached' = TRUE
  /\ UNCHANGED <<ring, table, member, cleaner, history>>
-----------------------------------------------------------------------------
(* The producer: nabd_push looks at the control block's tail only.  Its    *)
(* check and its write of the slot are one step: a tail that moves between *)
(* them only makes more room.                                              *)

\* Mutant of nabd_push: the full check is off by one.
nabd_push_overrun ==
  /\ ppc = "idle"
  /\ head < MaxHead
  /\ head - tail <= Capacity
  /\ slots' = [slots EXCEPT ![get_slot(head)] = head]
  /\ ppc' = "publish"
  /\ UNCHANGED <<head, tail, attached, table, member, cleaner, history>>

nabd_push ==
  /\ ppc = "idle"
  /\ head < MaxHead
  /\ head - tail < Capacity
  /\ slots' = [slots EXCEPT ![get_slot(head)] = head]
  /\ ppc' = "publish"
  /\ UNCHANGED <<head, tail, attached, table, member, cleaner, history>>

push_publish ==
  /\ ppc = "publish"
  /\ head' = head + 1
  /\ ppc' = "idle"
  /\ UNCHANGED <<tail, slots, attached, table, member, cleaner, history>>
-----------------------------------------------------------------------------
(* Creating and joining a group *)

\* Member m goes on at pc, with entry g, id, loaded position t and content b.
Member(m, pc, g, id, t, b) ==
  /\ mpc' = [mpc EXCEPT ![m] = pc]
  /\ at' = [at EXCEPT ![m] = g]
  /\ want' = [want EXCEPT ![m] = id]
  /\ mtail' = [mtail EXCEPT ![m] = t]
  /\ mbuf' = [mbuf EXCEPT ![m] = b]

Goto(m, pc) == Member(m, pc, at[m], want[m], mtail[m], mbuf[m])

\* A call returns to a member that then has a handle on entry g, or none.
Return(m, g) == Member(m, "idle", g, 0, 0, None)

Fails(m, e) ==
  /\ Return(m, 0)
  /\ failure' = [failure EXCEPT ![m] = e]

\* The argument checks of create and join; pc is where the loop starts.
Open(m, id, pc) ==
  /\ mpc[m] = "idle" /\ at[m] = 0
  /\ \/ ~attached /\ Fails(m, "EINVAL")
     \/ attached /\ Member(m, pc, 1, id, 0, None) /\ failure' = [failure EXCEPT ![m] = "NONE"]
  /\ UNCHANGED <<ring, attached, table, cleaner, history>>

nabd_consumer_create(m, id) == Open(m, id, "create_cas")

\* Mutant of create_cas: a load and a store in place of the compare-and-swap
\* are modelled by a swap that also succeeds on an entry in use.
create_cas_blind(m) ==
  /\ mpc[m] = "create_cas"
  /\ active' = [active EXCEPT ![at[m]] = 1]
  /\ Goto(m, "create_id")
  /\ UNCHANGED <<ring, attached, group_id, gtail, failure, cleaner, history>>

\* Mutant of create_cas: the loop runs to i <= NABD_MAX_CONSUMERS.
create_cas_past(m) ==
  /\ mpc[m] = "create_cas"
  /\ \/ /\ active[at[m]] = 0
        /\ active' = [active EXCEPT ![at[m]] = 1]
        /\ Goto(m, "create_id")
        /\ UNCHANGED failure
     \/ /\ at[m] <= MaxConsumers
        /\ Member(m, "create_cas", at[m] + 1, want[m], 0, None)
        /\ UNCHANGED <<active, failure>>
  /\ UNCHANGED <<ring, attached, group_id, gtail, cleaner, history>>

\* The weak compare-and-swap may fail on an entry that is free.
create_cas(m) ==
  /\ mpc[m] = "create_cas"
  /\ \/ /\ active[at[m]] = 0
        /\ active' = [active EXCEPT ![at[m]] = 1]
        /\ Goto(m, "create_id")
        /\ UNCHANGED failure
     \/ /\ at[m] < MaxConsumers
        /\ Member(m, "create_cas", at[m] + 1, want[m], 0, None)
        /\ UNCHANGED <<active, failure>>
     \/ at[m] = MaxConsumers /\ Fails(m, "ENOMEM") /\ UNCHANGED active
  /\ UNCHANGED <<ring, attached, group_id, gtail, cleaner, history>>

create_id(m) ==
  /\ mpc[m] = "create_id"
  /\ group_id' = [group_id EXCEPT ![at[m]] = IF want[m] # 0 THEN want[m] ELSE at[m]]
  /\ Goto(m, "create_head")
  /\ UNCHANGED <<ring, attached, active, gtail, failure, cleaner, history>>

create_head(m) ==
  /\ mpc[m] = "create_head"
  /\ Member(m, "create_tail", at[m], want[m], head, None)
  /\ UNCHANGED <<ring, attached, table, failure, cleaner, history>>

create_tail(m) ==
  /\ mpc[m] = "create_tail"
  /\ gtail' = [gtail EXCEPT ![at[m]] = mtail[m]]
  /\ started' = [started EXCEPT ![at[m]] = mtail[m]]
  /\ Goto(m, "create_alloc")
  /\ UNCHANGED <<ring, attached, active, group_id, failure, cleaner, read>>

create_alloc(m) ==
  /\ mpc[m] = "create_alloc"
  /\ \/ Return(m, at[m]) /\ UNCHANGED <<active, failure, started, read>>
     \/ /\ active' = [active EXCEPT ![at[m]] = 0]
        /\ started' = [started EXCEPT ![at[m]] = None]
        /\ read' = [read EXCEPT ![at[m]] = None]
        /\ Fails(m, "calloc")
  /\ UNCHANGED <<ring, attached, group_id, gtail, cleaner>>

nabd_consumer_join(m, id) == id # 0 /\ Open(m, id, "join")

\* The loads of active and group_id are one step.  An id is stored only while the entry
\* is active, so what the two loads find was so at one moment: the first load, or the
\* last store of the id after it.  The allocation of the handle may fail.
join_entry(m) ==
  /\ mpc[m] = "join"
  /\ IF active[at[m]] = 1 /\ group_id[at[m]] = want[m]
     THEN \/ Return(m, at[m]) /\ UNCHANGED failure
          \/ Fails(m, "calloc")
     ELSE IF at[m] < MaxConsumers
          THEN Member(m, "join", at[m] + 1, want[m], 0, None) /\ UNCHANGED failure
          ELSE Fails(m, "ENOENT")
  /\ UNCHANGED <<ring, attached, table, cleaner, history>>

\* The group stays active.
nabd_consumer_close(m) ==
  /\ mpc[m] = "idle" /\ at[m] # 0
  /\ Return(m, 0)
  /\ UNCHANGED <<ring, attached, table, failure, cleaner, history>>

\* A member process dies: the table keeps what the process stored.
member_crash(m) ==
  /\ at[m] # 0
  /\ Return(m, 0)
  /\ UNCHANGED <<ring, attached, table, failure, cleaner, history>>
-----------------------------------------------------------------------------
(* Consuming through a group *)

Loads(m, pc) ==
  /\ mpc[m] = "idle" /\ at[m] # 0
  /\ Member(m, pc, at[m], 0, gtail[at[m]], None)
  /\ UNCHANGED <<ring, attached, table, failure, cleaner, history>>

\* The empty check of pop and peek.
Checks(m, pc, next) ==
  /\ mpc[m] = pc
  /\ IF mtail[m] >= head THEN Return(m, at[m]) ELSE Goto(m, next)
  /\ UNCHANGED <<ring, attached, table, failure, cleaner, history>>

\* The length and the payload are read in one step: a slot that is rewritten between
\* the two reads was not retained for this group.
ReadsSlot(m, pc, next) ==
  /\ mpc[m] = pc
  /\ Member(m, next, at[m], 0, mtail[m], slots[get_slot(mtail[m])])
  /\ UNCHANGED <<ring, attached, table, failure, cleaner, history>>

\* The store of position t ends the consumption of what m has read.
Advance(m, t) ==
  /\ gtail' = [gtail EXCEPT ![at[m]] = t]
  /\ read' = [read EXCEPT ![at[m]] = mbuf[m]]
  /\ Return(m, at[m])
  /\ UNCHANGED <<ring, attached, active, group_id, failure, cleaner, started>>

nabd_consumer_pop(m) == Loads(m, "pop_head")

pop_head(m) == Checks(m, "pop_head", "pop_copy")

pop_copy(m) == ReadsSlot(m, "pop_copy", "pop_advance")

\* NABD_TOOBIG: the caller's buffer is too small.
pop_toobig(m) ==
  /\ mpc[m] = "pop_copy"
  /\ Return(m, at[m])
  /\ UNCHANGED <<ring, attached, table, failure, cleaner, history>>

\* Mutant of pop_advance: the position is stored as it was loaded.
pop_advance_stays(m) == mpc[m] = "pop_advance" /\ Advance(m, mtail[m])

pop_advance(m) == mpc[m] = "pop_advance" /\ Advance(m, mtail[m] + 1)

nabd_consumer_peek(m) == Loads(m, "peek_head")

peek_head(m) == Checks(m, "peek_head", "peeked")

\* The caller reads the message in place.
peek_read(m) == ReadsSlot(m, "peeked", "peek_read")

nabd_consumer_release(m) ==
  /\ mpc[m] = "peek_read"
  /\ Member(m, "release", at[m], 0, gtail[at[m]], mbuf[m])
  /\ UNCHANGED <<ring, attached, table, failure, cleaner, history>>

release_store(m) == mpc[m] = "release" /\ Advance(m, mtail[m] + 1)
-----------------------------------------------------------------------------
(* The cleaner: nabd_min_tail, then nabd_release up to what it returned *)

Cleaner(pc, i, t) == cpc' = pc /\ scan' = i /\ min_tail' = t

\* Mutant of nabd_min_tail: the minimum starts from 0.
nabd_min_tail_zero ==
  /\ cpc = "idle"
  /\ IF attached THEN Cleaner("scan", 1, 0) ELSE Cleaner("clean", 0, tail)
  /\ UNCHANGED <<ring, attached, table, member, history>>

nabd_min_tail ==
  /\ cpc = "idle"
  /\ IF attached THEN Cleaner("scan", 1, None) ELSE Cleaner("clean", 0, tail)
  /\ UNCHANGED <<ring, attached, table, member, history>>

min_tail_active ==
  /\ cpc = "scan" /\ scan <= MaxConsumers
  /\ IF active[scan] = 1 THEN Cleaner("scan_tail", scan, min_tail)
                         ELSE Cleaner("scan", scan + 1, min_tail)
  /\ UNCHANGED <<ring, attached, table, member, history>>

\* Mutant of min_tail_tail: the comparison is the wrong way round.
min_tail_greatest ==
  /\ cpc = "scan_tail"
  /\ Cleaner("scan", scan + 1,
             IF min_tail = None THEN gtail[scan]
             ELSE IF gtail[scan] > min_tail THEN gtail[scan] ELSE min_tail)
  /\ UNCHANGED <<ring, attached, table, member, history>>

\* min_tail is UINT64_MAX, here None, before the first active group.
min_tail_tail ==
  /\ cpc = "scan_tail"
  /\ Cleaner("scan", scan + 1,
             IF min_tail = None THEN gtail[scan]
             ELSE IF gtail[scan] < min_tail THEN gtail[scan] ELSE min_tail)
  /\ UNCHANGED <<ring, attached, table, member, history>>

min_tail_return ==
  /\ cpc = "scan" /\ scan > MaxConsumers
  /\ Cleaner("clean", 0, IF min_tail = None THEN tail ELSE min_tail)
  /\ UNCHANGED <<ring, attached, table, member, history>>

\* nabd_release by the cleaner, the only thread that stores the tail.
clean_release ==
  /\ cpc = "clean" /\ tail < min_tail
  /\ tail' = tail + 1
  /\ UNCHANGED <<head, slots, ppc, attached, table, member, cleaner, history>>

clean_done ==
  /\ cpc = "clean" /\ tail >= min_tail
  /\ Cleaner("idle", 0, None)
  /\ UNCHANGED <<ring, attached, table, member, history>>
-----------------------------------------------------------------------------
(* Specifications *)

Consumes(m) ==
  \/ nabd_consumer_pop(m) \/ pop_head(m) \/ pop_copy(m) \/ pop_toobig(m)
  \/ pop_advance(m)
  \/ nabd_consumer_peek(m) \/ peek_head(m) \/ peek_read(m)
  \/ nabd_consumer_release(m) \/ release_store(m)

Creates(m) ==
  create_cas(m) \/ create_id(m) \/ create_head(m) \/ create_tail(m) \/ create_alloc(m)

Scans == min_tail_active \/ min_tail_tail \/ min_tail_return

Cleans == clean_release \/ clean_done

Produces == nabd_push \/ push_publish

Scanning == cpc \in {"scan", "scan_tail"}

\* What is common to all callers.
Common ==
  \/ attach_multi \/ Produces \/ Scans \/ Cleans
  \/ \E m \in Members :
       Creates(m) \/ Consumes(m) \/ nabd_consumer_close(m) \/ member_crash(m)

\* Careful callers: a group is not shared, and not created during a scan.
GroupsNext ==
  \/ Common
  \/ (\A m \in Members : ~Creating(m)) /\ nabd_min_tail
  \/ ~Scanning /\ \E m \in Members, id \in GroupIds : nabd_consumer_create(m, id)

GroupsSpec == GroupsInit /\ [][GroupsNext]_gvars

\* Groups are created while the cleaner scans the table.
ScanNext ==
  \/ Common
  \/ nabd_min_tail
  \/ \E m \in Members, id \in GroupIds : nabd_consumer_create(m, id)

ScanSpec == GroupsInit /\ [][ScanNext]_gvars

\* Several members join a group.
SharedNext ==
  \/ GroupsNext
  \/ \E m \in Members : join_entry(m)
  \/ \E m \in Members, id \in GroupIds : nabd_consumer_join(m, id)

SharedSpec == GroupsInit /\ [][SharedNext]_gvars

\* The plain consumer of Ring takes the next message and gives its slot back.
nabd_pop ==
  /\ tail < head
  /\ tail' = tail + 1
  /\ UNCHANGED <<head, slots, ppc, attached, table, member, cleaner, history>>

\* Groups beside a plain consumer, and no cleaner.
PlainNext ==
  \/ attach_multi \/ Produces \/ nabd_pop
  \/ \E m \in Members : Creates(m) \/ Consumes(m)
  \/ \E m \in Members, id \in GroupIds : nabd_consumer_create(m, id)

PlainSpec == GroupsInit /\ [][PlainNext]_gvars

\* The library alone: nothing attaches the table.
LibraryNext ==
  \/ Produces \/ nabd_pop
  \/ \E m \in Members, id \in GroupIds : nabd_consumer_create(m, id)

LibrarySpec == GroupsInit /\ [][LibraryNext]_gvars

(***************************************************************************)
(* Fairness.  Every thread is scheduled again and again: the producer, the *)
(* members, which poll, and the cleaner.  A caller told NABD_TOOBIG again  *)
(* and again comes back with a buffer for the length it was told, and what *)
(* keeps creations and scans apart lets the cleaner in.                    *)
(***************************************************************************)
StartsScan == (\A m \in Members : ~Creating(m)) /\ nabd_min_tail

FairSpec ==
  /\ GroupsSpec
  /\ WF_gvars(Produces)
  /\ \A m \in Members : WF_gvars(Creates(m) \/ Consumes(m)) /\ SF_gvars(pop_copy(m))
  /\ WF_gvars(Scans \/ Cleans) /\ SF_gvars(StartsScan)
-----------------------------------------------------------------------------
(* Properties *)

Position == 0 .. MaxHead

\* Types of the group table, of the members' calls and of the cleaner.
GroupsTypeOK ==
  /\ head \in Position /\ tail \in Position
  /\ slots \in [0 .. Capacity - 1 -> Position \cup {None}]
  /\ ppc \in {"idle", "publish"}
  /\ attached \in BOOLEAN
  /\ active \in [Group -> {0, 1}]
  /\ group_id \in [Group -> GroupIds \cup Group \cup {0}]
  /\ gtail \in [Group -> Position]
  /\ mpc \in [Members -> PCs]
  /\ at \in [Members -> Group \cup {0}]
  /\ want \in [Members -> GroupIds \cup Group \cup {0}]
  /\ mtail \in [Members -> Position]
  /\ mbuf \in [Members -> Position \cup {None}]
  /\ failure \in [Members -> {"NONE", "EINVAL", "ENOMEM", "ENOENT", "calloc"}]
  /\ cpc \in {"idle", "scan", "scan_tail", "clean"}
  /\ scan \in 0 .. MaxConsumers + 1
  /\ min_tail \in Position \cup {None}
  /\ started \in [Group -> Position \cup {None}]
  /\ read \in [Group -> Position \cup {None}]

\* An entry of the table belongs to one member: the compare-and-swap of
\* nabd_consumer_create gives it to one of the callers that try for it.
Owned ==
  \A m, n \in Members :
    /\ at[m] # 0 /\ at[m] = at[n]
    /\ mpc[m] # "create_cas" /\ mpc[n] # "create_cas"
    => m = n

\* What a group has not read is still in the buffer: a slot is reused when all
\* groups have read it (README.md:90), although nabd_push looks at the control
\* block's tail only and nabd_min_tail reads the table entry by entry.
Retained ==
  \A g \in Group : started[g] # None =>
    \A p \in gtail[g] .. head - 1 : slots[get_slot(p)] = p

\* A member hands out the next message of its group, one that the group has
\* not had before: nabd_consumer_pop stores the position after the one it read.
HandedOutOnce ==
  [][\A m \in Members :
       mpc[m] \in {"pop_advance", "release"} /\ mpc'[m] = "idle" /\ at'[m] # 0
         => mbuf[m] = gtail[at[m]] /\ gtail'[at[m]] = gtail[at[m]] + 1]_gvars

\* nabd_consumer_create reports ENOMEM when every entry of the table is taken.
NoSlotsAvailable ==
  [][\A m \in Members :
       failure[m] # "ENOMEM" /\ failure'[m] = "ENOMEM" => \A g \in Group : active[g] = 1]_gvars

\* A consumer group can be created on an open queue (README.md:90).
GroupsSupported == \A m \in Members : failure[m] # "EINVAL"

\* The groups of careful callers are cursors in a log that keeps what they have
\* not read.
Log == INSTANCE GroupLog WITH
  Groups <- Group,
  end    <- head,
  cursor <- [g \in Group |-> IF started[g] = None THEN None ELSE gtail[g]]

IsGroupLog == Log!LogSpec

\* A group that is active and has no member: nabd_consumer_close and the death of a
\* process leave it in the table.
Abandoned ==
  \E g \in Group : active[g] = 1 /\ \A m \in Members : at[m] = g => mpc[m] = "create_cas"

\* The producer is never blocked for good while members poll and the cleaner cleans,
\* once a member has a group: each slot is let go of by the slowest group and given
\* back by the cleaner, unless a group is abandoned.
Progress ==
  \A p \in 0 .. MaxHead - 1 :
    head = p /\ (\E m \in Members : mpc[m] = "idle" /\ at[m] # 0) ~> head > p \/ Abandoned

(* The inductive invariant of the proofs *)

\* The buffer holds what lies between the tail and the head, and the tail is behind
\* every group.
BufferInv ==
  /\ tail <= head /\ head - tail <= Capacity
  /\ ppc = "publish" => head - tail < Capacity /\ head < MaxHead
                        /\ slots[get_slot(head)] = head
  /\ \A p \in tail .. head - 1 : slots[get_slot(p)] = p
  /\ \A g \in Group : gtail[g] <= head
  /\ \A g \in Group : started[g] # None => active[g] = 1 /\ tail <= gtail[g]

\* The minimum is behind every group that the cleaner has visited, and behind all of
\* them once it cleans: also behind those created since the scan.
CleanerInv ==
  /\ min_tail # None => min_tail <= head
  /\ Scanning => scan \in 1 .. MaxConsumers + 1 /\ \A m \in Members : ~Creating(m)
  /\ cpc = "scan_tail" => scan \in Group
  /\ Scanning => \A g \in Group : g < scan /\ started[g] # None =>
                    min_tail # None /\ min_tail <= gtail[g]
  /\ cpc = "clean" =>
       /\ min_tail # None
       /\ \A g \in Group : started[g] # None => min_tail <= gtail[g]
       /\ \A m \in Members : mpc[m] = "create_tail" => min_tail <= mtail[m]

Within(m, pcs) == mpc[m] \in pcs

\* What a member knows of its entry: nobody else moves the group's tail.
Knows(m) ==
  /\ mpc[m] # "join"
  /\ mpc[m] # "idle" => at[m] # 0
  /\ at[m] # 0 /\ mpc[m] # "create_cas" =>
       /\ active[at[m]] = 1
       /\ started[at[m]] = None <=> Within(m, {"create_id", "create_head", "create_tail"})
  /\ mpc[m] = "create_tail" => tail <= mtail[m] /\ mtail[m] <= head
  /\ Within(m, {"pop_head", "pop_copy", "pop_advance", "peek_head", "peeked", "peek_read",
                "release"}) => mtail[m] = gtail[at[m]]
  /\ Within(m, {"pop_copy", "pop_advance", "peeked", "peek_read", "release"}) =>
       gtail[at[m]] < head
  /\ Within(m, {"pop_advance", "peek_read", "release"}) => mbuf[m] = gtail[at[m]]

MemberInv == \A m \in Members : Knows(m)

GroupsInv == GroupsTypeOK /\ Owned /\ BufferInv /\ CleanerInv /\ MemberInv
=============================================================================

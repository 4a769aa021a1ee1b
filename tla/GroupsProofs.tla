---------------------------- MODULE GroupsProofs ----------------------------
(***************************************************************************)
(* Proofs about Groups, for careful callers (GroupsSpec): an entry of the  *)
(* table has one owner, what a group has not read stays in the buffer, a   *)
(* group hands out each message once, and the whole implements GroupLog.   *)
(***************************************************************************)
EXTENDS GroupsSteps

USE DEF ring, table, member, cleaner, history

\* Steps of nabd_consumer_create that change the table: no other member is at its entry.
LEMMA CreateSteps ==
  ASSUME GroupsInv, NEW m \in Members,
         \/ create_cas(m) \/ create_id(m) \/ create_tail(m)
  PROVE  GroupsInv'
<1> USE GroupsAssumption
<1> USE DEF GroupsInv, Goto, Return, Fails, OthersStay, ElsewhereStays, Alone
<1>1. UNCHANGED <<ring, attached, cleaner>> /\ mpc[m] # "idle"
  BY Zenon DEF create_cas, create_id, create_tail
<1>2. /\ GroupsTypeOK /\ Knows(m) /\ at[m] \in Group /\ want[m] \in GroupIds \cup Group \cup {0}
      /\ mtail[m] \in Position /\ mbuf[m] \in Position \cup {None}
      /\ 0 \in Position /\ head \in Position
  BY <1>1, TableFrame, Zenon
<1>3. attached' \in BOOLEAN
  BY <1>1, TableFrame, Zenon
<1>4. mpc[m] # "create_cas" => Alone(m)
  BY <1>1, TableFrame, Zenon
<1>5. ASSUME NEW pc, NEW g, NEW id, NEW t, NEW b, Member(m, pc, g, id, t, b)
      PROVE  mpc'[m] = pc /\ at'[m] = g /\ mtail'[m] = t /\ mbuf'[m] = b /\ OthersStay(m)
  BY <1>2, <1>5, LocalFrame, Zenon
<1>6. ASSUME OthersStay(m), ElsewhereStays(m), Alone(m)
      PROVE  \A n \in Members \ {m} : Knows(n)'
  BY <1>1, <1>6, TableFrame, Zenon
<1>7. CASE create_cas(m)
  <2>1. GroupsTypeOK'
    <3>1. active' \in [Group -> {0, 1}]
      BY <1>2, <1>7, SMTT(30) DEF create_cas, GroupsTypeOK
    <3>2. failure' \in [Members -> {"NONE", "EINVAL", "ENOMEM", "ENOENT", "calloc"}]
      BY <1>2, <1>7, Zenon DEF create_cas, GroupsTypeOK
    <3>3. /\ mpc' \in [Members -> PCs] /\ at' \in [Members -> Group \cup {0}]
          /\ want' \in [Members -> GroupIds \cup Group \cup {0}]
          /\ mtail' \in [Members -> Position]
          /\ mbuf' \in [Members -> Position \cup {None}]
      <4>1. {"create_id", "create_cas", "idle"} \subseteq PCs
        BY Zenon DEF PCs, CreatePCs
      <4>2. CASE Goto(m, "create_id")
        BY <1>2, <4>1, <4>2, MemberType, Zenon
      <4>3. CASE at[m] < MaxConsumers /\ Member(m, "create_cas", at[m] + 1, want[m], 0, None)
        <5>1. at[m] + 1 \in Group
          BY <1>2, <4>3 DEF Group
        <5> QED
          BY <1>2, <4>1, <4>3, <5>1, MemberType, Zenon
      <4>4. CASE Return(m, 0)
        BY <1>2, <4>1, <4>4, MemberType, Zenon
      <4> QED
        BY <1>7, <4>2, <4>3, <4>4, Zenon DEF create_cas
    <3> QED
      BY <1>1, <1>3, <1>7, <3>1, <3>2, <3>3, Zenon DEF create_cas, GroupsTypeOK
  <2>2. CASE active' = active
    <3>1. PICK g \in Group \cup {0}, pc \in {"create_cas", "idle"} :
            /\ mpc'[m] = pc /\ at'[m] = g /\ OthersStay(m)
            /\ pc = "idle" => g = 0
            /\ pc = "create_cas" => g # 0
      <4>1. ~(active[at[m]] = 0 /\ active' = [active EXCEPT ![at[m]] = 1])
        BY <1>2, <2>2 DEF GroupsTypeOK
      <4>2. CASE at[m] < MaxConsumers /\ Member(m, "create_cas", at[m] + 1, want[m], 0, None)
        BY <1>2, <1>5, <4>2 DEF Group
      <4>3. CASE Return(m, 0)
        BY <1>5, <4>3, Zenon
      <4> QED
        BY <1>7, <4>1, <4>2, <4>3, Zenon DEF create_cas
    <3>2. UNCHANGED <<gtail, started>>
      BY <1>7, Zenon DEF create_cas
    <3>3. Knows(m)'
      BY <3>1, Zenon DEF Knows, Within
    <3>4. \A n \in Members \ {m} : Knows(n)'
      BY <1>1, <2>2, <3>1, <3>2 DEF MemberInv, Knows, Within
    <3>5. Owned'
      BY <3>1 DEF Owned
    <3>6. CleanerInv'
      BY <1>1, <1>7, <3>1, <3>2, Zenon DEF create_cas, CleanerInv, Scanning, Creating,
         CreatePCs
    <3>7. BufferInv'
      BY <1>1, <2>2, <3>2, Zenon DEF BufferInv, get_slot
    <3> QED
      BY <2>1, <3>3, <3>4, <3>5, <3>6, <3>7, Zenon DEF MemberInv
  <2>3. CASE active' # active
    <3>1. /\ active[at[m]] = 0 /\ active' = [active EXCEPT ![at[m]] = 1]
          /\ mpc[m] = "create_cas"
          /\ UNCHANGED <<gtail, started>>
          /\ mpc'[m] = "create_id" /\ at'[m] = at[m] /\ OthersStay(m)
      BY <1>5, <1>7, <2>3 DEF create_cas
    <3>2. started[at[m]] = None /\ Alone(m)
      BY <1>2, <3>1 DEF BufferInv, MemberInv, Knows, Group
    <3>3. ElsewhereStays(m) /\ active'[at[m]] = 1
      BY <1>2, <3>1, Zenon DEF GroupsTypeOK
    <3>4. Knows(m)'
      BY <1>2, <3>1, <3>2, <3>3, Zenon DEF Knows, Within
    <3>5. \A n \in Members \ {m} : Knows(n)'
      BY <1>6, <3>1, <3>2, <3>3, Zenon
    <3>6. Owned'
      BY <3>1, <3>2 DEF Owned
    <3>7. CleanerInv'
      BY <1>1, <3>1, Zenon DEF CleanerInv, Scanning, Creating, CreatePCs
    <3>8. BufferInv'
      BY <1>1, <3>1, <3>3 DEF BufferInv, get_slot
    <3> QED
      BY <2>1, <3>4, <3>5, <3>6, <3>7, <3>8, Zenon DEF MemberInv
  <2> QED
    BY <2>2, <2>3, Zenon
<1>8. CASE create_id(m)
  <2>1. /\ mpc[m] = "create_id" /\ mpc'[m] = "create_head" /\ at'[m] = at[m] /\ OthersStay(m)
        /\ UNCHANGED <<active, gtail, failure, started, read>>
    BY <1>5, <1>8 DEF create_id
  <2>2. GroupsTypeOK'
    <3>1. group_id' \in [Group -> GroupIds \cup Group \cup {0}]
      BY <1>2, <1>8, Zenon DEF create_id, GroupsTypeOK
    <3>2. "create_head" \in PCs
      BY Zenon DEF PCs, CreatePCs
    <3> QED
      BY <1>1, <1>2, <1>3, <1>8, <2>1, <3>1, <3>2, MemberType, Zenon
         DEF create_id, GroupsTypeOK
  <2>3. Knows(m)'
    BY <1>1, <1>2, <2>1, Zenon DEF Knows, Within
  <2>4. \A n \in Members \ {m} : Knows(n)'
    BY <1>4, <1>6, <2>1, Zenon
  <2>5. Owned'
    BY <2>1 DEF Owned
  <2>6. CleanerInv'
    BY <1>1, <2>1, Zenon DEF CleanerInv, Scanning, Creating, CreatePCs
  <2>7. BufferInv'
    BY <1>1, <2>1, Zenon DEF BufferInv, get_slot
  <2> QED
    BY <2>2, <2>3, <2>4, <2>5, <2>6, <2>7 DEF MemberInv
<1>9. CASE create_tail(m)
  <2>1. /\ mpc[m] = "create_tail" /\ mpc'[m] = "create_alloc" /\ at'[m] = at[m] /\ OthersStay(m)
        /\ gtail' = [gtail EXCEPT ![at[m]] = mtail[m]]
        /\ started' = [started EXCEPT ![at[m]] = mtail[m]]
        /\ UNCHANGED <<active, group_id, failure, read>>
    BY <1>5, <1>9 DEF create_tail
  <2>2. GroupsTypeOK'
    <3>1. gtail' \in [Group -> Position] /\ started' \in [Group -> Position \cup {None}]
      BY <1>2, <2>1, Zenon DEF GroupsTypeOK
    <3>2. "create_alloc" \in PCs
      BY Zenon DEF PCs, CreatePCs
    <3> QED
      BY <1>1, <1>2, <1>3, <1>9, <2>1, <3>1, <3>2, MemberType, Zenon
         DEF create_tail, GroupsTypeOK
  <2>3. /\ ElsewhereStays(m) /\ active'[at[m]] = 1
        /\ gtail'[at[m]] = mtail[m] /\ started'[at[m]] = mtail[m] /\ mtail[m] # None
        /\ tail <= mtail[m] /\ mtail[m] <= head
    BY <1>2, <2>1 DEF GroupsTypeOK, Knows, Position, Group
  <2>4. Knows(m)'
    BY <1>2, <2>1, <2>3, Zenon DEF Knows, Within
  <2>5. \A n \in Members \ {m} : Knows(n)'
    BY <1>4, <1>6, <2>1, <2>3, Zenon
  <2>6. Owned'
    BY <2>1 DEF Owned
  <2>7. CleanerInv'
    BY <1>1, <1>2, <2>1, <2>3 DEF CleanerInv, Scanning, Creating, CreatePCs
  <2>8. BufferInv'
    BY <1>1, <1>2, <2>3, Zenon DEF BufferInv, get_slot
  <2> QED
    BY <2>2, <2>4, <2>5, <2>6, <2>7, <2>8 DEF MemberInv
<1> QED
  BY <1>7, <1>8, <1>9, Zenon

\* Steps of a member that leave the table alone.
LEMMA MemberSteps ==
  ASSUME GroupsInv, NEW m \in Members,
         \/ ~Scanning /\ \E id \in GroupIds : nabd_consumer_create(m, id)
         \/ create_head(m)
         \/ nabd_consumer_close(m) \/ member_crash(m)
         \/ nabd_consumer_pop(m) \/ pop_head(m) \/ pop_copy(m) \/ pop_toobig(m)
         \/ nabd_consumer_peek(m) \/ peek_head(m) \/ peek_read(m)
         \/ nabd_consumer_release(m)
  PROVE  GroupsInv'
<1> USE GroupsAssumption
<1> USE DEF GroupsInv, Goto, Return, Fails
<1>1. UNCHANGED <<ring, attached, table, cleaner, history>>
  BY Zenon DEF nabd_consumer_create, Open, create_head, nabd_consumer_close, member_crash,
         nabd_consumer_pop, Loads, pop_head, Checks, pop_copy, ReadsSlot, pop_toobig,
         nabd_consumer_peek, peek_head, peek_read, nabd_consumer_release
<1>2. failure' \in [Members -> {"NONE", "EINVAL", "ENOMEM", "ENOENT", "calloc"}]
  BY Zenon DEF GroupsTypeOK, nabd_consumer_create, Open, create_head, nabd_consumer_close,
         member_crash, nabd_consumer_pop, Loads, pop_head, Checks, pop_copy, ReadsSlot,
         pop_toobig, nabd_consumer_peek, peek_head, peek_read, nabd_consumer_release
<1>3. /\ GroupsTypeOK /\ Knows(m) /\ mpc[m] \in PCs
      /\ at[m] \in Group \cup {0} /\ want[m] \in GroupIds \cup Group \cup {0}
      /\ mtail[m] \in Position /\ mbuf[m] \in Position \cup {None}
      /\ 0 \in Position /\ head \in Position
  BY DEF GroupsTypeOK, MemberInv, Position
<1>frame. ASSUME NEW pc, NEW g, NEW id, NEW t, NEW b, Member(m, pc, g, id, t, b)
          PROVE  mpc'[m] = pc /\ at'[m] = g /\ mtail'[m] = t /\ mbuf'[m] = b
  BY <1>3, <1>frame, LocalFrame, Zenon
<1>4. ASSUME NEW g \in {0, at[m]}, Return(m, g), mpc[m] \notin CreatePCs \/ g = 0
      PROVE  GroupsInv'
  <2>1. /\ mpc'[m] = "idle" /\ at'[m] = g
    BY <1>4, <1>frame, Zenon DEF Return
  <2>2. Knows(m)'
    BY <1>1, <1>3, <1>4, <2>1, Zenon DEF Knows, Within, CreatePCs
  <2> QED
    BY <1>1, <1>2, <1>3, <1>4, <2>2, LocalStep, Zenon DEF PCs, CreatePCs
<1>5. CASE ~Scanning /\ \E id \in GroupIds : nabd_consumer_create(m, id)
  <2>1. PICK id \in GroupIds : nabd_consumer_create(m, id)
    BY <1>5, Zenon
  <2>2. CASE Return(m, 0)
    BY <1>4, <2>2, Zenon
  <2>3. CASE Member(m, "create_cas", 1, id, 0, None)
    <3>1. mpc'[m] = "create_cas" /\ at'[m] = 1
      BY <2>3, <1>frame, Zenon
    <3>2. Knows(m)'
      BY <3>1 DEF Knows, Within
    <3>3. 1 \in Group
      BY DEF Group
    <3> QED
      BY <1>1, <1>2, <1>3, <1>5, <2>3, <3>2, <3>3, LocalStep, Zenon DEF PCs, CreatePCs
  <2> QED
    BY <2>1, <2>2, <2>3, Zenon DEF nabd_consumer_create, Open
<1>6. CASE create_head(m)
  <2>1. Member(m, "create_tail", at[m], want[m], head, None) /\ mpc[m] = "create_head"
    BY <1>6, Zenon DEF create_head
  <2>2. mpc'[m] = "create_tail" /\ at'[m] = at[m] /\ mtail'[m] = head
    BY <2>1, <1>frame, Zenon
  <2>3. Knows(m)'
    BY <1>1, <1>3, <2>1, <2>2 DEF GroupsTypeOK, Position, BufferInv, Knows, Within
  <2> QED
    BY <1>1, <1>2, <1>3, <2>1, <2>3, LocalStep, Zenon DEF PCs, CreatePCs, Creating
<1>7. CASE nabd_consumer_close(m) \/ member_crash(m) \/ pop_toobig(m)
  BY <1>4, <1>7, Zenon DEF nabd_consumer_close, member_crash, pop_toobig, CreatePCs
<1>8. CASE nabd_consumer_pop(m) \/ nabd_consumer_peek(m)
  <2>1. PICK pc \in {"pop_head", "peek_head"} : Loads(m, pc)
    BY <1>8, Zenon DEF nabd_consumer_pop, nabd_consumer_peek
  <2>2. Member(m, pc, at[m], 0, gtail[at[m]], None) /\ mpc[m] = "idle" /\ at[m] \in Group
    BY <1>3, <2>1, Zenon DEF Loads
  <2>3. mpc'[m] = pc /\ at'[m] = at[m] /\ mtail'[m] = gtail[at[m]]
    BY <2>2, <1>frame, Zenon
  <2>4. Knows(m)'
    BY <1>1, <1>3, <2>1, <2>2, <2>3 DEF Knows, Within, Group
  <2>5. gtail[at[m]] \in Position
    BY <2>2, Zenon DEF GroupsTypeOK
  <2> QED
    BY <1>1, <1>2, <1>3, <2>1, <2>2, <2>4, <2>5, LocalStep, Zenon DEF PCs, CreatePCs
<1>9. CASE nabd_consumer_release(m)
  <2>1. /\ Member(m, "release", at[m], 0, gtail[at[m]], mbuf[m])
        /\ mpc[m] = "peek_read" /\ at[m] \in Group
    BY <1>3, <1>9, Zenon DEF nabd_consumer_release, Knows
  <2>2. /\ mpc'[m] = "release" /\ at'[m] = at[m] /\ mtail'[m] = gtail[at[m]]
        /\ mbuf'[m] = mbuf[m]
    BY <2>1, <1>frame, Zenon
  <2>3. Knows(m)'
    BY <1>1, <1>3, <2>1, <2>2, Zenon DEF Knows, Within
  <2>4. gtail[at[m]] \in Position
    BY <2>1, Zenon DEF GroupsTypeOK
  <2>5. /\ "release" \in PCs /\ "release" \notin CreatePCs
        /\ "release" # "create_tail" /\ mpc[m] # "create_cas"
        /\ 0 \in GroupIds \cup Group \cup {0}
    BY <2>1 DEF PCs, CreatePCs
  <2> QED
    BY <1>1, <1>2, <1>3, <2>1, <2>3, <2>4, <2>5, LocalStep, Zenon
<1>10. CASE pop_head(m) \/ peek_head(m)
  <2>1. PICK pc \in {"pop_head", "peek_head"}, next \in {"pop_copy", "peeked"} :
          Checks(m, pc, next)
    BY <1>10, Zenon DEF pop_head, peek_head
  <2>2. CASE mtail[m] >= head
    BY <1>4, <2>1, <2>2, Zenon DEF Checks, CreatePCs
  <2>3. CASE ~(mtail[m] >= head)
    <3>1. /\ Member(m, next, at[m], want[m], mtail[m], mbuf[m])
          /\ mpc[m] = pc /\ mtail[m] < head
      BY <1>3, <2>1, <2>3 DEF Checks, Position
    <3>2. mpc'[m] = next /\ at'[m] = at[m] /\ mtail'[m] = mtail[m] /\ mbuf'[m] = mbuf[m]
      BY <3>1, <1>frame, Zenon
    <3>3. Knows(m)'
      BY <1>1, <1>3, <2>1, <3>1, <3>2, Zenon DEF Knows, Within
    <3> QED
      BY <1>1, <1>2, <1>3, <2>1, <3>1, <3>3, LocalStep, Zenon DEF PCs, CreatePCs
  <2> QED
    BY <2>2, <2>3, Zenon
<1>11. CASE pop_copy(m) \/ peek_read(m)
  <2>1. PICK pc \in {"pop_copy", "peeked"}, next \in {"pop_advance", "peek_read"} :
          ReadsSlot(m, pc, next)
    BY <1>11, Zenon DEF pop_copy, peek_read
  <2>2. /\ Member(m, next, at[m], 0, mtail[m], slots[get_slot(mtail[m])]) /\ mpc[m] = pc
        /\ at[m] \in Group /\ mtail[m] = gtail[at[m]] /\ mtail[m] < head
        /\ started[at[m]] # None
    BY <1>3, <2>1, Zenon DEF ReadsSlot, Knows, Within
  <2>3. slots[get_slot(mtail[m])] = mtail[m]
    <3>1. tail <= mtail[m] /\ \A p \in tail .. head - 1 : slots[get_slot(p)] = p
      BY <2>2, Zenon DEF BufferInv
    <3>2. tail \in Int /\ head \in Int /\ mtail[m] \in Int
      BY <1>3 DEF GroupsTypeOK, Position
    <3>3. mtail[m] \in tail .. head - 1
      BY <2>2, <3>1, <3>2
    <3> QED
      BY <3>1, <3>3, Zenon
  <2>4. mpc'[m] = next /\ at'[m] = at[m] /\ mtail'[m] = mtail[m] /\ mbuf'[m] = mtail[m]
    BY <1>3, <2>2, <2>3, MemberFrame
  <2>5. Knows(m)'
    BY <1>1, <1>3, <2>1, <2>2, <2>4, Zenon DEF Knows, Within
  <2> QED
    BY <1>1, <1>2, <1>3, <2>1, <2>2, <2>3, <2>5, LocalStep, Zenon DEF PCs, CreatePCs
<1> QED
  BY <1>5, <1>6, <1>7, <1>8, <1>9, <1>10, <1>11, Zenon

\* Every step of the producer, the members and the cleaner keeps GroupsInv.
LEMMA GroupsNextInv == GroupsInv /\ [GroupsNext]_gvars => GroupsInv'
<1> SUFFICES ASSUME GroupsInv, [GroupsNext]_gvars PROVE GroupsInv'
  BY Zenon
<1>1. CASE UNCHANGED gvars
  <2>1. attached' \in BOOLEAN
    BY <1>1, Zenon DEF gvars, GroupsInv, GroupsTypeOK
  <2> QED
    BY <1>1, <2>1
       DEF gvars, GroupsInv, GroupsTypeOK, Owned, BufferInv, CleanerInv, MemberInv, Knows,
           Scanning, Creating, Within, get_slot
<1>2. CASE GroupsNext
  BY <1>2, RingSteps, CleanerSteps, MemberSteps, CreateSteps, AdvanceSteps, Zenon
     DEF GroupsNext, Common, Cleans, Creates, Consumes
<1> QED
  BY <1>1, <1>2, Zenon

\* The inductive invariant of the groups holds, for careful callers.
THEOREM GroupsInvariant == GroupsSpec => []GroupsInv
  BY GroupsInitInv, GroupsNextInv, PTL DEF GroupsSpec

\* Type correctness: the positions, the table, the locals of the members' calls and
\* the cleaner's minimum stay in their ranges.
THEOREM GroupsTypeCorrect == GroupsSpec => []GroupsTypeOK
<1>1. GroupsInv => GroupsTypeOK
  BY Zenon DEF GroupsInv
<1> QED
  BY <1>1, GroupsInvariant, PTL

\* The compare-and-swap of nabd_consumer_create gives an entry of the table to one
\* member, however many try for it and crash on the way.
THEOREM OneOwner == GroupsSpec => []Owned
<1>1. GroupsInv => Owned
  BY Zenon DEF GroupsInv
<1> QED
  BY <1>1, GroupsInvariant, PTL

\* A slot is not reused before every group has read it: the position that
\* nabd_min_tail returns stays behind every group, those created since included.
THEOREM Retains == GroupsSpec => []Retained
<1>1. GroupsInv => Retained
  <2> SUFFICES ASSUME GroupsInv, NEW g \in Group, started[g] # None,
                      NEW p \in gtail[g] .. head - 1
               PROVE  slots[get_slot(p)] = p
    BY Zenon DEF Retained
  <2>1. tail \in Nat /\ head \in Nat /\ gtail[g] \in Nat /\ tail <= gtail[g]
    BY GroupsAssumption DEF GroupsInv, GroupsTypeOK, Position, BufferInv
  <2> QED
    BY <2>1 DEF GroupsInv, BufferInv
<1> QED
  BY <1>1, GroupsInvariant, PTL

\* What a step of a member does to the other members and to the table.
LEMMA HandOutStep ==
  ASSUME GroupsInv, [GroupsNext]_gvars, NEW m \in Members,
         mpc[m] \in {"pop_advance", "release"}, mpc'[m] = "idle", at'[m] # 0
  PROVE  mbuf[m] = gtail[at[m]] /\ gtail'[at[m]] = gtail[at[m]] + 1
<1>1. /\ mtail[m] = gtail[at[m]] /\ mbuf[m] = gtail[at[m]]
      /\ at[m] \in Group /\ GroupsTypeOK
  BY DEF GroupsInv, MemberInv, Knows, Within, GroupsTypeOK
<1>2. pop_advance(m) \/ release_store(m)
  <2>1. ASSUME UNCHANGED member
        PROVE  FALSE
    BY <2>1, Zenon
  <2>2. ASSUME NEW n \in Members \ {m}, NEW pc, NEW g, NEW id, NEW t, NEW b,
               Member(n, pc, g, id, t, b)
        PROVE  FALSE
    BY <1>1, <2>2, MemberFrame
  <2>3. ASSUME NEW pc, NEW g, NEW id, NEW t, NEW b, Member(m, pc, g, id, t, b)
        PROVE  pc = "idle" /\ g # 0
    BY <1>1, <2>3, MemberFrame
  <2>4. ~(attach_multi \/ Produces \/ Scans \/ Cleans \/ nabd_min_tail \/ UNCHANGED gvars)
    BY <2>1, Zenon DEF attach_multi, Produces, nabd_push, push_publish, Scans,
       min_tail_active, min_tail_tail, min_tail_return, Cleans, clean_release, clean_done,
                nabd_min_tail, gvars
  <2>5. ASSUME NEW n \in Members, NEW id, nabd_consumer_create(n, id)
        PROVE  FALSE
    BY <2>2, <2>3, <2>5, Zenon DEF nabd_consumer_create, Open, Fails, Return
  <2>6. ASSUME NEW n \in Members, Creates(n)
        PROVE  FALSE
    BY <2>2, <2>3, <2>6, Zenon DEF Creates, create_cas, create_id, create_head, create_tail,
                            create_alloc, Fails, Return, Goto
  <2>7. ASSUME NEW n \in Members, nabd_consumer_close(n) \/ member_crash(n)
        PROVE  FALSE
    BY <2>2, <2>3, <2>7, Zenon DEF nabd_consumer_close, member_crash, Return
  <2>8. ASSUME NEW n \in Members, Consumes(n)
        PROVE  n = m /\ (pop_advance(m) \/ release_store(m))
    <3>1. n = m
      BY <2>2, <2>8, Zenon DEF Consumes, nabd_consumer_pop, pop_head, pop_copy, pop_toobig,
                        pop_advance, nabd_consumer_peek, peek_head, peek_read,
                        nabd_consumer_release, release_store, Loads, Checks, ReadsSlot,
                        Advance, Return, Goto
    <3> QED
      BY <3>1, <2>8, Zenon DEF Consumes, nabd_consumer_pop, pop_head, pop_copy, pop_toobig,
                        nabd_consumer_peek, peek_head, peek_read, nabd_consumer_release,
                        Loads, Checks, ReadsSlot
  <2> QED
    BY <2>4, <2>5, <2>6, <2>7, <2>8, Zenon DEF GroupsNext, Common
<1> QED
  BY <1>1, <1>2 DEF pop_advance, release_store, Advance, GroupsTypeOK

\* nabd_consumer_pop and nabd_consumer_release hand out the next message of the
\* group, and the group goes on to the one after it.
THEOREM HandsOutOnce == GroupsSpec => HandedOutOnce
<1>1. GroupsInv /\ [GroupsNext]_gvars =>
        [\A m \in Members :
           mpc[m] \in {"pop_advance", "release"} /\ mpc'[m] = "idle" /\ at'[m] # 0
             => mbuf[m] = gtail[at[m]] /\ gtail'[at[m]] = gtail[at[m]] + 1]_gvars
  BY HandOutStep, Zenon
<1> QED
  BY <1>1, GroupsInvariant, PTL DEF GroupsSpec, HandedOutOnce

\* Every step of the groups is a step of the log, or changes none of its variables.
LEMMA LogStep ==
  ASSUME GroupsInv, [GroupsNext]_gvars
  PROVE  [Log!LogNext]_(Log!logvars)
<1> USE GroupsAssumption
<1> DEFINE cursor == [g \in Group |-> IF started[g] = None THEN None ELSE gtail[g]]
<1>1. ASSUME UNCHANGED <<head, gtail, started, read>>
      PROVE  UNCHANGED Log!logvars
  BY <1>1, Zenon DEF Log!logvars
<1>2. CASE push_publish
  <2>1. \A g \in Group : cursor[g] # None => head - cursor[g] < Capacity
    <3> SUFFICES ASSUME NEW g \in Group, started[g] # None
                 PROVE  head - gtail[g] < Capacity
      BY Zenon
    <3>1. /\ tail <= gtail[g] /\ head - tail < Capacity
          /\ head \in Nat /\ tail \in Nat /\ gtail[g] \in Nat
      BY <1>2 DEF push_publish, GroupsInv, GroupsTypeOK, Position, BufferInv
    <3> QED
      BY <3>1
  <2>2. head' = head + 1 /\ UNCHANGED <<gtail, started, read>>
    BY <1>2, Zenon DEF push_publish
  <2>3. Log!Append
    BY <2>1, <2>2, Zenon DEF Log!Append
  <2> QED
    BY <2>3, Zenon DEF Log!LogNext
<1>3. ASSUME NEW m \in Members, create_tail(m)
      PROVE  Log!LogNext
  <2>1. /\ at[m] \in Group /\ started[at[m]] = None /\ mtail[m] \in 0 .. head
        /\ tail <= mtail[m] /\ head - tail <= Capacity /\ tail \in Nat /\ head \in Nat
        /\ mtail[m] # None
    BY <1>3 DEF create_tail, GroupsInv, GroupsTypeOK, Position, BufferInv, MemberInv, Knows,
                Within
  <2>2. /\ gtail' = [gtail EXCEPT ![at[m]] = mtail[m]]
        /\ started' = [started EXCEPT ![at[m]] = mtail[m]]
        /\ UNCHANGED <<head, read>>
    BY <1>3, Zenon DEF create_tail
  <2>3. cursor' = [cursor EXCEPT ![at[m]] = mtail[m]]
    BY <2>1, <2>2, Zenon DEF GroupsInv, GroupsTypeOK
  <2>4. head - mtail[m] <= Capacity
    BY <2>1
  <2>5. PICK g \in Group : g = at[m]
    BY <2>1, Zenon
  <2>6. Log!Start(g)
    BY <2>1, <2>2, <2>3, <2>4, <2>5, Zenon DEF Log!Start
  <2> QED
    BY <2>6, Zenon DEF Log!LogNext
<1>4. ASSUME NEW m \in Members, create_alloc(m)
      PROVE  [Log!LogNext]_(Log!logvars)
  <2>1. CASE UNCHANGED <<started, read>>
    BY <1>1, <1>4, <2>1, Zenon DEF create_alloc
  <2>2. CASE /\ started' = [started EXCEPT ![at[m]] = None]
             /\ read' = [read EXCEPT ![at[m]] = None]
    <3>1. at[m] \in Group /\ UNCHANGED <<head, gtail>>
      BY <1>4 DEF create_alloc, GroupsInv, GroupsTypeOK, MemberInv, Knows
    <3>2. cursor' = [cursor EXCEPT ![at[m]] = None]
      BY <2>2, <3>1, Zenon DEF GroupsInv, GroupsTypeOK
    <3>3. PICK g \in Group : g = at[m]
      BY <3>1, Zenon
    <3>4. Log!Stop(g)
      BY <2>2, <3>1, <3>2, <3>3, Zenon DEF Log!Stop
    <3> QED
      BY <3>4, Zenon DEF Log!LogNext
  <2> QED
    BY <1>4, <2>1, <2>2, Zenon DEF create_alloc
<1>5. ASSUME NEW m \in Members, pop_advance(m) \/ release_store(m)
      PROVE  Log!LogNext
  <2>1. /\ at[m] \in Group /\ started[at[m]] # None /\ gtail[at[m]] < head
        /\ mtail[m] = gtail[at[m]] /\ mbuf[m] = gtail[at[m]] /\ gtail[at[m]] \in Nat
    <3>1. mpc[m] \in {"pop_advance", "release"} /\ Knows(m)
      BY <1>5, Zenon DEF pop_advance, release_store, GroupsInv, MemberInv
    <3>2. at[m] \in Group
      BY <3>1, Zenon DEF GroupsInv, GroupsTypeOK, Knows
    <3>3. gtail[at[m]] \in Nat
      BY <3>2 DEF GroupsInv, GroupsTypeOK, Position
    <3> QED
      BY <3>1, <3>2, <3>3, Zenon DEF Knows, Within, Group
  <2>2. /\ gtail' = [gtail EXCEPT ![at[m]] = gtail[at[m]] + 1]
        /\ read' = [read EXCEPT ![at[m]] = gtail[at[m]]]
        /\ UNCHANGED <<head, started>>
    BY <1>5, <2>1, Zenon DEF pop_advance, release_store, Advance
  <2>3. cursor[at[m]] = gtail[at[m]] /\ cursor[at[m]] # None
    BY <2>1, Zenon
  <2>4. cursor' = [cursor EXCEPT ![at[m]] = @ + 1]
    BY <2>1, <2>2, Zenon DEF GroupsInv, GroupsTypeOK
  <2>5. PICK g \in Group : g = at[m]
    BY <2>1, Zenon
  <2>6. Log!Read(g)
    BY <2>1, <2>2, <2>3, <2>4, <2>5, Zenon DEF Log!Read
  <2> QED
    BY <2>6, Zenon DEF Log!LogNext
<1>6. CASE \/ attach_multi \/ nabd_push \/ Scans \/ Cleans \/ nabd_min_tail
           \/ UNCHANGED gvars
  BY <1>1, <1>6, Zenon
     DEF attach_multi, nabd_push, Scans, min_tail_active, min_tail_tail, min_tail_return,
         Cleans, clean_release, clean_done, nabd_min_tail, gvars
<1>7. ASSUME NEW m \in Members, NEW id,
             \/ nabd_consumer_create(m, id)
             \/ create_cas(m) \/ create_id(m) \/ create_head(m)
             \/ nabd_consumer_close(m) \/ member_crash(m)
             \/ Consumes(m) /\ ~pop_advance(m) /\ ~release_store(m)
      PROVE  UNCHANGED Log!logvars
  BY <1>1, <1>7, Zenon
     DEF nabd_consumer_create, Open, create_cas, create_id, create_head,
         nabd_consumer_close, member_crash, Consumes, nabd_consumer_pop, pop_head, pop_copy,
         pop_toobig, nabd_consumer_peek, peek_head, peek_read, nabd_consumer_release, Loads,
         Checks, ReadsSlot
<1> QED
  BY <1>2, <1>3, <1>4, <1>5, <1>6, <1>7, Zenon
     DEF GroupsNext, Common, Produces, Creates, Consumes

\* The groups of careful callers are cursors in a log: a group reads every message
\* from its start on, once and in order, and a message stays until every group has
\* read it.
THEOREM GroupsRefinement == GroupsSpec => IsGroupLog
<1>1. GroupsInit => Log!LogInit
  BY DEF GroupsInit, Log!LogInit
<1>2. GroupsInv /\ [GroupsNext]_gvars => [Log!LogNext]_(Log!logvars)
  BY LogStep, Zenon
<1> QED
  BY <1>1, <1>2, GroupsInvariant, PTL DEF GroupsSpec, IsGroupLog, Log!LogSpec
=============================================================================

---------------------------- MODULE GroupsSteps -----------------------------
(***************************************************************************)
(* GroupsInv, the inductive invariant of Groups, holds at first and is     *)
(* kept by the steps of the producer and of the cleaner, and by the steps  *)
(* of a member that move its group; and what a member's step leaves alone. *)
(***************************************************************************)
EXTENDS Groups, TLAPS

USE DEF ring, table, member, cleaner, history

\* Positions fewer than Capacity apart use different slots.
LEMMA SlotsApart ==
  ASSUME NEW p \in Nat, NEW q \in Nat, p < q, q - p < Capacity
  PROVE  get_slot(p) # get_slot(q)
<1> USE GroupsAssumption
<1> DEFINE x == p \div Capacity
           y == q \div Capacity
<1>1. SUFFICES ASSUME p % Capacity = q % Capacity PROVE FALSE
  BY Zenon DEF get_slot
<1>2. /\ x \in Nat /\ p = Capacity * x + (p % Capacity) /\ p % Capacity \in Nat
      /\ y \in Nat /\ q = Capacity * y + (q % Capacity)
  OBVIOUS
<1> HIDE DEF x, y
<1>3. q - p = Capacity * (y - x) /\ y - x \in Int
  BY <1>1, <1>2
<1>4. y - x >= 1
  BY <1>3
<1>5. Capacity * (y - x) >= Capacity
  BY <1>3, <1>4
<1> QED
  BY <1>3, <1>5

\* get_slot yields a slot of the buffer.
LEMMA SlotType == \A p \in Nat : get_slot(p) \in 0 .. Capacity - 1
  BY GroupsAssumption DEF get_slot

\* GroupsInv holds of an empty queue without groups.
LEMMA GroupsInitInv == GroupsInit => GroupsInv
<1> USE GroupsAssumption
<1> SUFFICES ASSUME GroupsInit PROVE GroupsInv
  BY Zenon
<1>1. GroupsTypeOK
  <2>1. attached \in BOOLEAN
    BY Zenon DEF GroupsInit
  <2> QED
    BY <2>1 DEF GroupsInit, GroupsTypeOK, Position, Group, PCs, CreatePCs
<1>2. Owned /\ BufferInv /\ CleanerInv /\ MemberInv
  BY DEF GroupsInit, Owned, BufferInv, CleanerInv, MemberInv, Knows, Scanning,
         Within
<1> QED
  BY <1>1, <1>2, Zenon DEF GroupsInv

\* Steps of the producer, and the cleaner's nabd_release: the ring moves.
LEMMA RingSteps ==
  ASSUME GroupsInv, Produces \/ clean_release \/ attach_multi
  PROVE  GroupsInv'
<1> USE GroupsAssumption
<1> USE DEF GroupsInv
<1>1. CASE nabd_push
  <2>1. GroupsTypeOK'
    BY <1>1, Zenon DEF nabd_push, GroupsTypeOK, Position, get_slot
  <2>2. \A p \in tail .. head - 1 : get_slot(p) # get_slot(head)
    BY <1>1, SlotsApart DEF nabd_push, GroupsTypeOK, Position
  <2>3. BufferInv'
    <3>1. slots'[get_slot(head)] = head
      BY <1>1, SlotType DEF nabd_push, GroupsTypeOK, Position
    <3>2. \A p \in tail .. head - 1 : slots'[get_slot(p)] = p
      BY <1>1, <2>2, SlotType DEF nabd_push, GroupsTypeOK, BufferInv, Position
    <3> QED
      BY <1>1, <3>1, <3>2, Zenon DEF nabd_push, GroupsTypeOK, BufferInv, Position, get_slot
  <2>4. (Owned /\ CleanerInv /\ MemberInv)'
    BY <1>1, Zenon DEF nabd_push, Owned, CleanerInv, MemberInv, Knows,
                Scanning, Creating, Within
  <2> QED
    BY <2>1, <2>3, <2>4, Zenon
<1>2. CASE push_publish
  <2>1. GroupsTypeOK'
    BY <1>2 DEF push_publish, GroupsTypeOK, BufferInv, Position
  <2>2. BufferInv'
    <3>1. \A p \in tail .. head : slots[get_slot(p)] = p
      BY <1>2 DEF push_publish, GroupsTypeOK, BufferInv, Position
    <3> QED
      BY <1>2, <3>1 DEF push_publish, GroupsTypeOK, BufferInv, Position, get_slot
  <2>3. (Owned /\ CleanerInv)'
    BY <1>2 DEF push_publish, GroupsTypeOK, Position, Owned, CleanerInv, Scanning, Creating
  <2>4. MemberInv'
    BY <1>2 DEF push_publish, GroupsTypeOK, Position, MemberInv, Knows, Within
  <2> QED
    BY <2>1, <2>2, <2>3, <2>4, Zenon
<1>3. CASE clean_release
  <2>1. min_tail \in Nat /\ min_tail <= head /\ tail + 1 <= min_tail
    BY <1>3 DEF clean_release, GroupsTypeOK, CleanerInv, Position
  <2>2. GroupsTypeOK'
    BY <1>3, <2>1 DEF clean_release, GroupsTypeOK, Position
  <2>3. BufferInv'
    BY <1>3, <2>1 DEF clean_release, GroupsTypeOK, BufferInv, CleanerInv, Position
  <2>4. (Owned /\ CleanerInv)'
    BY <1>3, Zenon DEF clean_release, Owned, CleanerInv, Scanning, Creating
  <2>5. MemberInv'
    BY <1>3, <2>1 DEF clean_release, GroupsTypeOK, Position, CleanerInv, MemberInv,
       Knows, Within
  <2> QED
    BY <2>2, <2>3, <2>4, <2>5
<1>4. CASE attach_multi
  <2>1. attached' \in BOOLEAN
    BY <1>4, Zenon DEF attach_multi
  <2> QED
    BY <1>4, <2>1 DEF attach_multi, GroupsTypeOK, Owned, BufferInv, CleanerInv, MemberInv,
                      Knows, Scanning, Creating, Within
<1> QED
  BY <1>1, <1>2, <1>3, <1>4, Zenon DEF Produces

\* Steps of nabd_min_tail and the end of a cleaning: only the cleaner moves.
LEMMA CleanerSteps ==
  ASSUME GroupsInv,
         \/ (\A m \in Members : ~Creating(m)) /\ nabd_min_tail
         \/ Scans \/ clean_done
  PROVE  GroupsInv'
<1> USE GroupsAssumption
<1> USE DEF GroupsInv
<1>1. UNCHANGED <<ring, attached, table, member, history>>
  BY Zenon DEF nabd_min_tail, Scans, min_tail_active, min_tail_tail, min_tail_return,
     clean_done
<1>2. (Owned /\ BufferInv /\ MemberInv)'
  BY <1>1, Zenon DEF Owned, BufferInv, MemberInv, Knows, Within, get_slot
<1>3. attached' \in BOOLEAN
  BY <1>1, Zenon DEF GroupsTypeOK
<1>4. ASSUME cpc' \in {"idle", "scan", "scan_tail", "clean"},
             scan' \in 0 .. MaxConsumers + 1, min_tail' \in Position \cup {None}
      PROVE  GroupsTypeOK'
  BY <1>1, <1>3, <1>4, Zenon DEF GroupsTypeOK
<1>5. CASE (\A m \in Members : ~Creating(m)) /\ nabd_min_tail
  <2>1. GroupsTypeOK'
    BY <1>4, <1>5 DEF nabd_min_tail, Cleaner, GroupsTypeOK
  <2>2. CleanerInv'
    BY <1>1, <1>5
       DEF nabd_min_tail, Cleaner, GroupsTypeOK, Position, Group, BufferInv,
           CleanerInv, MemberInv, Knows, Within, Scanning, Creating, CreatePCs
  <2> QED
    BY <1>2, <2>1, <2>2, Zenon
<1>6. CASE min_tail_active
  <2>1. scan \in 1 .. MaxConsumers
    BY <1>6 DEF min_tail_active, CleanerInv, Scanning
  <2>2. GroupsTypeOK'
    <3>1. scan' \in 0 .. MaxConsumers + 1
      BY <1>6, <2>1 DEF min_tail_active, Cleaner
    <3> QED
      BY <1>4, <1>6, <3>1, Zenon DEF min_tail_active, Cleaner, GroupsTypeOK
  <2>3. active[scan] # 1 => started[scan] = None
    BY <2>1, Zenon DEF BufferInv, Group
  <2>4. CleanerInv'
    <3>1. CASE active[scan] = 1
      BY <1>1, <1>6, <2>1, <3>1, Zenon
         DEF min_tail_active, Cleaner, Group, CleanerInv, Scanning, Creating
    <3>2. CASE active[scan] # 1
      <4>1. \A g \in Group : g < scan + 1 => g < scan \/ g = scan
        BY <2>1 DEF Group
      <4> QED
        BY <1>1, <1>6, <2>1, <2>3, <3>2, <4>1
           DEF min_tail_active, Cleaner, CleanerInv, Scanning, Creating
    <3> QED
      BY <3>1, <3>2, Zenon
  <2> QED
    BY <1>2, <2>2, <2>4
<1>7. CASE min_tail_tail
  <2>1. scan \in 1 .. MaxConsumers
    BY <1>7, Zenon DEF min_tail_tail, CleanerInv, Group
  <2>2. GroupsTypeOK'
    BY <1>4, <1>7, <2>1 DEF min_tail_tail, Cleaner, GroupsTypeOK, Group
  <2>3. CleanerInv'
    BY <1>1, <1>7, <2>1
       DEF min_tail_tail, Cleaner, GroupsTypeOK, Position, Group, BufferInv, CleanerInv,
           Scanning, Creating
  <2> QED
    BY <1>2, <2>2, <2>3
<1>8. CASE min_tail_return
  <2>1. GroupsTypeOK'
    BY <1>4, <1>8 DEF min_tail_return, Cleaner, GroupsTypeOK
  <2>2. CleanerInv'
    BY <1>1, <1>8
       DEF min_tail_return, Cleaner, GroupsTypeOK, Position, Group, BufferInv, CleanerInv,
           Scanning, Creating, CreatePCs
  <2> QED
    BY <1>2, <2>1, <2>2
<1>9. CASE clean_done
  <2>1. GroupsTypeOK'
    BY <1>4, <1>9 DEF clean_done, Cleaner, GroupsTypeOK
  <2>2. CleanerInv'
    BY <1>1, <1>9, Zenon DEF clean_done, Cleaner, CleanerInv, Scanning
  <2> QED
    BY <1>2, <2>1, <2>2
<1> QED
  BY <1>5, <1>6, <1>7, <1>8, <1>9, Zenon DEF Scans

\* A member's step changes its own locals only.
LEMMA MemberFrame ==
  ASSUME GroupsTypeOK, NEW m \in Members, NEW pc, NEW g, NEW id, NEW t, NEW b,
         Member(m, pc, g, id, t, b)
  PROVE  /\ mpc'[m] = pc /\ at'[m] = g /\ mtail'[m] = t /\ mbuf'[m] = b
         /\ \A n \in Members \ {m} : /\ mpc'[n] = mpc[n] /\ at'[n] = at[n]
                                    /\ mtail'[n] = mtail[n] /\ mbuf'[n] = mbuf[n]
  BY Zenon DEF GroupsTypeOK, Member

\* A step of a member's call keeps the types of its locals.
LEMMA MemberType ==
  ASSUME GroupsTypeOK, NEW m \in Members,
         NEW pc \in PCs, NEW g \in Group \cup {0}, NEW id \in GroupIds \cup Group \cup {0},
         NEW t \in Position, NEW b \in Position \cup {None},
         Member(m, pc, g, id, t, b)
  PROVE  /\ mpc' \in [Members -> PCs] /\ at' \in [Members -> Group \cup {0}]
         /\ want' \in [Members -> GroupIds \cup Group \cup {0}]
         /\ mtail' \in [Members -> Position]
         /\ mbuf' \in [Members -> Position \cup {None}]
  BY Zenon DEF GroupsTypeOK, Member

\* A step of a member that leaves the table alone preserves the invariant, if it
\* takes no entry and the member knows afterwards what it should.
LEMMA LocalStep ==
  ASSUME GroupsInv, NEW m \in Members,
         NEW pc \in PCs, NEW g \in Group \cup {0}, NEW id \in GroupIds \cup Group \cup {0},
         NEW t \in Position, NEW b \in Position \cup {None},
         Member(m, pc, g, id, t, b),
         failure' \in [Members -> {"NONE", "EINVAL", "ENOMEM", "ENOENT", "calloc"}],
         UNCHANGED <<ring, attached, table, cleaner, history>>,
         g # 0 /\ pc # "create_cas" => g = at[m] /\ mpc[m] # "create_cas",
         pc \in CreatePCs => Creating(m) \/ ~Scanning,
         pc = "create_tail" => t = head,
         Knows(m)'
  PROVE  GroupsInv'
<1> USE GroupsAssumption
<1> USE DEF GroupsInv
<1>1. BufferInv'
  BY Zenon DEF BufferInv, get_slot
<1>2. attached' \in BOOLEAN
  BY Zenon DEF GroupsTypeOK
<1>3. GroupsTypeOK'
  BY <1>2, MemberType, Zenon DEF GroupsTypeOK
<1>4. /\ mpc'[m] = pc /\ at'[m] = g /\ mtail'[m] = t
      /\ \A n \in Members \ {m} : /\ mpc'[n] = mpc[n] /\ at'[n] = at[n]
                                 /\ mtail'[n] = mtail[n] /\ mbuf'[n] = mbuf[n]
  BY MemberFrame
<1>5. Owned'
  BY <1>4 DEF Owned
<1>6. CleanerInv'
  BY <1>4, Zenon DEF CleanerInv, Scanning, Creating
<1>7. \A n \in Members \ {m} : Knows(n)'
  BY <1>4 DEF MemberInv, Knows, Within
<1> QED
  BY <1>1, <1>3, <1>5, <1>6, <1>7, Zenon DEF MemberInv

\* What a step of member m leaves alone, and that no other member is at its entry.
OthersStay(m) ==
  \A n \in Members \ {m} : /\ mpc'[n] = mpc[n] /\ at'[n] = at[n]
                          /\ mtail'[n] = mtail[n] /\ mbuf'[n] = mbuf[n]

ElsewhereStays(m) ==
  \A g \in Group \ {at[m]} :
    active'[g] = active[g] /\ gtail'[g] = gtail[g] /\ started'[g] = started[g]

Alone(m) == \A n \in Members \ {m} : at[n] = at[m] => mpc[n] = "create_cas"

\* What is known of a member inside a call, and of the others after its step.
LEMMA TableFrame ==
  ASSUME GroupsInv, NEW m \in Members, mpc[m] # "idle",
         UNCHANGED <<ring, attached, cleaner>>
  PROVE  /\ GroupsTypeOK /\ Knows(m) /\ at[m] \in Group /\ want[m] \in GroupIds \cup Group \cup {0}
         /\ mtail[m] \in Position /\ mbuf[m] \in Position \cup {None}
         /\ 0 \in Position /\ head \in Position
         /\ attached' \in BOOLEAN
         /\ mpc[m] # "create_cas" => Alone(m)
         /\ OthersStay(m) /\ ElsewhereStays(m) /\ Alone(m)
              => \A n \in Members \ {m} : Knows(n)'
<1> USE GroupsAssumption
<1> USE DEF GroupsInv, OthersStay, ElsewhereStays, Alone
<1>1. at[m] \in Group
  BY DEF GroupsTypeOK, MemberInv, Knows
<1>2. /\ GroupsTypeOK /\ Knows(m) /\ want[m] \in GroupIds \cup Group \cup {0}
      /\ mtail[m] \in Position /\ mbuf[m] \in Position \cup {None}
      /\ 0 \in Position /\ head \in Position
  BY DEF GroupsTypeOK, MemberInv, Position
<1>3. attached' \in BOOLEAN
  BY Zenon DEF GroupsTypeOK
<1>4. mpc[m] # "create_cas" => Alone(m)
  BY <1>1 DEF Owned, Group
<1>5. ASSUME OthersStay(m), ElsewhereStays(m), Alone(m)
      PROVE  \A n \in Members \ {m} : Knows(n)'
  <2> SUFFICES ASSUME NEW n \in Members \ {m} PROVE Knows(n)'
    BY Zenon
  <2>1. Knows(n) /\ at[n] \in Group \cup {0}
    BY Zenon DEF MemberInv, GroupsTypeOK
  <2>2. CASE at[n] \in {0, at[m]}
    BY <1>1, <1>5, <2>1, <2>2, Zenon DEF Knows, Within, Group
  <2>3. CASE at[n] \in Group \ {at[m]}
    BY <1>5, <2>1, <2>3 DEF Knows, Within
  <2> QED
    BY <2>1, <2>2, <2>3, Zenon
<1> QED
  BY <1>1, <1>2, <1>3, <1>4, <1>5, Zenon

\* The locals of the members after a step of one of them.
LEMMA LocalFrame ==
  ASSUME GroupsTypeOK, NEW m \in Members, NEW pc, NEW g, NEW id, NEW t, NEW b,
         Member(m, pc, g, id, t, b)
  PROVE  mpc'[m] = pc /\ at'[m] = g /\ mtail'[m] = t /\ mbuf'[m] = b /\ OthersStay(m)
BY MemberFrame, Zenon DEF OthersStay

\* The end of nabd_consumer_create, and the steps that move a group: the same holds.
LEMMA AdvanceSteps ==
  ASSUME GroupsInv, NEW m \in Members,
         \/ create_alloc(m) \/ pop_advance(m) \/ release_store(m)
  PROVE  GroupsInv'
<1>1. UNCHANGED <<ring, attached, cleaner>> /\ mpc[m] # "idle"
  BY Zenon DEF create_alloc, pop_advance, release_store, Advance
<1>2. /\ GroupsTypeOK /\ Knows(m) /\ at[m] \in Group /\ want[m] \in GroupIds \cup Group \cup {0}
      /\ mtail[m] \in Position /\ mbuf[m] \in Position \cup {None}
      /\ 0 \in Position /\ head \in Position
      /\ Owned /\ BufferInv /\ CleanerInv
  BY <1>1, TableFrame, Zenon DEF GroupsInv
<1>3. attached' \in BOOLEAN
  BY <1>1, TableFrame, Zenon
<1>4. mpc[m] # "create_cas" => Alone(m)
  BY <1>1, TableFrame, Zenon
<1>5. ASSUME NEW pc, NEW g, NEW id, NEW t, NEW b, Member(m, pc, g, id, t, b)
      PROVE  mpc'[m] = pc /\ at'[m] = g /\ mtail'[m] = t /\ mbuf'[m] = b /\ OthersStay(m)
  BY <1>2, <1>5, LocalFrame, Zenon
<1>6. ASSUME OthersStay(m), ElsewhereStays(m), Alone(m)
      PROVE  \A n \in Members \ {m} : Knows(n)'
  BY <1>1, <1>6, TableFrame, Zenon
<1>7. CASE create_alloc(m)
  <2>1. PICK g \in {0, at[m]} :
          /\ mpc[m] = "create_alloc" /\ mpc'[m] = "idle" /\ at'[m] = g /\ OthersStay(m)
          /\ Return(m, g) /\ UNCHANGED <<group_id, gtail>>
          /\ \/ g = at[m] /\ UNCHANGED <<active, failure, started, read>>
             \/ /\ g = 0
                /\ active' = [active EXCEPT ![at[m]] = 0]
                /\ started' = [started EXCEPT ![at[m]] = None]
                /\ read' = [read EXCEPT ![at[m]] = None]
                /\ failure' = [failure EXCEPT ![m] = "calloc"]
    BY <1>5, <1>7, Zenon DEF create_alloc, Return, Fails
  <2>2. GroupsTypeOK'
    <3>1. /\ active' \in [Group -> {0, 1}]
          /\ started' \in [Group -> Position \cup {None}]
          /\ read' \in [Group -> Position \cup {None}]
          /\ failure' \in [Members -> {"NONE", "EINVAL", "ENOMEM", "ENOENT", "calloc"}]
      BY <1>2, <2>1, Zenon DEF GroupsTypeOK
    <3>2. "idle" \in PCs
      BY Zenon DEF PCs
    <3> QED
      BY <1>1, <1>2, <1>3, <2>1, <3>1, <3>2, MemberType, Zenon
         DEF GroupsTypeOK, Return
  <2>3. /\ ElsewhereStays(m)
        /\ g # 0 => active'[at[m]] = active[at[m]] /\ started'[at[m]] = started[at[m]]
        /\ g = 0 => started'[at[m]] = None
    <3>1. at[m] # 0 /\ at[m] \in Group
      BY <1>2 DEF Group
    <3>2. active \in [Group -> {0, 1}] /\ started \in [Group -> Position \cup {None}]
      BY <1>2, Zenon DEF GroupsTypeOK
    <3>3. CASE g = at[m] /\ UNCHANGED <<active, started>> /\ UNCHANGED gtail
      BY <3>1, <3>3, Zenon DEF ElsewhereStays
    <3>4. CASE /\ g = 0 /\ UNCHANGED gtail
               /\ active' = [active EXCEPT ![at[m]] = 0]
               /\ started' = [started EXCEPT ![at[m]] = None]
      BY <3>1, <3>2, <3>4, Zenon DEF ElsewhereStays
    <3> QED
      BY <2>1, <3>3, <3>4, Zenon
  <2>4. Knows(m)'
    BY <1>2, <2>1, <2>3, Zenon DEF Knows, Within
  <2>5. \A n \in Members \ {m} : Knows(n)'
    BY <1>4, <1>6, <2>1, <2>3, Zenon
  <2>6. Owned'
    <3>1. mpc[m] # "create_cas" /\ at'[m] \in {0, at[m]} /\ OthersStay(m) /\ Owned
      BY <1>2, <2>1, Zenon
    <3> QED
      BY <3>1 DEF Owned, OthersStay
  <2>7. CleanerInv'
    BY <1>1, <1>2, <2>1, <2>3, Zenon
       DEF CleanerInv, Scanning, Creating, CreatePCs, OthersStay, ElsewhereStays
  <2>8. BufferInv'
    BY <1>1, <1>2, <2>1, <2>3 DEF BufferInv, get_slot, ElsewhereStays
  <2> QED
    BY <2>2, <2>4, <2>5, <2>6, <2>7, <2>8, Zenon DEF GroupsInv, MemberInv
<1>8. CASE pop_advance(m) \/ release_store(m)
  <2>1. /\ mpc[m] \in {"pop_advance", "release"}
        /\ Return(m, at[m]) /\ mpc'[m] = "idle" /\ at'[m] = at[m] /\ OthersStay(m)
        /\ gtail' = [gtail EXCEPT ![at[m]] = mtail[m] + 1]
        /\ read' = [read EXCEPT ![at[m]] = mbuf[m]]
        /\ UNCHANGED <<active, group_id, failure, started>>
    BY <1>5, <1>8, Zenon DEF pop_advance, release_store, Advance, Return
  <2>2. /\ mtail[m] = gtail[at[m]] /\ mtail[m] < head /\ started[at[m]] # None
        /\ mpc[m] \notin CreatePCs
    BY <1>2, <2>1, Zenon DEF Knows, Within, Group, CreatePCs
  <2>3. GroupsTypeOK'
    <3>1. mtail[m] + 1 \in Position
      <4>1. mtail[m] \in 0 .. MaxHead /\ head \in 0 .. MaxHead /\ mtail[m] < head
        BY <1>2, <2>2, Zenon DEF Position
      <4> QED
        BY <4>1, GroupsAssumption DEF Position
    <3>2. gtail' \in [Group -> Position] /\ read' \in [Group -> Position \cup {None}]
      BY <1>2, <2>1, <3>1, Zenon DEF GroupsTypeOK
    <3>3. "idle" \in PCs
      BY Zenon DEF PCs
    <3> QED
      BY <1>1, <1>2, <1>3, <2>1, <3>2, <3>3, MemberType, Zenon
         DEF GroupsTypeOK, Return
  <2>4. ElsewhereStays(m) /\ gtail'[at[m]] = gtail[at[m]] + 1 /\ gtail[at[m]] \in Nat
    BY <1>2, <2>1, <2>2 DEF GroupsTypeOK, Position, ElsewhereStays
  <2>5. Knows(m)'
    BY <1>2, <2>1, <2>2, Zenon DEF Knows, Within
  <2>6. \A n \in Members \ {m} : Knows(n)'
    BY <1>4, <1>6, <2>1, <2>4, Zenon
  <2>7. Owned'
    <3>1. mpc[m] # "create_cas"
      BY <2>1, Zenon
    <3>2. at'[m] = at[m] /\ OthersStay(m)
      BY <2>1, Zenon
    <3> QED
      BY <3>1, <3>2, <1>2 DEF Owned, OthersStay
  <2>8. CleanerInv'
    <3>1. /\ mpc'[m] = "idle" /\ OthersStay(m) /\ UNCHANGED started
          /\ \A g \in Group : gtail[g] \in Nat /\ gtail'[g] >= gtail[g]
      BY <1>2, <2>1, <2>4 DEF GroupsTypeOK, Position, ElsewhereStays
    <3>2. min_tail \in Nat \cup {None}
      BY <1>2 DEF GroupsTypeOK, Position
    <3>3. \A g \in Group : gtail'[g] \in Nat
      BY <2>3 DEF GroupsTypeOK, Position
    <3> QED
      BY <1>1, <1>2, <3>1, <3>2, <3>3
         DEF CleanerInv, Scanning, Creating, CreatePCs, OthersStay
  <2>9. BufferInv'
    BY <1>1, <1>2, <2>1, <2>2, <2>4
       DEF BufferInv, get_slot, GroupsTypeOK, Position, ElsewhereStays
  <2> QED
    BY <2>3, <2>5, <2>6, <2>7, <2>8, <2>9, Zenon DEF GroupsInv, MemberInv
<1> QED
  BY <1>7, <1>8, Zenon
=============================================================================

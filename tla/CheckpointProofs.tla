-------------------------- MODULE CheckpointProofs --------------------------
(***************************************************************************)
(* Proofs about Checkpoint: a member that dies and resumes has consumed    *)
(* all that lies before its group's position, and no checkpoint is ahead   *)
(* of what it has consumed.  The argument is CheckpointInv: while there is *)
(* a consumption to go on with, a group the member made holds the cleaner  *)
(* back, so what the cleaner gives back the member has consumed.           *)
(***************************************************************************)
EXTENDS Checkpoint, GroupsSteps

\* What lies before a position lies before a later one.
LEMMA BelowLess ==
  ASSUME NEW m, base[m] \in Nat, NEW s \in Nat, NEW t \in Nat, s <= t, Below(m, t)
  PROVE  Below(m, s)
BY DEF Below

\* The same of positions as numbers.
LEMMA NothingBetween == \A s, t \in Nat : t <= s => s .. t - 1 = {}
OBVIOUS

\* Entries are numbered in the order a loop over the table visits them.
LEMMA NextEntry == \A g \in Group : g < MaxConsumers => g + 1 \in Group
BY GroupsAssumption DEF Group

\* A position is a number.
LEMMA PositionFacts == \A t \in Position : t \in Nat /\ t # None
BY GroupsAssumption DEF Position

\* CheckpointInv holds of an empty queue without groups and files.
LEMMA CheckpointInitInv == CheckpointInit => CheckpointInv
<1> USE GroupsAssumption, CheckpointAssumption
<1> SUFFICES ASSUME CheckpointInit PROVE CheckpointInv
  BY Zenon
<1>1. GroupsTypeOK
  BY GroupsInitInv, Zenon DEF CheckpointInit, GroupsInv
<1>2. CheckpointTypeOK
  <2>1. Absent \in CheckpointFile
    BY DEF Absent, CheckpointFile, Position
  <2>2. saved \in [Members -> BOOLEAN]
    BY Zenon DEF CheckpointInit
  <2>3. base \in [Members -> Position] /\ seen \in [Members -> SUBSET (Position \cup {None})]
    BY DEF CheckpointInit, Position
  <2> QED
    BY <1>1, <2>1, <2>2, <2>3, Zenon DEF CheckpointInit, CheckpointTypeOK
<1>3. StoredInv /\ ScanInv /\ EntryInv
  BY DEF CheckpointInit, GroupsInit, StoredInv, ScanInv, EntryInv, Scanning
<1>4. ASSUME NEW m \in Members PROVE Place(m) /\ Kept(m)
  <2>1. /\ mpc[m] = "idle" /\ at[m] = 0 /\ step[m] = "none" /\ ckpt[m] = None
        /\ ~HasRecord(m)
    BY Zenon DEF CheckpointInit, GroupsInit, HasRecord, Absent
  <2> QED
    BY <2>1, Zenon DEF Place, Kept, Pops, CreatePCs, Using, Live
<1> QED
  BY <1>2, <1>3, <1>4, Zenon DEF CheckpointInv

\* A step that leaves a member alone: its locals, its file and history, and the
\* groups that it made.
Undisturbed(n) ==
  /\ mpc'[n] = mpc[n] /\ at'[n] = at[n] /\ mtail'[n] = mtail[n] /\ mbuf'[n] = mbuf[n]
  /\ file'[n] = file[n] /\ ckpt'[n] = ckpt[n] /\ step'[n] = step[n]
  /\ base'[n] = base[n] /\ seen'[n] = seen[n]
  /\ \A g \in Group : owner[g] = n =>
       owner'[g] = n /\ gtail'[g] = gtail[g] /\ started'[g] = started[g]

\* What is known of a member is still so after a step that leaves it alone.
LEMMA PlaceStays ==
  ASSUME CheckpointInv, NEW n \in Members, Undisturbed(n),
         head' \in Position, head <= head',
         tail' = tail \/ (cpc = "clean" /\ tail' = tail + 1 /\ tail < min_tail)
  PROVE  Place(n)'
<1> USE GroupsAssumption
<1>1. /\ Place(n) /\ mtail[n] \in Nat /\ head \in Nat /\ tail \in Nat
      /\ at[n] \in Group \cup {0} /\ head' \in Nat
      /\ (step[n] # "none" => ckpt[n].tail \in Nat)
      /\ (cpc = "clean" => min_tail \in Nat)
  BY DEF CheckpointInv, CheckpointTypeOK, GroupsTypeOK, Position, Place, CheckpointFile,
         ScanInv
<1>2. cpc = "clean" /\ mpc[n] = "create_tail" => min_tail <= mtail[n]
  BY Zenon DEF CheckpointInv, ScanInv
<1>3. /\ mpc'[n] = mpc[n] /\ at'[n] = at[n] /\ mtail'[n] = mtail[n]
      /\ ckpt'[n] = ckpt[n] /\ step'[n] = step[n]
      /\ HasRecord(n)' = HasRecord(n) /\ Using(n)' = Using(n)
  BY Zenon DEF Undisturbed, HasRecord, Using
<1>4. at[n] # 0 /\ owner[at[n]] = n =>
        /\ owner'[at[n]] = n /\ gtail'[at[n]] = gtail[at[n]]
        /\ started'[at[n]] = started[at[n]]
  BY <1>1, Zenon DEF Undisturbed
<1>5. mpc[n] \in Pops \cup (CreatePCs \ {"create_cas"}) => at[n] # 0 /\ owner[at[n]] = n
  BY <1>1, Zenon DEF Place, Using, Pops, CreatePCs
<1>6. /\ mpc[n] = "create_tail" => tail' <= mtail[n] /\ mtail[n] <= head'
      /\ mpc[n] \in {"pop_copy", "pop_advance"} => mtail[n] < head'
      /\ step[n] = "restore_tail" => ckpt[n].tail <= head'
  BY <1>1, <1>2 DEF Place
<1> HIDE DEF Using, HasRecord
<1>7. (mpc[n] \in CreatePCs \ {"create_cas"} \/ Using(n)) => at[n] # 0 /\ owner[at[n]] = n
  BY <1>1, <1>5, Zenon DEF Place, Using
<1> QED
  BY <1>1, <1>3, <1>4, <1>5, <1>6, <1>7, ZenonT(40) DEF Place, Pops, CreatePCs

\* The same of what a member has consumed, when the cleaner does not move.
LEMMA KeptStays ==
  ASSUME CheckpointInv, NEW n \in Members, Undisturbed(n), UNCHANGED <<tail, cleaner>>
  PROVE  Kept(n)'
<1>1. Kept(n) /\ Place(n) /\ at[n] \in Group \cup {0}
  BY Zenon DEF CheckpointInv, CheckpointTypeOK, GroupsTypeOK
<1>2. /\ mpc'[n] = mpc[n] /\ at'[n] = at[n] /\ mtail'[n] = mtail[n]
      /\ ckpt'[n] = ckpt[n] /\ step'[n] = step[n] /\ mbuf'[n] = mbuf[n]
      /\ file'[n] = file[n] /\ base'[n] = base[n] /\ seen'[n] = seen[n]
      /\ tail' = tail /\ cpc' = cpc /\ scan' = scan /\ min_tail' = min_tail
      /\ HasRecord(n)' = HasRecord(n) /\ Using(n)' = Using(n) /\ Live(n)' = Live(n)
      /\ Scanning' = Scanning
  BY Zenon DEF Undisturbed, HasRecord, Using, Live, cleaner, Scanning
<1>3. \A g \in Group : owner[g] = n =>
        owner'[g] = n /\ gtail'[g] = gtail[g] /\ started'[g] = started[g]
  BY Zenon DEF Undisturbed
<1>4. \A g \in Group : Keeper(n, g) => Keeper(n, g)'
  BY <1>2, <1>3, Zenon DEF Keeper, Below
<1>5. Using(n) \/ mpc[n] = "create_alloc" => gtail'[at[n]] = gtail[at[n]]
  BY <1>1, <1>3, Zenon DEF Place, Using, CreatePCs
<1>6. /\ HasRecord(n) => Below(n, file[n].tail)'
      /\ step[n] # "none" => Below(n, ckpt[n].tail)'
      /\ Using(n) /\ step[n] \in {"none", "save_open", "save_write"} => Below(n, gtail[at[n]])'
      /\ mpc[n] = "create_alloc" /\ step[n] = "none" => Below(n, gtail[at[n]])'
      /\ mpc[n] = "pop_advance" => (base[n] .. mtail[n] \subseteq seen[n] \cup {mbuf[n]})'
  BY <1>1, <1>2, <1>5, Zenon DEF Kept, Below
<1>7. Live(n) =>
       /\ Below(n, tail)'
       /\ cpc = "clean" => Below(n, min_tail)'
       /\ Scanning => \/ min_tail # None /\ Below(n, min_tail)'
                      \/ \E g \in Group : Keeper(n, g)' /\ g >= scan
  BY <1>1, <1>2, <1>4, Zenon DEF Kept, Below
<1>8. Live(n) =>
        \E g \in Group : Keeper(n, g)'
                         /\ (mpc[n] = "create_alloc" /\ step[n] = "creating" => g # at[n])
  BY <1>1, <1>2, <1>4, Zenon DEF Kept
<1> QED
  BY <1>2, <1>6, <1>7, <1>8, Zenon DEF Kept

\* A step of the producer or of the cleaner leaves every member alone.
LEMMA AllUndisturbed ==
  ASSUME UNCHANGED <<table, member, history, store>>
  PROVE  \A n \in Members : Undisturbed(n)
BY Zenon DEF Undisturbed, table, member, history, store

\* Steps of the producer, and of the embedding program.
LEMMA ProducerKeeps ==
  ASSUME CheckpointInv, attach_multi \/ Produces, UNCHANGED store
  PROVE  CheckpointInv'
<1> USE GroupsAssumption
<1>1. /\ UNCHANGED <<tail, table, member, cleaner, history>>
      /\ CheckpointTypeOK /\ GroupsTypeOK /\ StoredInv /\ ScanInv /\ EntryInv
  BY Zenon DEF attach_multi, Produces, nabd_push, push_publish, ring, CheckpointInv,
     CheckpointTypeOK
<1>2. StoredInv' /\ GroupsTypeOK' /\ head <= head'
  <2>1. CASE attach_multi
    <3>1. UNCHANGED ring /\ attached' \in BOOLEAN
      BY <2>1, Zenon DEF attach_multi
    <3>2. head <= head'
      BY <1>1, <3>1 DEF GroupsTypeOK, Position, ring
    <3> QED
      BY <1>1, <3>1, <3>2, Zenon
         DEF ring, table, member, cleaner, history, GroupsTypeOK, StoredInv, get_slot
  <2>2. CASE nabd_push
    <3>1. \A p \in tail .. head - 1 : get_slot(p) # get_slot(head)
      BY <1>1, <2>2, SlotsApart, SMTT(30) DEF nabd_push, GroupsTypeOK, Position
    <3>2. slots'[get_slot(head)] = head
      BY <1>1, <2>2, SlotType DEF nabd_push, GroupsTypeOK, Position
    <3>3. \A p \in tail .. head - 1 : slots'[get_slot(p)] = p
      BY <1>1, <2>2, <3>1, SlotType, SMTT(30)
         DEF nabd_push, GroupsTypeOK, StoredInv, Position
    <3>4. GroupsTypeOK'
      <4>1. slots' \in [0 .. Capacity - 1 -> Position \cup {None}] /\ ppc' = "publish"
        BY <1>1, <2>2, Zenon DEF nabd_push, GroupsTypeOK
      <4>2. UNCHANGED <<head, tail, attached>>
        BY <2>2, Zenon DEF nabd_push
      <4> QED
        BY <1>1, <4>1, <4>2, Zenon DEF GroupsTypeOK, table, member, cleaner, history
    <3>5. head' = head /\ head <= head'
      BY <1>1, <2>2 DEF nabd_push, GroupsTypeOK, Position
    <3> QED
      BY <1>1, <2>2, <3>2, <3>3, <3>4, <3>5, Zenon
         DEF nabd_push, StoredInv, get_slot, table
  <2>3. CASE push_publish
    <3>1. \A p \in tail .. head : slots[get_slot(p)] = p
      BY <1>1, <2>3 DEF push_publish, GroupsTypeOK, StoredInv, Position
    <3>2. StoredInv'
      BY <1>1, <2>3, <3>1 DEF push_publish, GroupsTypeOK, StoredInv, Position, get_slot,
         table
    <3>3. attached' \in BOOLEAN
      BY <1>1, <2>3, Zenon DEF push_publish, GroupsTypeOK
    <3>4. GroupsTypeOK' /\ head <= head'
      <4>1. head' \in Position /\ tail' = tail /\ ppc' = "idle" /\ head <= head'
        BY <1>1, <2>3 DEF push_publish, GroupsTypeOK, StoredInv, Position
      <4>2. slots' = slots
        BY <2>3, Zenon DEF push_publish
      <4> QED
        BY <1>1, <3>3, <4>1, <4>2, Zenon DEF GroupsTypeOK, table, member, cleaner, history
    <3> QED
      BY <3>2, <3>4, Zenon
  <2> QED
    BY <2>1, <2>2, <2>3, Zenon DEF Produces
<1>3. CheckpointTypeOK'
  BY <1>1, <1>2, Zenon DEF CheckpointTypeOK, store
<1>4. ScanInv' /\ EntryInv'
  <2>1. min_tail' # None => min_tail' <= head'
    BY <1>1, <1>2 DEF GroupsTypeOK, Position, ScanInv, cleaner
  <2> QED
    BY <1>1, <2>1, Zenon DEF ScanInv, EntryInv, Scanning, Creating, table, member, cleaner,
       history, store
<1>5. \A n \in Members : Place(n)' /\ Kept(n)'
  <2>1. head' \in Position
    BY <1>2, Zenon DEF GroupsTypeOK
  <2> QED
    BY <1>1, <1>2, <2>1, AllUndisturbed, PlaceStays, KeptStays, Zenon
<1> QED
  BY <1>2, <1>3, <1>4, <1>5, Zenon DEF CheckpointInv

\* nabd_release by the cleaner: what it gives back, every member has consumed that
\* has a consumption to go on with.
LEMMA ReleaseKeeps ==
  ASSUME CheckpointInv, clean_release, UNCHANGED store
  PROVE  CheckpointInv'
<1> USE GroupsAssumption
<1>1. /\ UNCHANGED <<head, slots, ppc, attached, table, member, cleaner, history>>
      /\ CheckpointTypeOK /\ GroupsTypeOK /\ StoredInv /\ ScanInv /\ EntryInv
      /\ cpc = "clean" /\ tail < min_tail /\ tail' = tail + 1
  BY Zenon DEF clean_release, CheckpointInv, CheckpointTypeOK
<1>2. /\ min_tail \in Nat /\ min_tail <= head /\ tail + 1 <= min_tail
      /\ tail \in Nat /\ head \in Nat /\ head <= MaxHead
  BY <1>1 DEF GroupsTypeOK, Position, ScanInv
<1>3. GroupsTypeOK'
  <2>1. tail' \in Position
    BY <1>1, <1>2 DEF Position
  <2> QED
    BY <1>1, <2>1, Zenon DEF GroupsTypeOK, table, member, cleaner, history
<1>4. CheckpointTypeOK'
  BY <1>1, <1>3, Zenon DEF CheckpointTypeOK, store
<1>5. StoredInv'
  BY <1>1, <1>2 DEF StoredInv, get_slot, table
<1>6. ScanInv' /\ EntryInv'
  BY <1>1, Zenon DEF ScanInv, EntryInv, Scanning, Creating, table, member, cleaner,
     history, store
<1>7. ASSUME NEW n \in Members PROVE Place(n)' /\ Kept(n)'
  <2>1. Undisturbed(n)
    BY <1>1, AllUndisturbed, Zenon
  <2>2. Place(n)'
    <3>1. head' \in Position /\ head <= head'
      BY <1>1, <1>2 DEF Position
    <3> QED
      BY <1>1, <2>1, <3>1, PlaceStays, Zenon
  <2>3. Kept(n) /\ base[n] \in Nat
    BY DEF CheckpointInv, CheckpointTypeOK, Position
  <2>4. Live(n) => Below(n, tail + 1)
    BY <1>1, <1>2, <2>3, BelowLess DEF Kept
  <2>5. Kept(n)'
    BY <1>1, <2>3, <2>4, Zenon
       DEF Kept, HasRecord, Using, Live, Keeper, Below, Scanning, table, member, cleaner,
           history, store
  <2> QED
    BY <2>2, <2>5, Zenon
<1> QED
  BY <1>4, <1>5, <1>6, <1>7, Zenon DEF CheckpointInv

\* Steps of nabd_min_tail, and the end of a cleaning: the minimum lies before a group
\* of every member that has a consumption to go on with, once it is past that group.
LEMMA CleanerKeeps ==
  ASSUME CheckpointInv, UNCHANGED store,
         \/ (\A m \in Members : ~Creating(m)) /\ nabd_min_tail
         \/ Scans \/ clean_done
  PROVE  CheckpointInv'
<1> USE GroupsAssumption
<1>1. /\ UNCHANGED <<ring, attached, table, member, history>>
      /\ CheckpointTypeOK /\ GroupsTypeOK /\ StoredInv /\ ScanInv /\ EntryInv
  BY Zenon DEF nabd_min_tail, Scans, min_tail_active, min_tail_tail, min_tail_return,
     clean_done, CheckpointInv, CheckpointTypeOK
<1>2. StoredInv' /\ EntryInv'
  BY <1>1, Zenon DEF StoredInv, EntryInv, get_slot, ring, table, history, store
<1>3. ASSUME NEW n \in Members PROVE Place(n)'
  <2>1. head' \in Position /\ head <= head' /\ tail' = tail
    BY <1>1 DEF ring, GroupsTypeOK, Position
  <2> QED
    BY <1>1, <2>1, AllUndisturbed, PlaceStays, Zenon
\* What has to be shown of a member for its Kept.
<1>4. ASSUME NEW n \in Members,
             Live(n) /\ cpc' = "clean" => Below(n, min_tail'),
             Live(n) /\ Scanning' => \/ min_tail' # None /\ Below(n, min_tail')
                                     \/ \E g \in Group : Keeper(n, g) /\ g >= scan'
      PROVE  Kept(n)'
  <2>1. Kept(n)
    BY Zenon DEF CheckpointInv
  <2> QED
    BY <1>1, <1>4, <2>1, ZenonT(40)
       DEF Kept, HasRecord, Using, Live, Keeper, Below, ring, table, member, history, store
<1>5. ASSUME cpc' \in {"idle", "scan", "scan_tail", "clean"},
             scan' \in 0 .. MaxConsumers + 1, min_tail' \in Position \cup {None}
      PROVE  CheckpointTypeOK'
  BY <1>1, <1>5, Zenon DEF GroupsTypeOK, CheckpointTypeOK, ring, table, member, history,
     store
<1>6. \A n \in Members : Kept(n) /\ base[n] \in Nat
  BY DEF CheckpointInv, CheckpointTypeOK, Position
<1>7. CASE (\A m \in Members : ~Creating(m)) /\ nabd_min_tail
  <2>1. CheckpointTypeOK'
    BY <1>1, <1>5, <1>7 DEF nabd_min_tail, Cleaner, GroupsTypeOK
  <2>2. ScanInv'
    BY <1>1, <1>7 DEF nabd_min_tail, Cleaner, GroupsTypeOK, Position, ScanInv, StoredInv,
       Scanning, Creating, CreatePCs, ring, member
  <2>3. ASSUME NEW n \in Members PROVE Kept(n)'
    <3>1. CASE attached
      <4>1. \A g \in Group : g >= 1
        BY DEF Group
      <4> QED
        BY <1>4, <1>6, <1>7, <3>1, <4>1 DEF nabd_min_tail, Cleaner, Kept, Scanning
    <3>2. CASE ~attached
      BY <1>4, <1>6, <1>7, <3>2, Zenon DEF nabd_min_tail, Cleaner, Kept, Scanning
    <3> QED
      BY <3>1, <3>2, Zenon
  <2> QED
    BY <1>2, <1>3, <2>1, <2>2, <2>3, Zenon DEF CheckpointInv
<1>8. CASE min_tail_active
  <2>1. scan \in 1 .. MaxConsumers /\ Scanning
    BY <1>1, <1>8 DEF min_tail_active, ScanInv, Scanning
  <2>2. CheckpointTypeOK'
    <3>1. scan' \in 0 .. MaxConsumers + 1
      BY <1>8, <2>1 DEF min_tail_active, Cleaner
    <3> QED
      BY <1>1, <1>5, <1>8, <3>1, Zenon DEF min_tail_active, Cleaner, GroupsTypeOK
  <2>3. ScanInv'
    BY <1>1, <1>8, <2>1 DEF min_tail_active, Cleaner, ScanInv, Scanning, Creating, Group,
       ring, member
  <2>4. ASSUME NEW n \in Members PROVE Kept(n)'
    <3>1. CASE active[scan] = 1
      <4>1. cpc' = "scan_tail" /\ scan' = scan /\ min_tail' = min_tail
        BY <1>8, <3>1, Zenon DEF min_tail_active, Cleaner
      <4> QED
        BY <1>4, <1>6, <2>1, <4>1, Zenon DEF Kept, Scanning
    <3>2. CASE active[scan] # 1
      <4>1. \A g \in Group : Keeper(n, g) => g # scan
        <5>1. \A g \in Group : started[g] # None => active[g] = 1
          BY <1>1, Zenon DEF EntryInv
        <5> QED
          BY <3>2, <5>1, Zenon DEF Keeper
      <4>2. \A g \in Group : g >= scan /\ g # scan => g >= scan + 1
        BY <2>1 DEF Group
      <4> QED
        BY <1>4, <1>6, <1>8, <2>1, <3>2, <4>1, <4>2
           DEF min_tail_active, Cleaner, Kept, Scanning
    <3> QED
      BY <3>1, <3>2, Zenon
  <2> QED
    BY <1>2, <1>3, <2>2, <2>3, <2>4, Zenon DEF CheckpointInv
<1>9. CASE min_tail_tail
  <2>1. scan \in 1 .. MaxConsumers /\ Scanning /\ scan \in Group
    BY <1>1, <1>9, Zenon DEF min_tail_tail, ScanInv, Scanning, Group
  <2>2. gtail[scan] \in Position /\ gtail[scan] <= head
    BY <1>1, <2>1, Zenon DEF GroupsTypeOK, StoredInv
  <2>3. /\ min_tail' \in Position /\ min_tail' <= head /\ min_tail' <= gtail[scan]
        /\ min_tail # None => min_tail' <= min_tail /\ min_tail \in Position
        /\ cpc' = "scan" /\ scan' = scan + 1
    BY <1>1, <1>9, <2>2 DEF min_tail_tail, Cleaner, GroupsTypeOK, Position, ScanInv
  <2>4. CheckpointTypeOK'
    BY <1>5, <2>1, <2>3
  <2>5. ScanInv'
    BY <1>1, <2>1, <2>3 DEF ScanInv, Scanning, Creating, ring, member
  <2>6. ASSUME NEW n \in Members PROVE Kept(n)'
    <3>1. min_tail' # None
      BY <2>3 DEF Position
    <3>2. Live(n) /\ min_tail # None /\ Below(n, min_tail) => Below(n, min_tail')
      BY <1>6, <2>3, BelowLess DEF Position
    <3>3. Keeper(n, scan) => Below(n, min_tail')
      BY <1>6, <2>2, <2>3, BelowLess DEF Position, Keeper
    <3>4. \A g \in Group : g >= scan /\ g # scan => g >= scan'
      BY <2>1, <2>3 DEF Group
    <3> QED
      BY <1>4, <1>6, <2>1, <2>3, <3>1, <3>2, <3>3, <3>4, Zenon DEF Kept
  <2> QED
    BY <1>2, <1>3, <2>4, <2>5, <2>6, Zenon DEF CheckpointInv
<1>10. CASE min_tail_return
  <2>1. CheckpointTypeOK'
    BY <1>1, <1>5, <1>10 DEF min_tail_return, Cleaner, GroupsTypeOK
  <2>2. ScanInv'
    BY <1>1, <1>10 DEF min_tail_return, Cleaner, GroupsTypeOK, Position, ScanInv, StoredInv,
       Scanning, Creating, CreatePCs, ring, member
  <2>3. ASSUME NEW n \in Members PROVE Kept(n)'
    <3>1. \A g \in Group : ~(g >= scan)
      BY <1>1, <1>10 DEF min_tail_return, Group, GroupsTypeOK
    <3> QED
      BY <1>4, <1>6, <1>10, <3>1, Zenon DEF min_tail_return, Cleaner, Kept, Scanning
  <2> QED
    BY <1>2, <1>3, <2>1, <2>2, <2>3, Zenon DEF CheckpointInv
<1>11. CASE clean_done
  <2>1. CheckpointTypeOK'
    BY <1>5, <1>11 DEF clean_done, Cleaner, GroupsTypeOK
  <2>2. ScanInv'
    BY <1>11, Zenon DEF clean_done, Cleaner, ScanInv, Scanning
  <2>3. \A n \in Members : Kept(n)'
    BY <1>4, <1>11, Zenon DEF clean_done, Cleaner, Scanning
  <2> QED
    BY <1>2, <1>3, <2>1, <2>2, <2>3, Zenon DEF CheckpointInv
<1> QED
  BY <1>7, <1>8, <1>9, <1>10, <1>11, Zenon DEF Scans

Steps == {"none", "save_open", "save_write", "resume", "creating", "joining", "restore_tail"}

\* A step of a member's call on its file changes its own locals only.
LEMMA StepFrame ==
  ASSUME CheckpointTypeOK, NEW m \in Members, NEW s, NEW c, Step(m, s, c)
  PROVE  /\ step'[m] = s /\ ckpt'[m] = c
         /\ \A n \in Members \ {m} : step'[n] = step[n] /\ ckpt'[n] = ckpt[n]
BY Zenon DEF CheckpointTypeOK, Step

\* It keeps their types.
LEMMA StepType ==
  ASSUME CheckpointTypeOK, NEW m \in Members,
         NEW s \in Steps, NEW c \in CheckpointFile \cup {None}, Step(m, s, c)
  PROVE  step' \in [Members -> Steps] /\ ckpt' \in [Members -> CheckpointFile \cup {None}]
BY Zenon DEF CheckpointTypeOK, Step, Steps

\* A member whose call is not one on its file.
LEMMA StepSame ==
  ASSUME CheckpointTypeOK, NEW m \in Members, UNCHANGED <<step, ckpt>>
  PROVE  Step(m, step[m], ckpt[m])
BY Zenon DEF CheckpointTypeOK, Step

\* The locals of a member after a step of its call.
LEMMA OwnLocals ==
  ASSUME CheckpointInv, NEW m \in Members, NEW pc, NEW g, NEW id, NEW t, NEW b,
         Member(m, pc, g, id, t, b)
  PROVE  mpc'[m] = pc /\ at'[m] = g /\ mtail'[m] = t /\ mbuf'[m] = b
BY Zenon DEF CheckpointInv, CheckpointTypeOK, GroupsTypeOK, Member

\* What is known of a member, as the steps below use it.
LEMMA MemberFacts ==
  ASSUME CheckpointInv, NEW m \in Members
  PROVE  /\ CheckpointTypeOK /\ GroupsTypeOK /\ StoredInv /\ ScanInv /\ EntryInv
         /\ Place(m) /\ Kept(m)
         /\ step[m] \in Steps /\ ckpt[m] \in CheckpointFile \cup {None}
         /\ file[m] \in CheckpointFile
         /\ at[m] \in Group \cup {0} /\ want[m] \in GroupIds \cup Group \cup {0}
         /\ mtail[m] \in Position /\ mbuf[m] \in Position \cup {None} /\ mpc[m] \in PCs
         /\ base[m] \in Position /\ 0 \in Position
<1>1. 0 \in Position
  BY GroupsAssumption DEF Position
<1> QED
  BY <1>1, Zenon DEF CheckpointInv, CheckpointTypeOK, GroupsTypeOK, Steps

\* A step of member m that leaves the others alone, and after which the same is known
\* of m, preserves the invariant.
LEMMA MemberStep ==
  ASSUME CheckpointInv, NEW m \in Members,
         UNCHANGED <<ring, attached, cleaner>>,
         CheckpointTypeOK', EntryInv',
         \A g \in Group : gtail'[g] <= head,
         \A n \in Members \ {m} : Undisturbed(n),
         Scanning => ~Creating(m)',
         cpc = "clean" /\ mpc'[m] = "create_tail" => min_tail <= mtail'[m],
         Place(m)', Kept(m)'
  PROVE  CheckpointInv'
<1>1. StoredInv'
  BY Zenon DEF CheckpointInv, StoredInv, get_slot, ring
<1>2. ScanInv'
  <2>1. \A n \in Members \ {m} : mpc'[n] = mpc[n] /\ mtail'[n] = mtail[n]
    BY Zenon DEF Undisturbed
  <2> QED
    BY <2>1, Zenon DEF CheckpointInv, ScanInv, Scanning, Creating, ring, cleaner
<1>3. head' \in Position /\ head <= head' /\ tail' = tail
  BY GroupsAssumption DEF CheckpointInv, CheckpointTypeOK, GroupsTypeOK, Position, ring
<1>4. \A n \in Members \ {m} : Place(n)' /\ Kept(n)'
  BY <1>3, PlaceStays, KeptStays, Zenon
<1> QED
  BY <1>1, <1>2, <1>4, Zenon DEF CheckpointInv

\* What has to be shown of a member's own step for its Kept, if the step changes no
\* position and no group.
LEMMA KeptGoesOn ==
  ASSUME NEW m \in Members, Kept(m),
         UNCHANGED <<tail, cleaner, gtail, started, owner, base, seen>>,
         mpc'[m] # "create_alloc",
         Live(m)' => Live(m),
         HasRecord(m)' => Below(m, file'[m].tail),
         step'[m] # "none" => Below(m, ckpt'[m].tail),
         Using(m)' /\ step'[m] \in {"none", "save_open", "save_write"}
           => Below(m, gtail[at'[m]]),
         mpc'[m] = "pop_advance" => base[m] .. mtail'[m] \subseteq seen[m] \cup {mbuf'[m]}
  PROVE  Kept(m)'
<1>2. \A g \in Group : Keeper(m, g)' = Keeper(m, g)
  BY Zenon DEF Keeper, Below
<1>3. /\ tail' = tail /\ cpc' = cpc /\ scan' = scan /\ min_tail' = min_tail
      /\ Scanning' = Scanning
  BY Zenon DEF cleaner, Scanning
<1>4. Live(m)' =>
       /\ Below(m, tail)'
       /\ cpc' = "clean" => Below(m, min_tail)'
       /\ Scanning' => \/ min_tail' # None /\ Below(m, min_tail)'
                       \/ \E g \in Group : Keeper(m, g)' /\ g >= scan'
  BY <1>2, <1>3, Zenon DEF Kept, Below
<1>5. Live(m)' => \E g \in Group : Keeper(m, g)'
  BY <1>2, Zenon DEF Kept
<1>6. /\ HasRecord(m)' => Below(m, file[m].tail)'
      /\ step'[m] # "none" => Below(m, ckpt[m].tail)'
      /\ Using(m)' /\ step'[m] \in {"none", "save_open", "save_write"}
           => Below(m, gtail[at[m]])'
      /\ mpc'[m] = "pop_advance" => (base[m] .. mtail[m] \subseteq seen[m] \cup {mbuf[m]})'
  BY Zenon DEF Below
<1> QED
  BY <1>4, <1>5, <1>6, Zenon DEF Kept

\* Of the calls on files only the file and the locals change.
LEMMA FileStep ==
  ASSUME CheckpointInv, NEW m \in Members,
         NEW s \in Steps, NEW c \in CheckpointFile \cup {None}, Step(m, s, c),
         file' \in [Members -> CheckpointFile], saved' \in [Members -> BOOLEAN],
         \A n \in Members \ {m} : file'[n] = file[n],
         UNCHANGED <<gvars, base, seen, owner>>,
         mpc[m] = "idle", Live(m),
         s = "none" => c = None,
         s # "none" => c \in CheckpointFile /\ Below(m, c.tail),
         s \in {"save_open", "save_write", "restore_tail"} => at[m] # 0,
         s = "resume" => at[m] = 0,
         s = "restore_tail" => c.tail <= head,
         HasRecord(m)' => Below(m, file'[m].tail),
         Using(m) /\ s \in {"none", "save_open", "save_write"} => Below(m, gtail[at[m]])
  PROVE  CheckpointInv'
<1>1. CheckpointTypeOK /\ GroupsTypeOK /\ StoredInv /\ ScanInv /\ EntryInv /\ Kept(m)
  BY MemberFacts, Zenon
<1>2. UNCHANGED <<ring, attached, cleaner, table, member, history>>
  BY Zenon DEF gvars
<1>3. /\ tail' = tail /\ gtail' = gtail /\ started' = started /\ active' = active
      /\ mpc' = mpc /\ at' = at /\ mtail' = mtail /\ mbuf' = mbuf
  BY <1>2, Zenon DEF ring, table, member, history
<1>4. /\ step'[m] = s /\ ckpt'[m] = c
      /\ \A n \in Members \ {m} : step'[n] = step[n] /\ ckpt'[n] = ckpt[n]
  BY <1>1, StepFrame, Zenon
<1>5. CheckpointTypeOK'
  <2>1. step' \in [Members -> Steps] /\ ckpt' \in [Members -> CheckpointFile \cup {None}]
    BY <1>1, StepType, Zenon
  <2>2. GroupsTypeOK'
    BY <1>1, <1>2, Zenon DEF GroupsTypeOK, ring, table, member, cleaner, history
  <2> QED
    BY <1>1, <2>1, <2>2, Zenon DEF CheckpointTypeOK, Steps
<1>6. EntryInv' /\ \A g \in Group : gtail'[g] <= head
  BY <1>1, <1>3, Zenon DEF EntryInv, StoredInv
<1>7. \A n \in Members \ {m} : Undisturbed(n)
  BY <1>3, <1>4, Zenon DEF Undisturbed
<1>8. /\ Scanning => ~Creating(m)'
      /\ cpc = "clean" /\ mpc'[m] = "create_tail" => min_tail <= mtail'[m]
  BY <1>1, <1>3, Zenon DEF ScanInv, Creating
<1>9. Kept(m)'
  <2>1. UNCHANGED <<tail, cleaner, gtail, started, owner, base, seen>>
    BY <1>2, <1>3, Zenon
  <2>2. mpc'[m] # "create_alloc" /\ mpc'[m] # "pop_advance"
    BY <1>3, Zenon
  <2>3. Using(m)' = Using(m)
    BY <1>3, Zenon DEF Using
  <2> QED
    BY <1>1, <1>3, <1>4, <2>1, <2>2, <2>3, KeptGoesOn, Zenon
<1>10. Place(m)'
  <2>1. Place(m) /\ head' = head
    BY <1>2, MemberFacts, Zenon DEF ring
  <2>2. at[m] # 0 => owner'[at'[m]] = m
    BY <1>3, <2>1, Zenon DEF Place, Using
  <2> QED
    BY <1>3, <1>4, <2>1, <2>2, Zenon DEF Place, Pops, CreatePCs, Using
<1> QED
  BY <1>2, <1>5, <1>6, <1>7, <1>8, <1>9, <1>10, MemberStep, Zenon

\* nabd_checkpoint_save, nabd_checkpoint_load, and what nabd_consumer_resume does after
\* its create or join.
LEMMA FileSteps ==
  ASSUME CheckpointInv, NEW m \in Members,
         \/ nabd_checkpoint_save(m) \/ save_open(m) \/ save_write(m)
         \/ nabd_checkpoint_load(m) \/ resume_fails(m) \/ restore_head(m)
  PROVE  CheckpointInv'
<1> USE GroupsAssumption
<1>1. /\ CheckpointTypeOK /\ GroupsTypeOK /\ Place(m) /\ Kept(m)
      /\ ckpt[m] \in CheckpointFile \cup {None} /\ file[m] \in CheckpointFile
      /\ at[m] \in Group \cup {0} /\ base[m] \in Position
  BY MemberFacts, Zenon
<1>2. /\ file \in [Members -> CheckpointFile] /\ saved \in [Members -> BOOLEAN]
      /\ None \in CheckpointFile \cup {None}
      /\ "none" \in Steps /\ "save_open" \in Steps /\ "save_write" \in Steps
      /\ "resume" \in Steps /\ "restore_tail" \in Steps
  BY <1>1, Zenon DEF CheckpointTypeOK, Steps
<1>3. step[m] # "none" => ckpt[m] \in CheckpointFile /\ Below(m, ckpt[m].tail)
  BY <1>1, Zenon DEF Place, Kept
<1>4. HasRecord(m) => Below(m, file[m].tail)
  BY <1>1, Zenon DEF Kept
<1>5. CASE nabd_checkpoint_save(m)
  <2> DEFINE c == Record(group_id[at[m]], gtail[at[m]])
  <2>1. /\ mpc[m] = "idle" /\ step[m] = "none" /\ at[m] # 0 /\ Step(m, "save_open", c)
        /\ UNCHANGED <<gvars, file, saved, base, seen, owner>>
    BY <1>5, Zenon DEF nabd_checkpoint_save, Resting
  <2>2. Using(m) /\ Live(m)
    BY <2>1, Zenon DEF Using, Live
  <2>3. c \in CheckpointFile /\ c.tail = gtail[at[m]]
    BY <1>1, <2>1, Zenon DEF GroupsTypeOK, CheckpointFile, Record
  <2>4. Below(m, c.tail) /\ Below(m, gtail[at[m]])
    BY <1>1, <2>1, <2>2, <2>3, Zenon DEF Kept
  <2> HIDE DEF c
  <2>5. HasRecord(m)' = HasRecord(m)
    BY <2>1, Zenon DEF HasRecord
  <2> QED
    BY <1>2, <1>4, <2>1, <2>2, <2>3, <2>4, <2>5, FileStep, Zenon
<1>6. CASE save_open(m)
  <2>1. /\ step[m] = "save_open" /\ UNCHANGED <<gvars, saved, base, seen, owner>>
        /\ mpc[m] = "idle" /\ at[m] # 0 /\ Using(m) /\ Live(m)
    BY <1>1, <1>6, Zenon DEF save_open, Place, Using, Live
  <2>2. Below(m, gtail[at[m]])
    BY <1>1, <2>1, Zenon DEF Kept
  <2>3. CASE Step(m, "save_write", ckpt[m]) /\ file' = [file EXCEPT ![m] = Empty]
    <3>1. Empty \in CheckpointFile
      BY DEF Empty, CheckpointFile, Position
    <3>2. file'[m] = Empty /\ file' \in [Members -> CheckpointFile]
          /\ \A n \in Members \ {m} : file'[n] = file[n]
      BY <1>2, <2>3, <3>1, Zenon
    <3>3. ~HasRecord(m)'
      BY <3>2 DEF HasRecord, Empty
    <3> QED
      BY <1>2, <1>3, <2>1, <2>2, <2>3, <3>2, <3>3, FileStep, Zenon
  <2>4. CASE Step(m, "none", None) /\ UNCHANGED file
    <3>1. HasRecord(m)' = HasRecord(m)
      BY <2>4, Zenon DEF HasRecord
    <3> QED
      BY <1>2, <1>4, <2>1, <2>2, <2>4, <3>1, FileStep, Zenon
  <2> QED
    BY <1>6, <2>3, <2>4, Zenon DEF save_open
<1>7. CASE save_write(m)
  <2>1. /\ step[m] = "save_write" /\ UNCHANGED <<gvars, base, seen, owner>>
        /\ Step(m, "none", None)
        /\ mpc[m] = "idle" /\ at[m] # 0 /\ Using(m) /\ Live(m)
    BY <1>1, <1>7, Zenon DEF save_write, Place, Using, Live
  <2>2. Below(m, gtail[at[m]])
    BY <1>1, <2>1, Zenon DEF Kept
  <2>3. ckpt[m] \in CheckpointFile /\ Below(m, ckpt[m].tail)
    BY <1>3, <2>1, Zenon
  <2>4. CASE file' = [file EXCEPT ![m] = ckpt[m]] /\ saved' = [saved EXCEPT ![m] = TRUE]
    <3>1. file'[m] = ckpt[m] /\ file' \in [Members -> CheckpointFile]
          /\ \A n \in Members \ {m} : file'[n] = file[n]
      BY <1>2, <2>3, <2>4, Zenon
    <3>2. saved' \in [Members -> BOOLEAN]
      BY <1>2, <2>4, Zenon
    <3> QED
      BY <1>2, <2>1, <2>2, <2>3, <3>1, <3>2, FileStep, Zenon
  <2>5. CASE UNCHANGED <<file, saved>>
    <3>1. HasRecord(m)' = HasRecord(m)
      BY <2>5, Zenon DEF HasRecord
    <3> QED
      BY <1>2, <1>4, <2>1, <2>2, <2>5, <3>1, FileStep, Zenon
  <2> QED
    BY <1>7, <2>4, <2>5, Zenon DEF save_write
<1>8. CASE nabd_checkpoint_load(m)
  <2>1. /\ mpc[m] = "idle" /\ step[m] = "none" /\ at[m] = 0 /\ HasRecord(m)
        /\ Step(m, "resume", file[m])
        /\ UNCHANGED <<gvars, file, saved, base, seen, owner>>
    BY <1>8, Zenon DEF nabd_checkpoint_load, Resting
  <2>2. ~Using(m) /\ Live(m) /\ HasRecord(m)'
    BY <2>1, Zenon DEF Using, Live, HasRecord
  <2> QED
    BY <1>1, <1>2, <1>4, <2>1, <2>2, FileStep, Zenon
<1>9. CASE resume_fails(m)
  <2>1. /\ mpc[m] = "idle" /\ step[m] = "joining" /\ at[m] = 0
        /\ Step(m, "none", None)
        /\ UNCHANGED <<gvars, file, saved, base, seen, owner>>
    BY <1>9, Zenon DEF resume_fails
  <2>2. ~Using(m) /\ Live(m) /\ HasRecord(m)' = HasRecord(m)
    BY <2>1, Zenon DEF Using, Live, HasRecord
  <2> QED
    BY <1>2, <1>4, <2>1, <2>2, FileStep, Zenon
<1>10. CASE restore_head(m)
  <2> DEFINE c == [ckpt[m] EXCEPT !.tail = IF @ > head THEN head ELSE @]
  <2>1. /\ mpc[m] = "idle" /\ step[m] # "none" /\ at[m] # 0
        /\ Step(m, "restore_tail", c)
        /\ UNCHANGED <<gvars, file, saved, base, seen, owner>>
    BY <1>10, Zenon DEF restore_head
  <2>2. Live(m) /\ HasRecord(m)' = HasRecord(m)
    BY <2>1, Zenon DEF Live, HasRecord
  <2>3. ckpt[m] \in CheckpointFile /\ ckpt[m].tail \in Position /\ Below(m, ckpt[m].tail)
    BY <1>3, <2>1, Zenon DEF CheckpointFile
  <2>4. /\ c \in CheckpointFile /\ c.tail = IF ckpt[m].tail > head THEN head ELSE ckpt[m].tail
    BY <1>1, <2>3, Zenon DEF CheckpointFile, GroupsTypeOK
  <2> HIDE DEF c
  <2>5. c.tail \in Nat /\ c.tail <= ckpt[m].tail /\ c.tail <= head
    BY <1>1, <2>3, <2>4 DEF Position, GroupsTypeOK
  <2>6. Below(m, c.tail)
    BY <1>1, <2>3, <2>5, BelowLess DEF Position
  <2> QED
    BY <1>2, <1>4, <2>1, <2>2, <2>4, <2>5, <2>6, FileStep, Zenon
<1> QED
  BY <1>5, <1>6, <1>7, <1>8, <1>9, <1>10, Zenon

\* A step of member m in a call on its group that stores nothing in the table, or the
\* id of a group only.
LEMMA LocalKeeps ==
  ASSUME CheckpointInv, NEW m \in Members,
         NEW pc \in PCs, NEW g \in Group \cup {0}, NEW id \in GroupIds \cup Group \cup {0},
         NEW t \in Position, NEW b \in Position \cup {None},
         Member(m, pc, g, id, t, b),
         NEW s \in Steps, NEW c \in CheckpointFile \cup {None}, Step(m, s, c),
         failure' \in [Members -> {"NONE", "EINVAL", "ENOMEM", "ENOENT", "calloc"}],
         group_id' \in [Group -> GroupIds \cup Group \cup {0}],
         UNCHANGED <<ring, attached, active, gtail, cleaner, history>>,
         UNCHANGED <<file, saved, base, seen, owner>>,
         Scanning => pc \notin CreatePCs,
         pc # "create_alloc", pc = "create_tail" => t = head,
         Place(m)', Live(m)' => Live(m),
         s # "none" => Below(m, c.tail),
         /\ g # 0 /\ pc \in Pops \cup {"idle"} /\ s \in {"none", "save_open", "save_write"}
         => Below(m, gtail[g]),
         pc = "pop_advance" => base[m] .. t \subseteq seen[m] \cup {b}
  PROVE  CheckpointInv'
<1>1. CheckpointTypeOK /\ GroupsTypeOK /\ StoredInv /\ ScanInv /\ EntryInv /\ Kept(m)
  BY MemberFacts, Zenon
<1>2. /\ mpc'[m] = pc /\ at'[m] = g /\ mtail'[m] = t /\ mbuf'[m] = b
      /\ \A n \in Members \ {m} : /\ mpc'[n] = mpc[n] /\ at'[n] = at[n]
                                 /\ mtail'[n] = mtail[n] /\ mbuf'[n] = mbuf[n]
  BY <1>1, MemberFrame, Zenon
<1>3. /\ step'[m] = s /\ ckpt'[m] = c
      /\ \A n \in Members \ {m} : step'[n] = step[n] /\ ckpt'[n] = ckpt[n]
  BY <1>1, StepFrame, Zenon
<1>4. /\ tail' = tail /\ gtail' = gtail /\ started' = started /\ active' = active
      /\ head' = head /\ slots' = slots /\ ppc' = ppc /\ attached' = attached
      /\ cpc' = cpc /\ scan' = scan /\ min_tail' = min_tail /\ read' = read
  BY Zenon DEF ring, cleaner, history
<1>5. CheckpointTypeOK'
  <2>1. step' \in [Members -> Steps] /\ ckpt' \in [Members -> CheckpointFile \cup {None}]
    BY <1>1, StepType, Zenon
  <2>2. /\ mpc' \in [Members -> PCs] /\ at' \in [Members -> Group \cup {0}]
        /\ want' \in [Members -> GroupIds \cup Group \cup {0}]
        /\ mtail' \in [Members -> Position]
        /\ mbuf' \in [Members -> Position \cup {None}]
    BY <1>1, MemberType, Zenon
  <2>3. GroupsTypeOK'
    BY <1>1, <1>4, <2>2, Zenon DEF GroupsTypeOK
  <2> QED
    BY <1>1, <2>1, <2>3, Zenon DEF CheckpointTypeOK, Steps
<1>6. EntryInv' /\ \A h \in Group : gtail'[h] <= head
  BY <1>1, <1>4, Zenon DEF EntryInv, StoredInv
<1>7. \A n \in Members \ {m} : Undisturbed(n)
  BY <1>2, <1>3, <1>4, Zenon DEF Undisturbed
<1>8. /\ Scanning => ~Creating(m)'
      /\ cpc = "clean" /\ mpc'[m] = "create_tail" => min_tail <= mtail'[m]
  BY <1>1, <1>2, Zenon DEF ScanInv, Creating
<1>9. Kept(m)'
  <2>1. HasRecord(m)' => Below(m, file'[m].tail)
    BY <1>1, Zenon DEF HasRecord, Kept
  <2>2. UNCHANGED <<tail, cleaner, gtail, started, owner, base, seen>>
    BY <1>4, Zenon
  <2>3. Using(m)' => g # 0 /\ pc \in Pops \cup {"idle"}
    BY <1>2, Zenon DEF Using
  <2> QED
    BY <1>1, <1>2, <1>3, <2>1, <2>2, <2>3, KeptGoesOn, Zenon
<1> QED
  BY <1>5, <1>6, <1>7, <1>8, <1>9, MemberStep, Zenon

\* The calls that a member makes on its group, up to the store of the position after
\* what it has read: what it reads at a position behind the tail may be any message,
\* but then it has consumed the one that was there.
LEMMA PopKeeps ==
  ASSUME CheckpointInv, NEW m \in Members, step[m] = "none",
         nabd_consumer_pop(m) \/ pop_head(m) \/ pop_copy(m), UNCHANGED store
  PROVE  CheckpointInv'
<1> USE GroupsAssumption
<1>1. /\ CheckpointTypeOK /\ GroupsTypeOK /\ StoredInv /\ Place(m) /\ Kept(m)
      /\ step[m] \in Steps /\ ckpt[m] \in CheckpointFile \cup {None}
      /\ at[m] \in Group \cup {0} /\ want[m] \in GroupIds \cup Group \cup {0}
      /\ mtail[m] \in Position /\ mbuf[m] \in Position \cup {None}
      /\ base[m] \in Position /\ 0 \in Position
  BY MemberFacts, Zenon
<1>2. /\ mpc[m] \in {"idle", "pop_head", "pop_copy"} /\ at[m] # 0 /\ Using(m) /\ Live(m)
      /\ UNCHANGED <<ring, attached, table, failure, cleaner, history, store>>
  BY <1>1, Zenon DEF nabd_consumer_pop, pop_head, pop_copy, Loads, Checks, ReadsSlot,
     Place, Using,
     Live, Pops
<1>3. Below(m, gtail[at[m]]) /\ gtail[at[m]] \in Position /\ owner[at[m]] = m
  BY <1>1, <1>2, ZenonT(40) DEF Kept, Place, GroupsTypeOK
\* Where the member goes on, and what has to be shown there.
<1>4. ASSUME NEW pc \in {"idle", "pop_head", "pop_copy", "pop_advance"},
             NEW id \in GroupIds \cup Group \cup {0}, NEW t \in Position,
             NEW b \in Position \cup {None}, Member(m, pc, at[m], id, t, b),
             pc \in Pops => t = gtail[at[m]],
             pc \in {"pop_copy", "pop_advance"} => t < head,
             pc = "pop_advance" => base[m] .. t \subseteq seen[m] \cup {b}
      PROVE  CheckpointInv'
  <2>1. mpc'[m] = pc /\ at'[m] = at[m] /\ mtail'[m] = t /\ mbuf'[m] = b
    <3>1. Member(m, pc, at[m], id, t, b)
      BY <1>4, Zenon
    <3> QED
      BY <3>1, OwnLocals, Zenon
  <2>2. Step(m, step[m], ckpt[m])
    BY <1>1, <1>2, StepSame, Zenon DEF store
  <2>3. /\ failure' \in [Members -> {"NONE", "EINVAL", "ENOMEM", "ENOENT", "calloc"}]
        /\ group_id' \in [Group -> GroupIds \cup Group \cup {0}]
        /\ UNCHANGED <<ring, attached, active, gtail, cleaner, history>>
        /\ UNCHANGED <<file, saved, base, seen, owner>>
        /\ head' = head /\ step' = step /\ ckpt' = ckpt
    BY <1>1, <1>2, Zenon DEF GroupsTypeOK, table, store, ring
  <2>4. pc \in PCs /\ pc \notin CreatePCs /\ pc # "create_alloc" /\ pc # "create_tail"
    BY <1>4, Zenon DEF PCs, CreatePCs
  <2>5. Place(m)'
    <3>1. pc \in Pops \cup {"idle"} /\ pc # "join"
      BY <1>4, Zenon DEF Pops
    <3> QED
      BY <1>1, <1>2, <1>3, <1>4, <2>1, <2>3, <2>4, <3>1, Zenon DEF Place, Using
  <2>6. /\ step[m] \in Steps /\ ckpt[m] \in CheckpointFile \cup {None}
        /\ at[m] \in Group \cup {0} /\ Live(m)
    BY <1>1, <1>2, Zenon
  <2>7. /\ Member(m, pc, at[m], id, t, b)
        /\ pc = "pop_advance" => base[m] .. t \subseteq seen[m] \cup {b}
    BY <1>4, Zenon
  <2> QED
    BY <1>3, <2>2, <2>3, <2>4, <2>5, <2>6, <2>7, LocalKeeps
<1>5. CASE nabd_consumer_pop(m)
  BY <1>1, <1>3, <1>4, <1>5, Zenon DEF nabd_consumer_pop, Loads
<1>6. CASE pop_head(m)
  <2>1. mpc[m] = "pop_head" /\ mtail[m] = gtail[at[m]]
    BY <1>1, <1>6, Zenon DEF pop_head, Checks, Place, Pops
  <2>2. CASE mtail[m] >= head
    BY <1>1, <1>4, <1>6, <2>2, Zenon DEF pop_head, Checks, Return, Pops
  <2>3. CASE ~(mtail[m] >= head)
    <3>1. mtail[m] < head
      BY <1>1, <2>3 DEF GroupsTypeOK, Position
    <3> QED
      BY <1>1, <1>4, <1>6, <2>1, <2>3, <3>1, ZenonT(40) DEF pop_head, Checks, Goto
  <2> QED
    BY <2>2, <2>3, Zenon
<1>7. CASE pop_copy(m)
  <2> DEFINE b == slots[get_slot(mtail[m])]
  <2>1. /\ mpc[m] = "pop_copy" /\ mtail[m] = gtail[at[m]] /\ mtail[m] < head
        /\ Member(m, "pop_advance", at[m], 0, mtail[m], b)
    BY <1>1, <1>7, Zenon DEF pop_copy, ReadsSlot, Place, Pops
  <2>2. b \in Position \cup {None}
    <3>1. mtail[m] \in Nat /\ slots \in [0 .. Capacity - 1 -> Position \cup {None}]
      BY <1>1 DEF GroupsTypeOK, Position
    <3>2. get_slot(mtail[m]) \in 0 .. Capacity - 1
      BY <3>1, SlotType, Zenon
    <3> QED
      BY <3>1, <3>2, Zenon
  <2>3. mtail[m] \in Nat /\ head \in Nat /\ tail \in Nat /\ base[m] \in Nat
    BY <1>1, SMTT(30) DEF GroupsTypeOK, Position
  <2>4. tail <= mtail[m] => b = mtail[m]
    BY <1>1, <2>1, <2>3 DEF StoredInv
  <2>5. Below(m, tail) /\ Below(m, mtail[m])
    BY <1>1, <1>2, <1>3, <2>1, ZenonT(40) DEF Kept
  <2> HIDE DEF b
  <2>6. base[m] .. mtail[m] \subseteq seen[m] \cup {b}
    <3>1. CASE tail <= mtail[m]
      BY <2>3, <2>4, <2>5, <3>1 DEF Below
    <3>2. CASE mtail[m] < tail
      BY <2>3, <2>5, <3>2 DEF Below
    <3> QED
      BY <2>3, <3>1, <3>2
  <2> QED
    BY <1>1, <1>4, <2>1, <2>2, <2>6, Zenon
<1> QED
  BY <1>5, <1>6, <1>7, Zenon

\* A create or join fails, or the process dies: the member is left without a group.
LEMMA LeftAlone ==
  ASSUME CheckpointInv, NEW m \in Members, Return(m, 0),
         NEW s \in {"none", "creating", "joining"}, NEW c \in CheckpointFile \cup {None},
         Step(m, s, c),
         s = "none" => c = None,
         s # "none" => c \in CheckpointFile /\ Below(m, c.tail) /\ Live(m),
         failure' \in [Members -> {"NONE", "EINVAL", "ENOMEM", "ENOENT", "calloc"}],
         UNCHANGED <<ring, attached, table, cleaner, history>>,
         UNCHANGED <<file, saved, base, seen, owner>>
  PROVE  CheckpointInv'
<1>1. CheckpointTypeOK /\ GroupsTypeOK /\ 0 \in Position
  BY MemberFacts, Zenon
<1>2. Member(m, "idle", 0, 0, 0, None)
  BY Zenon DEF Return
<1>3. mpc'[m] = "idle" /\ at'[m] = 0
  BY <1>2, OwnLocals, Zenon
<1>4. step'[m] = s /\ ckpt'[m] = c
  BY <1>1, StepFrame, Zenon
<1>5. Place(m)' /\ ~Using(m)'
  BY <1>3, <1>4, Zenon DEF Place, Pops, CreatePCs, Using
<1>6. Live(m)' => Live(m)
  <2>1. HasRecord(m)' = HasRecord(m)
    BY Zenon DEF HasRecord
  <2> QED
    BY <1>3, <1>4, <1>5, <2>1, Zenon DEF Live
<1>7. /\ "idle" \in PCs /\ "idle" \notin CreatePCs /\ s \in Steps
      /\ 0 \in Group \cup {0} /\ 0 \in GroupIds \cup Group \cup {0}
      /\ None \in Position \cup {None}
  BY Zenon DEF PCs, CreatePCs, Steps
<1>8. /\ group_id' \in [Group -> GroupIds \cup Group \cup {0}]
      /\ UNCHANGED <<active, gtail>>
  BY <1>1, Zenon DEF GroupsTypeOK, table
<1> QED
  BY <1>1, <1>2, <1>5, <1>6, <1>7, <1>8, LocalKeeps, Zenon

\* A create or join looks at an entry.
LEMMA LooksAt ==
  ASSUME CheckpointInv, NEW m \in Members,
         NEW pc \in {"create_cas", "join"}, NEW g \in Group,
         NEW id \in GroupIds \cup Group \cup {0}, Member(m, pc, g, id, 0, None),
         NEW s \in {"none", "creating", "joining"}, NEW c \in CheckpointFile \cup {None},
         Step(m, s, c),
         pc = "create_cas" => (s = "none" /\ ~HasRecord(m)) \/ s = "creating",
         pc = "join" => s = "joining",
         Scanning => pc # "create_cas",
         s = "none" => c = None,
         s # "none" => c \in CheckpointFile /\ Below(m, c.tail) /\ Live(m),
         failure' \in [Members -> {"NONE", "EINVAL", "ENOMEM", "ENOENT", "calloc"}],
         UNCHANGED <<ring, attached, table, cleaner, history>>,
         UNCHANGED <<file, saved, base, seen, owner>>
  PROVE  CheckpointInv'
<1>1. CheckpointTypeOK /\ GroupsTypeOK /\ 0 \in Position
  BY MemberFacts, Zenon
<1>2. mpc'[m] = pc /\ at'[m] = g
  BY OwnLocals, Zenon
<1>3. step'[m] = s /\ ckpt'[m] = c
  BY <1>1, StepFrame, Zenon
<1>4. HasRecord(m)' = HasRecord(m) /\ g # 0
  BY GroupsAssumption DEF HasRecord, Group
<1>5. Place(m)' /\ ~Using(m)'
  BY <1>2, <1>3, <1>4, Zenon DEF Place, Pops, CreatePCs, Using
<1>6. Live(m)' => Live(m)
  BY <1>2, <1>3, <1>4, <1>5, Zenon DEF Live
<1>7. /\ pc \in PCs /\ pc \notin Pops \cup {"idle"} /\ s \in Steps
      /\ pc # "create_alloc" /\ pc # "create_tail" /\ pc # "pop_advance"
      /\ Scanning => pc \notin CreatePCs
      /\ g \in Group \cup {0} /\ None \in Position \cup {None}
  BY Zenon DEF PCs, CreatePCs, Steps, Pops
<1>8. /\ group_id' \in [Group -> GroupIds \cup Group \cup {0}]
      /\ UNCHANGED <<active, gtail>>
  BY <1>1, Zenon DEF GroupsTypeOK, table
<1> QED
  BY <1>1, <1>5, <1>6, <1>7, <1>8, LocalKeeps, Zenon

\* The argument checks of create and join.
LEMMA OpenKeeps ==
  ASSUME CheckpointInv, NEW m \in Members,
         NEW id \in GroupIds \cup Group \cup {0}, NEW pc \in {"create_cas", "join"},
         Open(m, id, pc), Scanning => ~Creating(m)',
         NEW s \in {"none", "creating", "joining"}, NEW c \in CheckpointFile \cup {None},
         Step(m, s, c),
         pc = "create_cas" => (s = "none" /\ ~HasRecord(m)) \/ s = "creating",
         pc = "join" => s = "joining",
         s = "none" => c = None,
         s # "none" => c \in CheckpointFile /\ Below(m, c.tail) /\ Live(m),
         UNCHANGED <<file, saved, base, seen, owner>>
  PROVE  CheckpointInv'
<1>1. GroupsTypeOK
  BY MemberFacts, Zenon
<1>2. UNCHANGED <<ring, attached, table, cleaner, history>>
  BY Zenon DEF Open
<1>3. CASE Fails(m, "EINVAL")
  <2>1. /\ Return(m, 0)
        /\ failure' \in [Members -> {"NONE", "EINVAL", "ENOMEM", "ENOENT", "calloc"}]
    BY <1>1, <1>3, Zenon DEF Fails, GroupsTypeOK
  <2> QED
    BY <1>2, <2>1, LeftAlone, Zenon
<1>4. CASE Member(m, pc, 1, id, 0, None) /\ failure' = [failure EXCEPT ![m] = "NONE"]
  <2>1. failure' \in [Members -> {"NONE", "EINVAL", "ENOMEM", "ENOENT", "calloc"}]
    BY <1>1, <1>4, Zenon DEF GroupsTypeOK
  <2>2. 1 \in Group
    BY GroupsAssumption DEF Group
  <2>3. Scanning => pc # "create_cas"
    <3>1. mpc'[m] = pc
      BY <1>1, <1>4, MemberFrame, Zenon
    <3> QED
      BY <3>1, Zenon DEF Creating, CreatePCs
  <2> QED
    BY <1>2, <1>4, <2>1, <2>2, <2>3, LooksAt, Zenon
<1> QED
  BY <1>3, <1>4, Zenon DEF Open

\* The start of nabd_consumer_create and of nabd_consumer_resume, its join, and the
\* death of the process.
LEMMA StartKeeps ==
  ASSUME CheckpointInv, NEW m \in Members, Scanning => ~Creating(m)',
         \/ \E id \in GroupIds : start_anew(m, id)
         \/ nabd_consumer_resume(m) \/ resume_join(m) \/ crash(m)
  PROVE  CheckpointInv'
<1>1. /\ CheckpointTypeOK /\ GroupsTypeOK /\ Place(m) /\ Kept(m)
      /\ ckpt[m] \in CheckpointFile \cup {None}
  BY MemberFacts, Zenon
<1>2. step[m] # "none" =>
        /\ ckpt[m] \in CheckpointFile /\ Below(m, ckpt[m].tail) /\ Live(m)
        /\ ckpt[m].group_id \in GroupIds \cup Group \cup {0}
  BY <1>1, Zenon DEF Place, Kept, Live, CheckpointFile
<1>3. CASE \E id \in GroupIds : start_anew(m, id)
  <2>1. PICK id \in GroupIds : start_anew(m, id)
    BY <1>3, Zenon
  <2>2. /\ step[m] = "none" /\ ~HasRecord(m) /\ Open(m, id, "create_cas")
        /\ UNCHANGED <<file, saved, base, seen, owner, step, ckpt>>
    BY <2>1, Zenon DEF start_anew, Resting, nabd_consumer_create, store
  <2>3. Step(m, step[m], ckpt[m]) /\ ckpt[m] = None
    BY <1>1, <2>2, StepSame, Zenon DEF Place
  <2> QED
    BY <1>1, <2>2, <2>3, OpenKeeps, Zenon
<1>4. CASE nabd_consumer_resume(m)
  <2>1. /\ step[m] # "none" /\ Open(m, ckpt[m].group_id, "create_cas")
        /\ Step(m, "creating", ckpt[m]) /\ UNCHANGED <<file, saved, base, seen, owner>>
    BY <1>4, Zenon DEF nabd_consumer_resume, nabd_consumer_create
  <2> QED
    BY <1>1, <1>2, <2>1, OpenKeeps, Zenon
<1>5. CASE resume_join(m)
  <2>1. /\ step[m] # "none" /\ Open(m, ckpt[m].group_id, "join")
        /\ Step(m, "joining", ckpt[m]) /\ UNCHANGED <<file, saved, base, seen, owner>>
    BY <1>5, Zenon DEF resume_join, nabd_consumer_join
  <2> QED
    BY <1>1, <1>2, <2>1, OpenKeeps, Zenon
<1>6. CASE crash(m)
  <2>1. /\ Return(m, 0) /\ Step(m, "none", None)
        /\ UNCHANGED <<ring, attached, table, failure, cleaner, history>>
        /\ UNCHANGED <<file, saved, base, seen, owner>>
    BY <1>6, Zenon DEF crash, member_crash
  <2>2. failure' \in [Members -> {"NONE", "EINVAL", "ENOMEM", "ENOENT", "calloc"}]
    BY <1>1, <2>1, Zenon DEF GroupsTypeOK
  <2> QED
    BY <2>1, <2>2, LeftAlone, Zenon
<1> QED
  BY <1>3, <1>4, <1>5, <1>6, Zenon

\* The steps of a create that store nothing or the id only, and those of a join: a
\* member joins a group that it made itself.
LEMMA CreateJoinKeeps ==
  ASSUME CheckpointInv, NEW m \in Members, join_entry(m) => OwnGroups',
         create_id(m) \/ create_head(m) \/ join_entry(m), UNCHANGED store
  PROVE  CheckpointInv'
<1> USE GroupsAssumption
<1>1. /\ CheckpointTypeOK /\ GroupsTypeOK /\ ScanInv /\ Place(m) /\ Kept(m)
      /\ step[m] \in Steps /\ ckpt[m] \in CheckpointFile \cup {None}
      /\ at[m] \in Group \cup {0} /\ want[m] \in GroupIds \cup Group \cup {0}
      /\ mtail[m] \in Position /\ mbuf[m] \in Position \cup {None} /\ 0 \in Position
  BY MemberFacts, Zenon
<1>2. /\ Step(m, step[m], ckpt[m]) /\ step' = step /\ ckpt' = ckpt
      /\ UNCHANGED <<file, saved, base, seen, owner>>
  BY <1>1, StepSame, Zenon DEF store
<1>3. HasRecord(m)' = HasRecord(m)
  BY Zenon DEF store, HasRecord
<1>4. mpc[m] \in {"create_id", "create_head", "join"} /\ at[m] # 0 /\ at[m] \in Group
  BY <1>1, Zenon DEF create_id, create_head, join_entry, Place
<1>5. step[m] # "none" => ckpt[m] \in CheckpointFile /\ Below(m, ckpt[m].tail) /\ Live(m)
  BY <1>1, Zenon DEF Place, Kept, Live
\* A create goes on.
<1>6. ASSUME NEW pc \in {"create_head", "create_tail"}, NEW t \in Position,
             NEW b \in Position \cup {None}, NEW id \in GroupIds \cup Group \cup {0},
             Member(m, pc, at[m], id, t, b),
             mpc[m] \in {"create_id", "create_head"}, pc = "create_tail" => t = head,
             UNCHANGED <<ring, attached, active, gtail, failure, cleaner, history>>,
             group_id' \in [Group -> GroupIds \cup Group \cup {0}]
      PROVE  CheckpointInv'
  <2>1. mpc'[m] = pc /\ at'[m] = at[m] /\ mtail'[m] = t
    <3>1. Member(m, pc, at[m], id, t, b)
      BY <1>6, Zenon
    <3> QED
      BY <3>1, OwnLocals, Zenon
  <2>2. ~Scanning
    BY <1>1, <1>6, Zenon DEF ScanInv, Creating, CreatePCs
  <2>3. /\ (step[m] = "none" /\ ~HasRecord(m)) \/ step[m] = "creating"
        /\ owner[at[m]] = m /\ started[at[m]] = None
    BY <1>1, <1>6, Zenon DEF Place, CreatePCs
  <2>4. /\ pc \in PCs /\ pc \notin Pops \cup {"idle"} /\ pc # "create_alloc"
        /\ pc # "pop_advance"
    BY <1>6, Zenon DEF PCs, CreatePCs, Pops
  <2>5. Place(m)'
    <3>1. /\ head' = head /\ tail' = tail /\ started' = started
          /\ pc = "create_tail" => tail <= t /\ t <= head
      BY <1>1, <1>6 DEF ring, history, CheckpointInv, StoredInv, GroupsTypeOK, Position
    <3> QED
      BY <1>1, <1>2, <1>3, <1>4, <1>6, <2>1, <2>3, <3>1, ZenonT(40)
         DEF Place, Using, Pops, CreatePCs
  <2>6. Live(m)' => Live(m)
    BY <1>2, <1>3, <1>6, <2>1, Zenon DEF Live, Using, Pops
  <2>7. failure' \in [Members -> {"NONE", "EINVAL", "ENOMEM", "ENOENT", "calloc"}]
    BY <1>1, <1>6, Zenon DEF GroupsTypeOK
  <2>8. /\ UNCHANGED <<ring, attached, active, gtail, cleaner, history>>
        /\ Member(m, pc, at[m], id, t, b) /\ (pc = "create_tail" => t = head)
        /\ group_id' \in [Group -> GroupIds \cup Group \cup {0}]
    BY <1>6, Zenon
  <2>9. /\ step[m] \in Steps /\ ckpt[m] \in CheckpointFile \cup {None}
        /\ at[m] \in Group \cup {0}
    BY <1>1, Zenon
  <2>10. /\ pc \in PCs /\ pc # "create_alloc" /\ (Scanning => pc \notin CreatePCs)
         /\ step[m] # "none" => Below(m, ckpt[m].tail)
    BY <1>5, <2>2, <2>4, Zenon
  <2>11. /\ Step(m, step[m], ckpt[m]) /\ UNCHANGED <<file, saved, base, seen, owner>>
    BY <1>2, Zenon
  <2> QED
    BY <2>4, <2>5, <2>6, <2>7, <2>8, <2>9, <2>10, <2>11, LocalKeeps, ZenonT(60)
<1>7. CASE create_id(m)
  <2>1. group_id' \in [Group -> GroupIds \cup Group \cup {0}]
    BY <1>1, <1>4, <1>7, Zenon DEF create_id, GroupsTypeOK
  <2> QED
    BY <1>1, <1>6, <1>7, <2>1, Zenon DEF create_id, Goto
<1>8. CASE create_head(m)
  <2>1. group_id' \in [Group -> GroupIds \cup Group \cup {0}] /\ head \in Position
    BY <1>1, <1>8, Zenon DEF create_head, GroupsTypeOK, table
  <2>2. /\ mpc[m] = "create_head" /\ Member(m, "create_tail", at[m], want[m], head, None)
        /\ UNCHANGED <<ring, attached, active, gtail, failure, cleaner, history>>
    BY <1>8, Zenon DEF create_head, table
  <2>3. want[m] \in GroupIds \cup Group \cup {0}
    BY <1>1, Zenon
  <2> QED
    BY <1>6, <2>1, <2>2, <2>3, Zenon
<1>9. CASE join_entry(m)
  <2>1. /\ mpc[m] = "join" /\ step[m] = "joining"
        /\ UNCHANGED <<ring, attached, table, cleaner, history>>
    BY <1>1, <1>9, Zenon DEF join_entry, Place
  <2>2. ckpt[m] \in CheckpointFile /\ Below(m, ckpt[m].tail) /\ Live(m)
    BY <1>5, <2>1, Zenon
  <2>3. ASSUME NEW e \in {"ENOENT", "calloc"}, Fails(m, e)
        PROVE  CheckpointInv'
    <3>1. /\ Return(m, 0)
          /\ failure' \in [Members -> {"NONE", "EINVAL", "ENOMEM", "ENOENT", "calloc"}]
      BY <1>1, <2>3, Zenon DEF Fails, GroupsTypeOK
    <3> QED
      BY <1>2, <2>1, <2>2, <3>1, LeftAlone, Zenon
  <2>4. CASE Return(m, at[m]) /\ UNCHANGED failure
    <3>1. Member(m, "idle", at[m], 0, 0, None)
      BY <2>4, Zenon DEF Return
    <3>2. mpc'[m] = "idle" /\ at'[m] = at[m]
      BY <3>1, OwnLocals, Zenon
    <3>3. owner'[at'[m]] = m
      BY <1>4, <1>9, <3>2, Zenon DEF OwnGroups
    <3>4. Place(m)'
      BY <1>2, <2>1, <2>2, <3>2, <3>3, Zenon DEF Place, Pops, CreatePCs, Using
    <3>5. /\ failure' \in [Members -> {"NONE", "EINVAL", "ENOMEM", "ENOENT", "calloc"}]
          /\ group_id' \in [Group -> GroupIds \cup Group \cup {0}]
          /\ UNCHANGED <<active, gtail>>
      BY <1>1, <2>1, <2>4, Zenon DEF GroupsTypeOK, table
    <3>6. /\ "idle" \in PCs /\ "idle" \notin CreatePCs /\ 0 \in GroupIds \cup Group \cup {0}
          /\ None \in Position \cup {None}
      BY Zenon DEF PCs, CreatePCs
    <3>7. /\ step[m] \in Steps /\ at[m] \in Group \cup {0} /\ 0 \in Position
          /\ ckpt[m] \in CheckpointFile \cup {None}
      BY <1>1, Zenon
    <3> QED
      BY <1>2, <2>1, <2>2, <3>1, <3>4, <3>5, <3>6, <3>7, LocalKeeps, Zenon
  <2>5. CASE /\ at[m] < MaxConsumers
             /\ Member(m, "join", at[m] + 1, want[m], 0, None) /\ UNCHANGED failure
    <3>1. at[m] + 1 \in Group
      BY <1>4, <2>5, NextEntry, Zenon
    <3>2. failure' \in [Members -> {"NONE", "EINVAL", "ENOMEM", "ENOENT", "calloc"}]
      BY <1>1, <2>5, Zenon DEF GroupsTypeOK
    <3> QED
      BY <1>1, <1>2, <2>1, <2>2, <2>5, <3>1, <3>2, LooksAt, Zenon
  <2> QED
    BY <1>9, <2>3, <2>4, <2>5, Zenon DEF join_entry
<1> QED
  BY <1>7, <1>8, <1>9, Zenon

\* A step of member m that stores in its own entry of the table, or in one that it takes.
LEMMA TableKeeps ==
  ASSUME CheckpointInv, NEW m \in Members, at[m] \in Group, owner[at[m]] \in {m, None},
         NEW pc \in {"create_id", "create_alloc", "idle"}, NEW g \in Group \cup {0},
         NEW id \in GroupIds \cup Group \cup {0}, NEW t \in Position,
         NEW b \in Position \cup {None}, Member(m, pc, g, id, t, b),
         NEW s \in Steps, NEW c \in CheckpointFile \cup {None}, Step(m, s, c),
         Scanning => pc = "idle",
         UNCHANGED <<ring, attached, group_id, cleaner, file, saved>>,
         active' \in [Group -> {0, 1}], gtail' \in [Group -> Position],
         started' \in [Group -> Position \cup {None}],
         read' \in [Group -> Position \cup {None}],
         owner' \in [Group -> Members \cup {None}],
         failure' \in [Members -> {"NONE", "EINVAL", "ENOMEM", "ENOENT", "calloc"}],
         base' \in [Members -> Position],
         seen' \in [Members -> SUBSET (Position \cup {None})],
         \A h \in Group \ {at[m]} : /\ active'[h] = active[h] /\ gtail'[h] = gtail[h]
                                   /\ started'[h] = started[h] /\ owner'[h] = owner[h],
         \A n \in Members \ {m} : base'[n] = base[n] /\ seen'[n] = seen[n],
         gtail'[at[m]] <= head,
         started'[at[m]] # None => active'[at[m]] = 1,
         active'[at[m]] = 1 <=> owner'[at[m]] # None,
         Place(m)', Kept(m)'
  PROVE  CheckpointInv'
<1>1. CheckpointTypeOK /\ GroupsTypeOK /\ StoredInv /\ ScanInv /\ EntryInv
  BY MemberFacts, Zenon
<1>2. /\ mpc'[m] = pc
      /\ \A n \in Members \ {m} : /\ mpc'[n] = mpc[n] /\ at'[n] = at[n]
                                 /\ mtail'[n] = mtail[n] /\ mbuf'[n] = mbuf[n]
  BY <1>1, ZenonT(40) DEF Member, GroupsTypeOK
<1>3. \A n \in Members \ {m} : step'[n] = step[n] /\ ckpt'[n] = ckpt[n]
  BY <1>1, StepFrame, Zenon
<1>4. CheckpointTypeOK'
  <2>1. step' \in [Members -> Steps] /\ ckpt' \in [Members -> CheckpointFile \cup {None}]
    BY <1>1, StepType, Zenon
  <2>2. pc \in PCs
    BY Zenon DEF PCs, CreatePCs
  <2>3. /\ mpc' \in [Members -> PCs] /\ at' \in [Members -> Group \cup {0}]
        /\ want' \in [Members -> GroupIds \cup Group \cup {0}]
        /\ mtail' \in [Members -> Position]
        /\ mbuf' \in [Members -> Position \cup {None}]
    BY <1>1, <2>2, MemberType, Zenon
  <2>4. GroupsTypeOK'
    BY <1>1, <2>3, Zenon DEF GroupsTypeOK, ring, cleaner
  <2> QED
    BY <1>1, <2>1, <2>4, Zenon DEF CheckpointTypeOK, Steps
<1>5. EntryInv' /\ \A h \in Group : gtail'[h] <= head
  <2>1. ASSUME NEW h \in Group, h # at[m]
        PROVE  /\ started'[h] # None => active'[h] = 1
               /\ active'[h] = 1 <=> owner'[h] # None
               /\ gtail'[h] <= head
    <3>1. /\ started[h] # None => active[h] = 1
          /\ active[h] = 1 <=> owner[h] # None
          /\ gtail[h] <= head
      BY <1>1, Zenon DEF EntryInv, StoredInv
    <3>2. /\ active'[h] = active[h] /\ gtail'[h] = gtail[h]
          /\ started'[h] = started[h] /\ owner'[h] = owner[h]
      BY <2>1, Zenon
    <3> QED
      BY <3>1, <3>2, Zenon
  <2> QED
    BY <2>1, Zenon DEF EntryInv
<1>6. ASSUME NEW n \in Members \ {m} PROVE Undisturbed(n)
  <2>1. \A h \in Group : owner[h] = n => h # at[m]
    BY CheckpointAssumption, ZenonT(40)
  <2> QED
    BY <1>2, <1>3, <2>1, Zenon DEF Undisturbed
<1>7. /\ Scanning => ~Creating(m)'
      /\ mpc'[m] # "create_tail"
  BY <1>2, Zenon DEF Creating, CreatePCs
<1> QED
  BY <1>4, <1>5, <1>6, <1>7, MemberStep, Zenon

\* What has to be shown of a member's own step for its Kept, if the step changes no
\* position that the cleaner goes by.
LEMMA KeptCarries ==
  ASSUME NEW m \in Members, Kept(m), UNCHANGED <<tail, cleaner>>,
         base'[m] = base[m], seen[m] \subseteq seen'[m],
         Live(m)' => Live(m),
         Live(m)' =>
           \E g \in Group : /\ Keeper(m, g)'
                            /\ mpc'[m] = "create_alloc" /\ step'[m] = "creating" => g # at'[m],
         Scanning => \A g \in Group : Keeper(m, g) => Keeper(m, g)',
         HasRecord(m)' => Below(m, file'[m].tail),
         step'[m] # "none" => Below(m, ckpt'[m].tail),
         Using(m)' /\ step'[m] \in {"none", "save_open", "save_write"}
           => Below(m, gtail[at[m]])',
         mpc'[m] = "create_alloc" /\ step'[m] = "none" => Below(m, gtail[at[m]])',
         mpc'[m] # "pop_advance"
  PROVE  Kept(m)'
<1>1. /\ tail' = tail /\ cpc' = cpc /\ scan' = scan /\ min_tail' = min_tail
      /\ Scanning' = Scanning
  BY Zenon DEF cleaner, Scanning
<1>2. /\ Below(m, tail) => Below(m, tail)'
      /\ Below(m, min_tail) => Below(m, min_tail)'
      /\ Below(m, file'[m].tail) => Below(m, file[m].tail)'
      /\ Below(m, ckpt'[m].tail) => Below(m, ckpt[m].tail)'
  BY <1>1, Zenon DEF Below
<1>3. Live(m)' =>
       /\ Below(m, tail)'
       /\ cpc' = "clean" => Below(m, min_tail)'
       /\ Scanning' => \/ min_tail' # None /\ Below(m, min_tail)'
                       \/ \E g \in Group : Keeper(m, g)' /\ g >= scan'
  BY <1>1, <1>2, Zenon DEF Kept
<1> QED
  BY <1>2, <1>3, Zenon DEF Kept

\* What a create has stored does not matter to a member before it has a handle.
LEMMA CreateFacts ==
  ASSUME CheckpointInv, NEW m \in Members, Creating(m)
  PROVE  /\ ~Scanning /\ at[m] \in Group
         /\ (step[m] = "none" /\ ~HasRecord(m) /\ ckpt[m] = None) \/ step[m] = "creating"
         /\ step[m] # "none" => ckpt[m] \in CheckpointFile /\ Below(m, ckpt[m].tail) /\ Live(m)
         /\ HasRecord(m) => Below(m, file[m].tail)
<1>1. ScanInv /\ Place(m) /\ Kept(m) /\ at[m] \in Group \cup {0}
  BY MemberFacts, Zenon
<1>2. at[m] # 0 /\ mpc[m] \in CreatePCs
  BY <1>1, Zenon DEF Creating, Place, CreatePCs
<1> QED
  BY <1>1, <1>2, Zenon DEF ScanInv, Place, Kept, Live, Creating

\* The compare-and-swap of a create: it takes an entry, looks at the next or fails.
LEMMA TakeKeeps ==
  ASSUME CheckpointInv, NEW m \in Members, entry_taken(m)
  PROVE  CheckpointInv'
<1> USE GroupsAssumption
<1>1. /\ CheckpointTypeOK /\ GroupsTypeOK /\ StoredInv /\ EntryInv /\ Place(m) /\ Kept(m)
      /\ step[m] \in Steps /\ ckpt[m] \in CheckpointFile \cup {None}
      /\ want[m] \in GroupIds \cup Group \cup {0}
      /\ mtail[m] \in Position /\ mbuf[m] \in Position \cup {None}
  BY MemberFacts, Zenon
<1>2. /\ mpc[m] = "create_cas" /\ Creating(m)
      /\ UNCHANGED <<file, ckpt, step, saved, base, seen>>
      /\ UNCHANGED <<ring, attached, group_id, gtail, cleaner, history>>
  BY Zenon DEF entry_taken, create_cas, Creating, CreatePCs
<1>3. /\ ~Scanning /\ at[m] \in Group
      /\ (step[m] = "none" /\ ~HasRecord(m) /\ ckpt[m] = None) \/ step[m] = "creating"
      /\ step[m] # "none" => ckpt[m] \in CheckpointFile /\ Below(m, ckpt[m].tail) /\ Live(m)
      /\ HasRecord(m) => Below(m, file[m].tail)
  BY <1>2, CreateFacts, Zenon
<1>4. Step(m, step[m], ckpt[m])
  BY <1>1, <1>2, StepSame, Zenon
<1>5. step[m] \in {"none", "creating", "joining"}
  BY <1>3, Zenon
<1>6. CASE /\ active[at[m]] = 0
           /\ active' = [active EXCEPT ![at[m]] = 1]
           /\ Goto(m, "create_id") /\ UNCHANGED failure
  <2>1. Member(m, "create_id", at[m], want[m], mtail[m], mbuf[m])
    BY <1>6, Zenon DEF Goto
  <2>2. mpc'[m] = "create_id" /\ at'[m] = at[m]
    BY <2>1, OwnLocals, Zenon
  <2>3. /\ active' \in [Group -> {0, 1}] /\ active'[at[m]] = 1 /\ active' # active
        /\ \A h \in Group \ {at[m]} : active'[h] = active[h]
    <3>1. active \in [Group -> {0, 1}] /\ at[m] \in Group
      BY <1>1, <1>3, Zenon DEF GroupsTypeOK
    <3>2. active' = [active EXCEPT ![at[m]] = 1] /\ active[at[m]] # 1
      BY <1>6
    <3> QED
      BY <3>1, <3>2, Zenon
  <2>4. owner' = [owner EXCEPT ![at[m]] = m]
    BY <2>3, Zenon DEF entry_taken
  <2>5. /\ owner' \in [Group -> Members \cup {None}] /\ owner'[at[m]] = m
        /\ \A h \in Group \ {at[m]} : owner'[h] = owner[h]
    BY <1>1, <1>3, <2>4, Zenon DEF CheckpointTypeOK
  <2>6. owner[at[m]] = None /\ started[at[m]] = None
    <3>1. active[at[m]] # 1 /\ at[m] \in Group
      BY <1>3, <1>6
    <3> QED
      BY <1>1, <3>1, ZenonT(40) DEF EntryInv
  <2>7. started' = started /\ read' = read /\ tail' = tail /\ head' = head
    BY <1>2, Zenon DEF history, ring
  <2>8. HasRecord(m)' = HasRecord(m) /\ ~Using(m)'
    BY <1>2, <2>2, Zenon DEF HasRecord, Using, Pops
  <2>9. Place(m)'
    BY <1>1, <1>2, <1>3, <2>2, <2>5, <2>6, <2>7, <2>8, Zenon DEF Place, Pops, CreatePCs
  <2>10. \A h \in Group : Keeper(m, h) => Keeper(m, h)'
    BY <1>2, <2>5, <2>6, <2>7, Zenon DEF Keeper, Below
  <2>11. Live(m)' => Live(m)
    BY <1>2, <2>2, <2>8, Zenon DEF Live
  <2>12. Kept(m)'
    <3>1. Live(m)' => \E h \in Group : Keeper(m, h)'
      BY <1>1, <2>10, <2>11, Zenon DEF Kept
    <3>2. /\ UNCHANGED <<tail, cleaner>> /\ base'[m] = base[m] /\ seen[m] \subseteq seen'[m]
          /\ mpc'[m] # "create_alloc" /\ mpc'[m] # "pop_advance"
          /\ file'[m] = file[m] /\ step'[m] = step[m] /\ ckpt'[m] = ckpt[m]
      BY <1>2, <2>2, <2>7, Zenon
    <3> QED
      BY <1>1, <1>3, <2>8, <2>10, <2>11, <3>1, <3>2, KeptCarries, Zenon
  <2>13. /\ gtail' \in [Group -> Position] /\ gtail'[at[m]] <= head
         /\ started' \in [Group -> Position \cup {None}]
         /\ read' \in [Group -> Position \cup {None}]
         /\ failure' \in [Members -> {"NONE", "EINVAL", "ENOMEM", "ENOENT", "calloc"}]
         /\ base' \in [Members -> Position]
         /\ seen' \in [Members -> SUBSET (Position \cup {None})]
    BY <1>1, <1>2, <1>3, <1>6, <2>7, Zenon DEF GroupsTypeOK, CheckpointTypeOK, StoredInv
  <2>14. \A h \in Group \ {at[m]} : /\ active'[h] = active[h] /\ gtail'[h] = gtail[h]
                                   /\ started'[h] = started[h] /\ owner'[h] = owner[h]
    BY <1>2, <2>3, <2>5, <2>7, Zenon
  <2>15. owner'[at[m]] # None
    BY <2>5, CheckpointAssumption, Zenon
  <2>16. /\ UNCHANGED <<ring, attached, group_id, cleaner, file, saved>>
         /\ \A n \in Members \ {m} : base'[n] = base[n] /\ seen'[n] = seen[n]
    BY <1>2, Zenon
  <2> QED
    BY ZenonT(40), <1>1, <1>3, <1>4, <2>1, <2>3, <2>5, <2>6, <2>9, <2>12, <2>13, <2>14,
       <2>15, <2>16,
       TableKeeps
<1>7. CASE /\ at[m] < MaxConsumers
           /\ Member(m, "create_cas", at[m] + 1, want[m], 0, None)
           /\ UNCHANGED <<active, failure>>
  <2>1. at[m] + 1 \in Group
    BY <1>3, <1>7, NextEntry, Zenon
  <2>2. /\ failure' \in [Members -> {"NONE", "EINVAL", "ENOMEM", "ENOENT", "calloc"}]
        /\ UNCHANGED <<table, owner>>
    BY <1>1, <1>2, <1>7, Zenon DEF GroupsTypeOK, table, entry_taken
  <2> QED
    BY <1>1, <1>2, <1>3, <1>4, <1>5, <1>7, <2>1, <2>2, LooksAt, Zenon
<1>8. CASE at[m] = MaxConsumers /\ Fails(m, "ENOMEM") /\ UNCHANGED active
  <2>1. /\ failure' \in [Members -> {"NONE", "EINVAL", "ENOMEM", "ENOENT", "calloc"}]
        /\ Return(m, 0)
    BY <1>1, <1>8, Zenon DEF GroupsTypeOK, Fails
  <2>2. UNCHANGED <<table, owner>>
    BY <1>2, <1>8, Zenon DEF table, entry_taken
  <2> QED
    BY <1>1, <1>2, <1>3, <1>4, <1>5, <2>1, <2>2, LeftAlone, Zenon
<1> QED
  BY <1>6, <1>7, <1>8, Zenon DEF entry_taken, create_cas

\* The store of a group's position: a consumption starts, or one that is resumed goes on
\* with an older group still holding the cleaner back.
LEMMA CreatedKeeps ==
  ASSUME CheckpointInv, NEW m \in Members, group_created(m)
  PROVE  CheckpointInv'
<1> USE GroupsAssumption
<1>1. /\ CheckpointTypeOK /\ GroupsTypeOK /\ StoredInv /\ ScanInv /\ EntryInv
      /\ Place(m) /\ Kept(m)
      /\ step[m] \in Steps /\ ckpt[m] \in CheckpointFile \cup {None}
      /\ want[m] \in GroupIds \cup Group \cup {0}
      /\ mtail[m] \in Position /\ mbuf[m] \in Position \cup {None}
  BY MemberFacts, Zenon
<1>2. /\ mpc[m] = "create_tail" /\ Creating(m)
      /\ gtail' = [gtail EXCEPT ![at[m]] = mtail[m]]
      /\ started' = [started EXCEPT ![at[m]] = mtail[m]]
      /\ Member(m, "create_alloc", at[m], want[m], mtail[m], mbuf[m])
      /\ UNCHANGED <<file, ckpt, step, saved, owner>>
      /\ UNCHANGED <<ring, attached, active, group_id, failure, cleaner, read>>
  BY Zenon DEF group_created, create_tail, Goto, Creating, CreatePCs
<1>3. /\ ~Scanning /\ at[m] \in Group
      /\ (step[m] = "none" /\ ~HasRecord(m) /\ ckpt[m] = None) \/ step[m] = "creating"
      /\ step[m] # "none" => ckpt[m] \in CheckpointFile /\ Below(m, ckpt[m].tail) /\ Live(m)
      /\ HasRecord(m) => Below(m, file[m].tail)
  BY <1>2, CreateFacts, Zenon
<1>4. Step(m, step[m], ckpt[m])
  BY <1>1, <1>2, StepSame, Zenon
<1>5. mpc'[m] = "create_alloc" /\ at'[m] = at[m]
  <2>1. Member(m, "create_alloc", at[m], want[m], mtail[m], mbuf[m])
    BY <1>2, Zenon
  <2> QED
    BY <2>1, OwnLocals, Zenon
<1>6. /\ owner[at[m]] = m /\ started[at[m]] = None
      /\ tail <= mtail[m] /\ mtail[m] <= head
      /\ cpc = "clean" => min_tail <= mtail[m]
      /\ active[at[m]] = 1
  BY <1>1, <1>2, <1>3, CheckpointAssumption, Zenon DEF Place, ScanInv, EntryInv, CreatePCs
<1>7. /\ gtail'[at[m]] = mtail[m] /\ started'[at[m]] = mtail[m]
      /\ gtail' \in [Group -> Position] /\ started' \in [Group -> Position \cup {None}]
      /\ \A h \in Group \ {at[m]} : gtail'[h] = gtail[h] /\ started'[h] = started[h]
  BY <1>1, <1>2, <1>3, Zenon DEF GroupsTypeOK
<1>8. started'[at[m]] # None
  BY <1>1, <1>7, PositionFacts, Zenon
<1>9. HasRecord(m)' = HasRecord(m) /\ ~Using(m)' /\ tail' = tail /\ head' = head
  BY <1>2, <1>5, Zenon DEF HasRecord, Using, Pops, ring
<1>10. Place(m)'
  BY <1>1, <1>2, <1>3, <1>5, <1>6, <1>9, Zenon DEF Place, Pops, CreatePCs
<1>11. /\ base' \in [Members -> Position]
       /\ seen' \in [Members -> SUBSET (Position \cup {None})]
       /\ \A n \in Members \ {m} : base'[n] = base[n] /\ seen'[n] = seen[n]
  <2>1. CASE step[m] = "none"
    <3>1. base' = [base EXCEPT ![m] = mtail[m]] /\ seen' = [seen EXCEPT ![m] = {}]
      BY <2>1, Zenon DEF group_created
    <3> QED
      BY <1>1, <3>1, Zenon DEF CheckpointTypeOK
  <2>2. CASE step[m] # "none"
    BY <1>1, <2>2, Zenon DEF CheckpointTypeOK, group_created
  <2> QED
    BY <2>1, <2>2, Zenon
<1>12. Kept(m)'
  <2>1. CASE step[m] = "none"
    <3>1. base'[m] = mtail[m]
      BY <1>1, <2>1, Zenon DEF CheckpointTypeOK, group_created
    <3>2. /\ base'[m] \in Nat /\ tail \in Nat /\ tail <= base'[m]
          /\ cpc = "clean" => min_tail \in Nat /\ min_tail <= base'[m]
      BY <1>1, <1>6, <3>1, PositionFacts, Zenon DEF GroupsTypeOK, ScanInv
    <3>3. /\ base'[m] .. tail' - 1 = {} /\ base'[m] .. gtail'[at'[m]] - 1 = {}
          /\ cpc = "clean" => base'[m] .. min_tail - 1 = {}
      <4>1. gtail'[at'[m]] = base'[m] /\ base'[m] <= base'[m]
        BY <1>5, <1>7, <3>1, <3>2
      <4> QED
        BY <1>9, <3>2, <4>1, NothingBetween, ZenonT(40)
    <3>4. Below(m, tail)' /\ Below(m, gtail[at[m]])'
      BY <3>3, Zenon DEF Below
    <3>5. cpc' = cpc /\ min_tail' = min_tail /\ ~Scanning' /\ step'[m] = "none"
      BY <1>2, <1>3, <2>1, Zenon DEF cleaner, Scanning
    <3>6. cpc' = "clean" => Below(m, min_tail)'
      BY <3>3, <3>5, Zenon DEF Below
    <3>7. Keeper(m, at[m])'
      BY <1>2, <1>5, <1>6, <1>8, <3>4, Zenon DEF Keeper
    <3>8. \E g \in Group : Keeper(m, g)'
      BY <1>3, <1>5, <3>7, Zenon DEF Keeper, Below
    <3>9. mpc'[m] # "pop_advance" /\ ~HasRecord(m)' /\ step'[m] # "creating"
      BY <1>3, <1>5, <1>9, <2>1, <3>5, Zenon
    <3> QED
      BY <1>9, <3>4, <3>5, <3>6, <3>8, <3>9, Zenon DEF Kept
  <2>2. CASE step[m] = "creating"
    <3>1. /\ UNCHANGED <<tail, cleaner, base, seen>> /\ mpc'[m] # "pop_advance"
          /\ file'[m] = file[m] /\ step'[m] = step[m] /\ ckpt'[m] = ckpt[m]
      BY <1>2, <1>5, <1>9, <2>2, Zenon DEF group_created
    <3>2. \A h \in Group : Keeper(m, h) => Keeper(m, h)' /\ h # at[m]
      BY <1>2, <1>6, <1>7, <3>1, Zenon DEF Keeper, Below
    <3>3. Live(m) /\ \E h \in Group : Keeper(m, h)
      BY <1>1, <1>3, <2>2, Zenon DEF Kept
    <3>4. \E h \in Group : Keeper(m, h)' /\ h # at'[m]
      BY <1>5, <3>2, <3>3, Zenon
    <3>5. seen[m] \subseteq seen'[m] /\ base'[m] = base[m] /\ step[m] # "none"
      BY <2>2, <3>1, Zenon
    <3> QED
      BY <1>1, <1>3, <1>9, <3>1, <3>3, <3>4, <3>5, KeptCarries, Zenon
  <2> QED
    BY <1>3, <2>1, <2>2, Zenon
<1>13. /\ active' \in [Group -> {0, 1}] /\ owner' \in [Group -> Members \cup {None}]
       /\ read' \in [Group -> Position \cup {None}]
       /\ failure' \in [Members -> {"NONE", "EINVAL", "ENOMEM", "ENOENT", "calloc"}]
       /\ active'[at[m]] = 1 /\ owner'[at[m]] = m
  BY <1>1, <1>2, <1>6, Zenon DEF GroupsTypeOK, CheckpointTypeOK
<1>14. /\ UNCHANGED <<ring, attached, group_id, cleaner, file, saved>>
       /\ \A h \in Group \ {at[m]} : /\ active'[h] = active[h] /\ gtail'[h] = gtail[h]
                                    /\ started'[h] = started[h] /\ owner'[h] = owner[h]
       /\ gtail'[at[m]] <= head /\ owner'[at[m]] # None
  BY <1>2, <1>6, <1>7, <1>13, CheckpointAssumption, Zenon
<1> QED
  BY <1>1, <1>2, <1>3, <1>4, <1>6, <1>7, <1>10, <1>11, <1>12, <1>13, <1>14, TableKeeps,
     ZenonT(40)

\* The end of nabd_consumer_create: the handle, or the entry is given back.
LEMMA AllocatedKeeps ==
  ASSUME CheckpointInv, NEW m \in Members, allocated(m)
  PROVE  CheckpointInv'
<1> USE GroupsAssumption
<1>1. /\ CheckpointTypeOK /\ GroupsTypeOK /\ StoredInv /\ EntryInv /\ Place(m) /\ Kept(m)
      /\ step[m] \in Steps /\ ckpt[m] \in CheckpointFile \cup {None}
      /\ 0 \in Position
  BY MemberFacts, Zenon
<1>2. /\ mpc[m] = "create_alloc" /\ Creating(m) /\ Live(m)
      /\ UNCHANGED <<file, ckpt, step, saved, base, seen>>
      /\ UNCHANGED <<ring, attached, group_id, gtail, cleaner>>
  BY Zenon DEF allocated, create_alloc, Creating, CreatePCs, Live
<1>3. /\ ~Scanning /\ at[m] \in Group
      /\ (step[m] = "none" /\ ~HasRecord(m) /\ ckpt[m] = None) \/ step[m] = "creating"
      /\ step[m] # "none" => ckpt[m] \in CheckpointFile /\ Below(m, ckpt[m].tail) /\ Live(m)
      /\ HasRecord(m) => Below(m, file[m].tail)
  BY <1>2, CreateFacts, Zenon
<1>4. Step(m, step[m], ckpt[m]) /\ step'[m] = step[m] /\ ckpt'[m] = ckpt[m]
  BY <1>1, <1>2, StepSame, Zenon
<1>5. owner[at[m]] = m /\ active[at[m]] = 1 /\ at[m] # 0
  BY <1>1, <1>2, <1>3, CheckpointAssumption, Zenon DEF Place, EntryInv, CreatePCs, Group
<1>6. /\ "idle" \in PCs /\ "idle" \notin CreatePCs /\ 0 \in GroupIds \cup Group \cup {0}
      /\ None \in Position \cup {None} /\ 0 \in Group \cup {0}
      /\ HasRecord(m)' = HasRecord(m) /\ tail' = tail /\ head' = head
  BY <1>2, Zenon DEF PCs, CreatePCs, HasRecord, ring
<1>7. CASE Return(m, at[m]) /\ UNCHANGED <<active, failure, started, read>>
  <2>1. Member(m, "idle", at[m], 0, 0, None)
    BY <1>7, Zenon DEF Return
  <2>2. mpc'[m] = "idle" /\ at'[m] = at[m]
    BY <2>1, OwnLocals, Zenon
  <2>3. UNCHANGED <<owner, history>>
    BY <1>7, Zenon DEF allocated, history
  <2>4. Place(m)'
    BY <1>3, <1>4, <1>5, <2>2, <2>3, Zenon DEF Place, Pops, CreatePCs, Using
  <2>5. step[m] \in {"none", "save_open", "save_write"} => Below(m, gtail[at[m]])
    BY <1>1, <1>2, <1>3, Zenon DEF Kept
  <2>6. /\ failure' \in [Members -> {"NONE", "EINVAL", "ENOMEM", "ENOENT", "calloc"}]
        /\ group_id' \in [Group -> GroupIds \cup Group \cup {0}]
        /\ UNCHANGED <<ring, attached, active, gtail, cleaner, history>>
        /\ UNCHANGED <<file, saved, base, seen, owner>>
    BY <1>1, <1>2, <1>7, <2>3, Zenon DEF GroupsTypeOK
  <2>7. /\ at[m] \in Group \cup {0} /\ 0 \in Position
        /\ step[m] \in Steps /\ ckpt[m] \in CheckpointFile \cup {None}
    BY <1>1, <1>3, Zenon
  <2>8. /\ "idle" \in PCs /\ "idle" \notin CreatePCs /\ "idle" # "create_alloc"
        /\ "idle" # "create_tail" /\ "idle" # "pop_advance" /\ Live(m)
        /\ 0 \in GroupIds \cup Group \cup {0} /\ None \in Position \cup {None}
        /\ step[m] # "none" => Below(m, ckpt[m].tail)
        /\ Step(m, step[m], ckpt[m])
    BY <1>2, <1>3, <1>4, <1>6, Zenon
  <2> QED
    BY <2>1, <2>4, <2>5, <2>6, <2>7, <2>8, LocalKeeps, ZenonT(60)
<1>8. CASE /\ active' = [active EXCEPT ![at[m]] = 0]
           /\ started' = [started EXCEPT ![at[m]] = None]
           /\ read' = [read EXCEPT ![at[m]] = None]
           /\ Fails(m, "calloc")
  <2>1. Member(m, "idle", 0, 0, 0, None)
    BY <1>8, Zenon DEF Fails, Return
  <2>2. mpc'[m] = "idle" /\ at'[m] = 0
    BY <2>1, OwnLocals, Zenon
  <2>3. /\ active' \in [Group -> {0, 1}] /\ active'[at[m]] = 0 /\ active' # active
        /\ started' \in [Group -> Position \cup {None}] /\ started'[at[m]] = None
        /\ read' \in [Group -> Position \cup {None}]
        /\ \A h \in Group \ {at[m]} : active'[h] = active[h] /\ started'[h] = started[h]
    <3>1. /\ active \in [Group -> {0, 1}] /\ started \in [Group -> Position \cup {None}]
          /\ read \in [Group -> Position \cup {None}] /\ at[m] \in Group
      BY <1>1, <1>3, Zenon DEF GroupsTypeOK
    <3>2. active[at[m]] # 0
      BY <1>5
    <3> QED
      BY <1>8, <3>1, <3>2, Zenon
  <2>4. owner' = [owner EXCEPT ![at[m]] = None]
    BY <2>3, Zenon DEF allocated
  <2>5. /\ owner' \in [Group -> Members \cup {None}] /\ owner'[at[m]] = None
        /\ \A h \in Group \ {at[m]} : owner'[h] = owner[h]
    BY <1>1, <1>3, <2>4, Zenon DEF CheckpointTypeOK
  <2>6. Place(m)' /\ ~Using(m)'
    BY <1>3, <1>4, <2>2, Zenon DEF Place, Pops, CreatePCs, Using
  <2>7. Kept(m)'
    <3>1. mpc'[m] # "create_alloc" /\ mpc'[m] # "pop_advance"
      BY <2>2, Zenon
    <3>2. CASE step[m] = "none"
      <4>1. ~Live(m)' /\ ~HasRecord(m)' /\ step'[m] = "none"
        BY <1>3, <1>4, <1>6, <2>2, <2>6, <3>2, Zenon DEF Live
      <4> QED
        BY <2>6, <3>1, <4>1, Zenon DEF Kept
    <3>3. CASE step[m] = "creating"
      <4>1. \A h \in Group \ {at[m]} : Keeper(m, h) => Keeper(m, h)'
        BY <1>2, <2>3, <2>5, Zenon DEF Keeper, Below
      <4>2. \E h \in Group : Keeper(m, h) /\ h # at[m]
        BY <1>1, <1>2, <3>3, Zenon DEF Kept
      <4>3. \E h \in Group : Keeper(m, h)'
        BY <4>1, <4>2, Zenon
      <4>4. /\ UNCHANGED <<tail, cleaner>> /\ base'[m] = base[m] /\ seen[m] \subseteq seen'[m]
            /\ file'[m] = file[m]
        BY <1>2, <1>6, Zenon
      <4> QED
        BY <1>1, <1>2, <1>3, <1>4, <1>6, <2>6, <3>1, <4>3, <4>4, KeptCarries, Zenon
    <3> QED
      BY <1>3, <3>2, <3>3, Zenon
  <2>8. /\ gtail' \in [Group -> Position] /\ gtail'[at[m]] <= head
        /\ failure' \in [Members -> {"NONE", "EINVAL", "ENOMEM", "ENOENT", "calloc"}]
        /\ base' \in [Members -> Position]
        /\ seen' \in [Members -> SUBSET (Position \cup {None})]
    BY <1>1, <1>2, <1>3, <1>8, Zenon DEF GroupsTypeOK, CheckpointTypeOK, StoredInv, Fails
  <2>9. /\ UNCHANGED <<ring, attached, group_id, cleaner, file, saved>>
        /\ \A h \in Group \ {at[m]} : /\ active'[h] = active[h] /\ gtail'[h] = gtail[h]
                                     /\ started'[h] = started[h] /\ owner'[h] = owner[h]
        /\ \A n \in Members \ {m} : base'[n] = base[n] /\ seen'[n] = seen[n]
    BY <1>2, <2>3, <2>5, Zenon
  <2>10. /\ step[m] \in Steps /\ ckpt[m] \in CheckpointFile \cup {None} /\ 0 \in Position
         /\ at[m] \in Group /\ owner[at[m]] \in {m, None} /\ Step(m, step[m], ckpt[m])
    BY <1>1, <1>3, <1>4, <1>5, ZenonT(40)
  <2>11. /\ active' \in [Group -> {0, 1}] /\ started' \in [Group -> Position \cup {None}]
         /\ read' \in [Group -> Position \cup {None}]
         /\ owner' \in [Group -> Members \cup {None}]
         /\ started'[at[m]] # None => active'[at[m]] = 1
         /\ active'[at[m]] = 1 <=> owner'[at[m]] # None
    BY <2>3, <2>5
  <2> QED
    BY <1>6, <2>1, <2>6, <2>7, <2>8, <2>9, <2>10, <2>11, TableKeeps, Zenon
<1> QED
  BY <1>7, <1>8, Zenon DEF allocated, create_alloc

\* The store of the position after a message: the member has consumed all up to it, with
\* the one it just read.
LEMMA ConsumedKeeps ==
  ASSUME CheckpointInv, NEW m \in Members, consumed(m)
  PROVE  CheckpointInv'
<1> USE GroupsAssumption
<1>1. /\ CheckpointTypeOK /\ GroupsTypeOK /\ StoredInv /\ EntryInv /\ Place(m) /\ Kept(m)
      /\ step[m] \in Steps /\ ckpt[m] \in CheckpointFile \cup {None}
      /\ at[m] \in Group \cup {0} /\ mtail[m] \in Position
      /\ mbuf[m] \in Position \cup {None} /\ base[m] \in Position /\ 0 \in Position
  BY MemberFacts, Zenon
<1>2. /\ mpc[m] = "pop_advance" /\ seen' = [seen EXCEPT ![m] = @ \cup {mbuf[m]}]
      /\ gtail' = [gtail EXCEPT ![at[m]] = mtail[m] + 1]
      /\ read' = [read EXCEPT ![at[m]] = mbuf[m]]
      /\ Member(m, "idle", at[m], 0, 0, None)
      /\ UNCHANGED <<file, ckpt, step, saved, base, owner>>
      /\ UNCHANGED <<ring, attached, active, group_id, failure, cleaner, started>>
  BY Zenon DEF consumed, pop_advance, Advance, Return
<1>3. /\ at[m] # 0 /\ at[m] \in Group /\ step[m] = "none" /\ Using(m) /\ Live(m)
      /\ owner[at[m]] = m /\ mtail[m] < head
      /\ base[m] .. mtail[m] \subseteq seen[m] \cup {mbuf[m]}
  BY <1>1, <1>2, Zenon DEF Place, Kept, Using, Live, Pops
<1>4. mpc'[m] = "idle" /\ at'[m] = at[m]
  <2>1. Member(m, "idle", at[m], 0, 0, None)
    BY <1>2, Zenon
  <2> QED
    BY <2>1, OwnLocals, Zenon
<1>5. Step(m, step[m], ckpt[m]) /\ step'[m] = "none" /\ ckpt'[m] = None
  BY <1>1, <1>2, <1>3, StepSame, ZenonT(40) DEF Place
<1>6. mtail[m] + 1 \in Position /\ mtail[m] + 1 <= head /\ mtail[m] \in Nat /\ base[m] \in Nat
  BY <1>1, <1>3, SMTT(30) DEF GroupsTypeOK, Position
<1>7. /\ gtail'[at[m]] = mtail[m] + 1 /\ gtail' \in [Group -> Position]
      /\ read' \in [Group -> Position \cup {None}]
      /\ \A h \in Group \ {at[m]} : gtail'[h] = gtail[h]
  BY <1>1, <1>2, <1>3, <1>6, Zenon DEF GroupsTypeOK
<1>8. /\ seen'[m] = seen[m] \cup {mbuf[m]} /\ base' = base
      /\ seen' \in [Members -> SUBSET (Position \cup {None})]
      /\ \A n \in Members \ {m} : seen'[n] = seen[n]
  <2>1. seen \in [Members -> SUBSET (Position \cup {None})]
    BY <1>1, Zenon DEF CheckpointTypeOK
  <2>2. seen[m] \cup {mbuf[m]} \in SUBSET (Position \cup {None})
    BY <1>1, <2>1, Zenon
  <2> QED
    BY <1>2, <2>1, <2>2, Zenon
<1>9. base'[m] .. gtail'[at[m]] - 1 \subseteq seen'[m]
  BY <1>3, <1>6, <1>7, <1>8
<1>10. Place(m)' /\ HasRecord(m)' = HasRecord(m)
  BY <1>2, <1>3, <1>4, <1>5, Zenon DEF Place, Pops, CreatePCs, Using, HasRecord
<1>11. Kept(m)'
  <2>1. Below(m, gtail[at[m]])'
    BY <1>4, <1>9, Zenon DEF Below
  <2>2. \A h \in Group : Keeper(m, h) => Keeper(m, h)'
    <3> SUFFICES ASSUME NEW h \in Group, Keeper(m, h) PROVE Keeper(m, h)'
      BY Zenon
    <3>1. CASE h = at[m]
      BY <1>2, <1>9, <3>1, Zenon DEF Keeper, Below
    <3>2. CASE h # at[m]
      <4>1. gtail'[h] = gtail[h]
        BY <1>7, <3>2, Zenon
      <4> QED
        BY <1>2, <1>8, <4>1, Zenon DEF Keeper, Below
    <3> QED
      BY <3>1, <3>2, Zenon
  <2>3. \E h \in Group : Keeper(m, h)'
    BY <1>1, <1>3, <2>2, Zenon DEF Kept
  <2>4. /\ UNCHANGED <<tail, cleaner>> /\ base'[m] = base[m] /\ seen[m] \subseteq seen'[m]
        /\ mpc'[m] # "create_alloc" /\ mpc'[m] # "pop_advance" /\ file'[m] = file[m]
    BY <1>2, <1>4, <1>8, Zenon DEF ring
  <2>5. HasRecord(m)' => Below(m, file'[m].tail)
    BY <1>1, <1>10, <2>4, Zenon DEF Kept
  <2> QED
    BY <1>1, <1>3, <1>5, <2>1, <2>2, <2>3, <2>4, <2>5, KeptCarries, Zenon
<1>12. /\ active' \in [Group -> {0, 1}] /\ owner' \in [Group -> Members \cup {None}]
       /\ started' \in [Group -> Position \cup {None}]
       /\ failure' \in [Members -> {"NONE", "EINVAL", "ENOMEM", "ENOENT", "calloc"}]
       /\ base' \in [Members -> Position]
       /\ started'[at[m]] # None => active'[at[m]] = 1
       /\ active'[at[m]] = 1 <=> owner'[at[m]] # None
  BY <1>1, <1>2, <1>3, Zenon DEF GroupsTypeOK, CheckpointTypeOK, EntryInv
<1>13. /\ UNCHANGED <<ring, attached, group_id, cleaner, file, saved>>
       /\ \A h \in Group \ {at[m]} : /\ active'[h] = active[h] /\ gtail'[h] = gtail[h]
                                    /\ started'[h] = started[h] /\ owner'[h] = owner[h]
       /\ \A n \in Members \ {m} : base'[n] = base[n] /\ seen'[n] = seen[n]
       /\ gtail'[at[m]] <= head
  BY <1>2, <1>6, <1>7, <1>8, Zenon
<1>14. /\ step[m] \in Steps /\ ckpt[m] \in CheckpointFile \cup {None} /\ 0 \in Position
       /\ at[m] \in Group /\ at[m] \in Group \cup {0} /\ owner[at[m]] \in {m, None}
       /\ 0 \in GroupIds \cup Group \cup {0} /\ None \in Position \cup {None}
  BY <1>1, <1>3, Zenon
<1> QED
  BY <1>2, <1>5, <1>7, <1>8, <1>10, <1>11, <1>12, <1>13, <1>14, TableKeeps, ZenonT(40)

\* The store of a checkpoint's position in the member's group.
LEMMA RestoreKeeps ==
  ASSUME CheckpointInv, NEW m \in Members, restore_tail(m)
  PROVE  CheckpointInv'
<1> USE GroupsAssumption
<1>1. /\ CheckpointTypeOK /\ GroupsTypeOK /\ StoredInv /\ EntryInv /\ Place(m) /\ Kept(m)
      /\ at[m] \in Group \cup {0} /\ want[m] \in GroupIds \cup Group \cup {0}
      /\ mtail[m] \in Position /\ mbuf[m] \in Position \cup {None}
  BY MemberFacts, Zenon
<1>2. /\ step[m] = "restore_tail" /\ gtail' = [gtail EXCEPT ![at[m]] = ckpt[m].tail]
      /\ Step(m, "none", None)
      /\ UNCHANGED <<ring, attached, active, group_id, member, cleaner, history>>
      /\ UNCHANGED <<file, saved, base, seen, owner>>
  BY Zenon DEF restore_tail
<1>3. /\ mpc[m] = "idle" /\ at[m] # 0 /\ at[m] \in Group /\ owner[at[m]] = m
      /\ ckpt[m].tail \in Position /\ ckpt[m].tail <= head /\ Below(m, ckpt[m].tail) /\ Live(m)
  BY <1>1, <1>2, Zenon DEF Place, Kept, Using, Live, CheckpointFile
<1>4. /\ mpc' = mpc /\ at' = at /\ want' = want /\ mtail' = mtail /\ mbuf' = mbuf
      /\ failure' = failure /\ started' = started /\ read' = read
  BY <1>2, Zenon DEF member, history
<1>5. Member(m, "idle", at[m], want[m], mtail[m], mbuf[m])
  BY <1>1, <1>3, <1>4, Zenon DEF Member, GroupsTypeOK
<1>6. step'[m] = "none" /\ ckpt'[m] = None
  BY <1>1, <1>2, StepFrame, Zenon
<1>7. /\ gtail'[at[m]] = ckpt[m].tail /\ gtail' \in [Group -> Position]
      /\ \A h \in Group \ {at[m]} : gtail'[h] = gtail[h]
  BY <1>1, <1>2, <1>3, Zenon DEF GroupsTypeOK
<1>8. Place(m)' /\ HasRecord(m)' = HasRecord(m)
  BY <1>2, <1>3, <1>4, <1>6, ZenonT(40) DEF Place, Pops, CreatePCs, Using, HasRecord
<1>9. Kept(m)'
  <2>1. base'[m] .. gtail'[at[m]] - 1 \subseteq seen'[m]
    BY <1>2, <1>3, <1>7, Zenon DEF Below
  <2>2. Below(m, gtail[at[m]])'
    BY <1>4, <2>1, Zenon DEF Below
  <2>3. \A h \in Group : Keeper(m, h) => Keeper(m, h)'
    <3> SUFFICES ASSUME NEW h \in Group, Keeper(m, h) PROVE Keeper(m, h)'
      BY Zenon
    <3>1. CASE h = at[m]
      BY <1>2, <1>4, <2>1, <3>1, Zenon DEF Keeper, Below
    <3>2. CASE h # at[m]
      <4>1. gtail'[h] = gtail[h]
        BY <1>7, <3>2, Zenon
      <4> QED
        BY <1>2, <1>4, <4>1, Zenon DEF Keeper, Below
    <3> QED
      BY <3>1, <3>2, Zenon
  <2>4. \E h \in Group : Keeper(m, h)'
    BY <1>1, <1>3, <2>3, Zenon DEF Kept
  <2>5. /\ UNCHANGED <<tail, cleaner>> /\ base'[m] = base[m] /\ seen[m] \subseteq seen'[m]
        /\ mpc'[m] # "create_alloc" /\ mpc'[m] # "pop_advance" /\ file'[m] = file[m]
    BY <1>2, <1>3, <1>4, Zenon DEF ring
  <2>6. HasRecord(m)' => Below(m, file'[m].tail)
    BY <1>1, <1>8, <2>5, Zenon DEF Kept
  <2> QED
    BY <1>1, <1>3, <1>6, <2>2, <2>3, <2>4, <2>5, <2>6, KeptCarries, Zenon
<1>10. /\ active' \in [Group -> {0, 1}] /\ owner' \in [Group -> Members \cup {None}]
       /\ started' \in [Group -> Position \cup {None}]
       /\ read' \in [Group -> Position \cup {None}]
       /\ failure' \in [Members -> {"NONE", "EINVAL", "ENOMEM", "ENOENT", "calloc"}]
       /\ base' \in [Members -> Position]
       /\ seen' \in [Members -> SUBSET (Position \cup {None})]
       /\ started'[at[m]] # None => active'[at[m]] = 1
       /\ active'[at[m]] = 1 <=> owner'[at[m]] # None
  BY <1>1, <1>2, <1>3, <1>4, Zenon DEF GroupsTypeOK, CheckpointTypeOK, EntryInv
<1>11. /\ UNCHANGED <<ring, attached, group_id, cleaner, file, saved>>
       /\ \A h \in Group \ {at[m]} : /\ active'[h] = active[h] /\ gtail'[h] = gtail[h]
                                    /\ started'[h] = started[h] /\ owner'[h] = owner[h]
       /\ \A n \in Members \ {m} : base'[n] = base[n] /\ seen'[n] = seen[n]
       /\ gtail'[at[m]] <= head
  BY <1>2, <1>3, <1>4, <1>7, Zenon
<1>12. /\ "none" \in Steps /\ None \in CheckpointFile \cup {None}
       /\ at[m] \in Group /\ at[m] \in Group \cup {0} /\ owner[at[m]] \in {m, None}
       /\ want[m] \in GroupIds \cup Group \cup {0}
       /\ mtail[m] \in Position /\ mbuf[m] \in Position \cup {None}
  BY <1>1, <1>3, Zenon DEF Steps
<1> QED
  BY <1>2, <1>5, <1>7, <1>8, <1>9, <1>10, <1>11, <1>12, TableKeeps, Zenon

\* Every step preserves CheckpointInv, if a member joins no group but its own.
LEMMA CheckpointNextInv ==
  ASSUME CheckpointInv, [CheckpointNext]_cvars,
         \A m \in Members : join_entry(m) /\ UNCHANGED store => OwnGroups'
  PROVE  CheckpointInv'
<1>1. ASSUME NEW m \in Members, Persists(m), Scanning => ~Creating(m)'
      PROVE  CheckpointInv'
  <2>1. CASE group_step(m)
    <3>1. UNCHANGED store
      BY <2>1, Zenon DEF group_step
    <3>2. CASE step[m] = "none" /\ (nabd_consumer_pop(m) \/ pop_head(m) \/ pop_copy(m))
      BY <3>1, <3>2, PopKeeps, Zenon
    <3>3. CASE create_id(m) \/ create_head(m) \/ join_entry(m)
      BY <3>1, <3>3, CreateJoinKeeps, Zenon
    <3> QED
      BY <2>1, <3>2, <3>3, Zenon DEF group_step
  <2> QED
    BY Zenon, <1>1, <2>1, TakeKeeps, CreatedKeeps, AllocatedKeeps, ConsumedKeeps,
       RestoreKeeps,
       FileSteps, StartKeeps, Zenon DEF Persists
<1>2. CASE (attach_multi \/ Produces \/ Scans \/ Cleans) /\ UNCHANGED store
  BY <1>2, ProducerKeeps, ReleaseKeeps, CleanerKeeps, Zenon DEF Cleans
<1>3. CASE (\A m \in Members : ~Creating(m)) /\ nabd_min_tail /\ UNCHANGED store
  BY <1>3, CleanerKeeps, Zenon
<1>4. CASE Acts /\ (Scanning => \A m \in Members : ~Creating(m)')
  <2>1. CASE \E m \in Members : Persists(m)
    BY <1>1, <1>4, <2>1, Zenon
  <2>2. CASE \E m \in Members, id \in GroupIds : start_anew(m, id)
    BY <1>4, <2>2, StartKeeps, Zenon
  <2> QED
    BY <1>4, <2>1, <2>2, Zenon DEF Acts
<1>5. CASE UNCHANGED cvars
  <2>1. UNCHANGED <<ring, attached, table, member, cleaner, history, store>>
    BY <1>5, Zenon DEF cvars, gvars
  <2>2. CheckpointTypeOK' /\ StoredInv'
    BY <2>1, Zenon DEF CheckpointInv, CheckpointTypeOK, GroupsTypeOK, StoredInv,
       get_slot, ring,
       table, member, cleaner, history, store
  <2>3. ScanInv' /\ EntryInv'
    BY <2>1, Zenon DEF CheckpointInv, ScanInv, EntryInv, Scanning, Creating, ring, table,
       member, cleaner, history, store
  <2>4. head' \in Position /\ head <= head' /\ tail' = tail
    BY <2>1, GroupsAssumption, SMTT(30)
       DEF CheckpointInv, CheckpointTypeOK, GroupsTypeOK, Position, ring
  <2>5. \A n \in Members : Place(n)' /\ Kept(n)'
    BY <2>1, <2>4, AllUndisturbed, PlaceStays, KeptStays, Zenon
  <2> QED
    BY <2>2, <2>3, <2>5, Zenon DEF CheckpointInv
<1> QED
  BY <1>2, <1>3, <1>4, <1>5, Zenon DEF CheckpointNext

\* CheckpointInv says what the properties say.
LEMMA CheckpointInvSays == CheckpointInv => NothingSkipped /\ CheckpointBehind /\ OwnGroups
<1> SUFFICES ASSUME CheckpointInv PROVE NothingSkipped /\ CheckpointBehind /\ OwnGroups
  BY Zenon
<1>1. \A m \in Members : Place(m) /\ Kept(m)
  BY Zenon DEF CheckpointInv
<1>2. NothingSkipped
  BY <1>1, Zenon DEF NothingSkipped, Resting, Kept, Using
<1>3. CheckpointBehind
  BY <1>1, Zenon DEF CheckpointBehind, Place, Kept
<1>4. OwnGroups
  BY <1>1, Zenon DEF OwnGroups, Place, Using
<1> QED
  BY <1>2, <1>3, <1>4, Zenon

\* With one member, the group it joins is its own: an active entry has an owner.
LEMMA SoleOwner ==
  ASSUME NEW o, Members = {o}, CheckpointInv, NEW m \in Members, join_entry(m),
         UNCHANGED store
  PROVE  OwnGroups'
<1> USE GroupsAssumption
<1>1. /\ CheckpointTypeOK /\ GroupsTypeOK /\ EntryInv /\ Place(m)
      /\ at[m] \in Group \cup {0}
  BY MemberFacts, Zenon
<1>2. mpc[m] = "join" /\ at[m] \in Group /\ owner' = owner
  BY <1>1, Zenon DEF join_entry, Place, store
<1>3. m = o
  BY Zenon
<1>4. mpc'[m] = "idle" /\ at'[m] # 0 => at'[m] = at[m] /\ active[at[m]] = 1
  <2>1. CASE active[at[m]] = 1 /\ Return(m, at[m])
    <3>1. Member(m, "idle", at[m], 0, 0, None)
      BY <2>1, Zenon DEF Return
    <3>2. at'[m] = at[m]
      BY <3>1, OwnLocals, Zenon
    <3> QED
      BY <2>1, <3>2, Zenon
  <2>2. CASE Return(m, 0)
    <3>1. Member(m, "idle", 0, 0, 0, None)
      BY <2>2, Zenon DEF Return
    <3>2. at'[m] = 0
      BY <3>1, OwnLocals, Zenon
    <3> QED
      BY <3>2, Zenon
  <2>3. CASE Member(m, "join", at[m] + 1, want[m], 0, None)
    <3>1. mpc'[m] = "join"
      BY <2>3, OwnLocals, Zenon
    <3> QED
      BY <3>1, Zenon
  <2> QED
    BY <2>1, <2>2, <2>3, Zenon DEF join_entry, Fails
<1>5. active[at[m]] = 1 => owner[at[m]] = o
  BY <1>1, <1>2, Zenon DEF CheckpointTypeOK, EntryInv
<1> QED
  BY <1>2, <1>3, <1>4, <1>5, Zenon DEF OwnGroups

-----------------------------------------------------------------------------
(* Members with ids of their own *)

\* The member has taken the entry it is at and is still creating its group.
Making(m) == mpc[m] \in CreatePCs \ {"create_cas"}

\* A group that the member made and will not give back.
Firm(m, g) == owner[g] = m /\ ~(at[m] = g /\ Making(m))

\* Such a group has the id.
Named(m, id) == id # 0 /\ \E g \in Group : Firm(m, g) /\ group_id[g] = id

\* The ids that a member's file, its record and its join have are those of groups that
\* it made.
Names(m) ==
  /\ HasRecord(m) => Named(m, file[m].group_id)
  /\ step[m] # "none" => Named(m, ckpt[m].group_id)
  /\ mpc[m] = "join" => Named(m, want[m])
  /\ Using(m) \/ mpc[m] \in {"create_head", "create_tail", "create_alloc"} =>
       group_id[at[m]] # 0

NamesInv == \A m \in Members : Names(m)

\* A step of another member leaves this one's locals and file alone.
Apart(n) ==
  /\ mpc'[n] = mpc[n] /\ at'[n] = at[n] /\ want'[n] = want[n]
  /\ file'[n] = file[n] /\ ckpt'[n] = ckpt[n] /\ step'[n] = step[n]

\* What has to be shown of a step of member m: it leaves the other members and their
\* groups alone, gives no group back that it will use again, and the ids it then has
\* are those of groups that it made.
LEMMA NamesStep ==
  ASSUME CheckpointInv, NamesInv, NEW m \in Members,
         \A n \in Members \ {m} : Apart(n),
         \A g \in Group : owner[g] \notin {m, None} =>
           owner'[g] = owner[g] /\ group_id'[g] = group_id[g],
         \A g \in Group : Firm(m, g) => Firm(m, g)' /\ group_id'[g] = group_id[g],
         HasRecord(m)' => Named(m, file'[m].group_id),
         step'[m] # "none" => Named(m, ckpt'[m].group_id),
         mpc'[m] = "join" => Named(m, want'[m]),
         Using(m)' \/ mpc'[m] \in {"create_head", "create_tail", "create_alloc"} =>
           group_id'[at'[m]] # 0
  PROVE  NamesInv'
<1>1. \A id : Named(m, id) => Named(m, id)'
  BY Zenon DEF Named
<1>2. Names(m)'
  BY <1>1, Zenon DEF Names
<1>3. ASSUME NEW n \in Members \ {m} PROVE Names(n)'
  <2>1. Apart(n) /\ Names(n) /\ Place(n) /\ at[n] \in Group \cup {0} /\ n # None
    BY CheckpointAssumption, Zenon DEF NamesInv, CheckpointInv, CheckpointTypeOK, GroupsTypeOK
  <2>2. \A g \in Group : owner[g] = n => owner'[g] = n /\ group_id'[g] = group_id[g]
    BY <2>1, Zenon
  <2>3. \A id : Named(n, id) => Named(n, id)'
    BY <2>1, <2>2, ZenonT(40) DEF Named, Firm, Making, Apart
  <2>4. /\ HasRecord(n)' => Named(n, file[n].group_id)'
        /\ step'[n] # "none" => Named(n, ckpt[n].group_id)'
        /\ mpc'[n] = "join" => Named(n, want[n])'
    BY <2>1, <2>3, Zenon DEF Names, Apart, HasRecord
  <2>5. ASSUME Using(n)' \/ mpc'[n] \in {"create_head", "create_tail", "create_alloc"}
        PROVE  group_id'[at'[n]] # 0
    <3>1. /\ Using(n) \/ mpc[n] \in {"create_head", "create_tail", "create_alloc"}
          /\ at'[n] = at[n] /\ at[n] # 0
      BY <2>1, <2>5, Zenon DEF Apart, Using, Place
    <3>2. owner[at[n]] = n /\ at[n] \in Group
      BY <2>1, <3>1, Zenon DEF Place, CreatePCs
    <3> QED
      BY <2>1, <2>2, <3>1, <3>2, Zenon DEF Names
  <2> QED
    BY <2>4, <2>5, Zenon DEF Names
<1> QED
  BY <1>2, <1>3, Zenon DEF NamesInv

\* The locals after a step of a member's call.
LEMMA AllLocals ==
  ASSUME CheckpointInv, NEW m \in Members, NEW pc, NEW g, NEW id, NEW t, NEW b,
         Member(m, pc, g, id, t, b)
  PROVE  /\ mpc'[m] = pc /\ at'[m] = g /\ want'[m] = id
         /\ \A n \in Members \ {m} : mpc'[n] = mpc[n] /\ at'[n] = at[n] /\ want'[n] = want[n]
BY Zenon DEF CheckpointInv, CheckpointTypeOK, GroupsTypeOK, Member

\* The calls on files: the member is idle, and the table stays as it is.
LEMMA FileNames ==
  ASSUME CheckpointInv, NamesInv, NEW m \in Members,
         \/ nabd_checkpoint_save(m) \/ save_open(m) \/ save_write(m)
         \/ nabd_checkpoint_load(m) \/ resume_fails(m) \/ restore_head(m) \/ restore_tail(m)
  PROVE  NamesInv'
<1>1. /\ CheckpointTypeOK /\ Place(m) /\ Names(m) /\ file \in [Members -> CheckpointFile]
      /\ at[m] \in Group \cup {0}
  BY MemberFacts, Zenon DEF NamesInv, CheckpointTypeOK
<1>2. UNCHANGED <<mpc, at, want, group_id, owner>> /\ mpc[m] = "idle"
  BY <1>1, Zenon DEF nabd_checkpoint_save, save_open, save_write, nabd_checkpoint_load,
     resume_fails, restore_head, restore_tail, gvars, table, member, Place, Resting
<1>3. /\ \A n \in Members \ {m} : Apart(n)
      /\ HasRecord(m)' => Named(m, file'[m].group_id)
      /\ step'[m] # "none" => Named(m, ckpt'[m].group_id)
  <2>1. PICK s, c : Step(m, s, c)
    BY Zenon DEF nabd_checkpoint_save, save_open, save_write, nabd_checkpoint_load,
       resume_fails, restore_head, restore_tail
  <2>2. \A n \in Members \ {m} : step'[n] = step[n] /\ ckpt'[n] = ckpt[n]
    BY <1>1, <2>1, StepFrame, Zenon
  <2>3. ASSUME file' = file \/ \E r : file' = [file EXCEPT ![m] = r]
        PROVE  \A n \in Members \ {m} : Apart(n)
    BY <1>1, <1>2, <2>2, <2>3, Zenon DEF Apart
  <2>4. ASSUME NEW r, file' = [file EXCEPT ![m] = r] PROVE file'[m] = r
    BY <1>1, <2>4, Zenon
  <2>5. ASSUME NEW s1, NEW c1, Step(m, s1, c1) PROVE step'[m] = s1 /\ ckpt'[m] = c1
    BY <1>1, <2>5, StepFrame, ZenonT(40)
  <2>6. file' = file => (HasRecord(m)' => Named(m, file'[m].group_id))
    BY <1>1, Zenon DEF Names, HasRecord
  <2>7. CASE nabd_checkpoint_save(m)
    <3>1. /\ at[m] # 0 /\ file' = file
          /\ Step(m, "save_open", Record(group_id[at[m]], gtail[at[m]]))
      BY <2>7, Zenon DEF nabd_checkpoint_save
    <3>2. Named(m, group_id[at[m]])
      <4>1. Using(m) /\ at[m] \in Group
        BY <1>1, <1>2, <3>1, Zenon DEF Using
      <4>2. owner[at[m]] = m /\ ~Making(m)
        BY <1>1, <1>2, <4>1, Zenon DEF Place, Making, CreatePCs
      <4> QED
        BY <1>1, <4>1, <4>2, Zenon DEF Named, Firm, Names
    <3>3. ckpt'[m].group_id = group_id[at[m]]
      <4>1. ckpt'[m] = Record(group_id[at[m]], gtail[at[m]])
        BY <3>1, <2>5, Zenon
      <4> QED
        BY <4>1 DEF Record
    <3> QED
      BY <2>3, <2>6, <3>1, <3>2, <3>3
  <2>8. CASE save_open(m)
    <3>1. step[m] # "none"
      BY <2>8 DEF save_open
    <3>2. CASE Step(m, "save_write", ckpt[m]) /\ file' = [file EXCEPT ![m] = Empty]
      <4>1. ~HasRecord(m)'
        <5>1. file'[m] = Empty
          BY <2>4, <3>2, Zenon
        <5> QED
          BY <5>1 DEF HasRecord, Empty
      <4> QED
        BY <1>1, <2>3, <2>5, <3>1, <3>2, <4>1, Zenon DEF Names
    <3>3. CASE Step(m, "none", None) /\ UNCHANGED file
      BY <2>3, <2>5, <2>6, <3>3, Zenon
    <3> QED
      BY <2>8, <3>2, <3>3, ZenonT(40) DEF save_open
  <2>9. CASE save_write(m)
    <3>1. step[m] # "none" /\ step'[m] = "none"
      BY <2>5, <2>9 DEF save_write
    <3>2. CASE file' = [file EXCEPT ![m] = ckpt[m]]
      BY <1>1, <2>3, <2>4, <3>1, <3>2, Zenon DEF Names
    <3>3. CASE UNCHANGED file
      BY <2>3, <2>6, <3>1, <3>3, Zenon
    <3> QED
      BY <2>9, <3>2, <3>3, Zenon DEF save_write
  <2>10. CASE nabd_checkpoint_load(m)
    BY <1>1, <2>3, <2>5, <2>6, <2>10, Zenon DEF nabd_checkpoint_load, Names
  <2>11. CASE resume_fails(m) \/ restore_tail(m)
    BY <2>3, <2>5, <2>6, <2>11, Zenon DEF resume_fails, restore_tail
  <2>12. CASE restore_head(m)
    <3>1. step[m] # "none" /\ file' = file
          /\ ckpt'[m] = [ckpt[m] EXCEPT !.tail = IF @ > head THEN head ELSE @]
      BY <2>5, <2>12, Zenon DEF restore_head
    <3>2. ckpt[m] \in CheckpointFile
      BY <1>1, <3>1, Zenon DEF Place
    <3>3. ckpt'[m].group_id = ckpt[m].group_id
      BY <3>1, <3>2 DEF CheckpointFile
    <3> QED
      BY <1>1, <2>3, <2>6, <3>1, <3>3, Zenon DEF Names
  <2> QED
    BY <2>7, <2>8, <2>9, <2>10, <2>11, <2>12, Zenon
<1>4. \A g \in Group : Firm(m, g) => Firm(m, g)' /\ group_id'[g] = group_id[g]
  BY <1>2, Zenon DEF Firm, Making
<1>5. mpc'[m] # "join" /\ mpc'[m] \notin {"create_head", "create_tail", "create_alloc"}
  BY <1>2, Zenon
<1>6. Using(m)' => group_id'[at'[m]] # 0
  BY <1>1, <1>2, Zenon DEF Using, Names
<1> QED
  BY <1>2, <1>3, <1>4, <1>5, <1>6, NamesStep, Zenon

\* The steps of a call that leave the entries of the table as they are.
LEMMA LocalNames ==
  ASSUME CheckpointInv, NamesInv, NEW m \in Members,
         NEW pc, NEW g, NEW id, NEW t, NEW b, Member(m, pc, g, id, t, b),
         UNCHANGED <<group_id, owner, file>>,
         NEW s, NEW c, Step(m, s, c),
         pc \in CreatePCs \ {"create_cas"} => Making(m) /\ g = at[m],
         s # "none" => Named(m, c.group_id),
         pc = "join" => Named(m, id),
         g # 0 /\ pc \in Pops \cup {"idle"} => group_id[g] # 0,
         pc \in {"create_head", "create_tail", "create_alloc"} => group_id[g] # 0
  PROVE  NamesInv'
<1>1. /\ mpc'[m] = pc /\ at'[m] = g /\ want'[m] = id
      /\ \A n \in Members \ {m} : mpc'[n] = mpc[n] /\ at'[n] = at[n] /\ want'[n] = want[n]
  BY AllLocals, Zenon
<1>2. CheckpointTypeOK /\ Names(m)
  BY MemberFacts, Zenon DEF NamesInv
<1>3. /\ step'[m] = s /\ ckpt'[m] = c
      /\ \A n \in Members \ {m} : step'[n] = step[n] /\ ckpt'[n] = ckpt[n]
  BY <1>2, StepFrame, Zenon
<1>4. \A n \in Members \ {m} : Apart(n)
  BY <1>1, <1>3, Zenon DEF Apart
<1>5. \A h \in Group : Firm(m, h) => Firm(m, h)' /\ group_id'[h] = group_id[h]
  BY <1>1, Zenon DEF Firm, Making
<1>6. HasRecord(m)' => Named(m, file'[m].group_id)
  BY <1>2, Zenon DEF Names, HasRecord
<1>7. Using(m)' \/ mpc'[m] \in {"create_head", "create_tail", "create_alloc"} =>
        group_id'[at'[m]] # 0
  BY <1>1, Zenon DEF Using
<1> QED
  BY <1>1, <1>3, <1>4, <1>5, <1>6, <1>7, NamesStep, Zenon

\* The calls that end, with a handle or without.
LEMMA ReturnNames ==
  ASSUME CheckpointInv, NamesInv, NEW m \in Members,
         NEW g, NEW id, NEW t, NEW b, Member(m, "idle", g, id, t, b),
         UNCHANGED <<group_id, owner, file>>,
         NEW s, NEW c, Step(m, s, c),
         s # "none" => Named(m, c.group_id),
         g # 0 => group_id[g] # 0
  PROVE  NamesInv'
<1>1. /\ "idle" \notin CreatePCs /\ "idle" # "join"
      /\ "idle" \notin {"create_head", "create_tail", "create_alloc"}
  BY DEF CreatePCs
<1> QED
  BY <1>1, LocalNames, Zenon

\* The calls begin, poll a group, load the head, look for an entry or end.
LEMMA CallNames ==
  ASSUME CheckpointInv, NamesInv, NEW m \in Members,
         \/ \E id \in GroupIds : start_anew(m, id)
         \/ nabd_consumer_resume(m) \/ resume_join(m) \/ group_created(m) \/ consumed(m)
         \/ crash(m) \/ (group_step(m) /\ ~create_id(m))
  PROVE  NamesInv'
<1>1. CheckpointTypeOK /\ Place(m) /\ Names(m) /\ at[m] \in Group \cup {0}
  BY MemberFacts, Zenon DEF NamesInv
<1>2. ASSUME UNCHANGED store PROVE Step(m, step[m], ckpt[m]) /\ UNCHANGED <<owner, file>>
  BY <1>1, <1>2, StepSame, Zenon DEF store
<1>3. step[m] # "none" => Named(m, ckpt[m].group_id)
  BY <1>1, Zenon DEF Names
<1>4. ASSUME NEW id, NEW pc \in {"create_cas", "join"}, Open(m, id, pc),
             UNCHANGED <<owner, file>>, NEW s, NEW c, Step(m, s, c),
             s # "none" => Named(m, c.group_id), pc = "join" => Named(m, id)
      PROVE  NamesInv'
  <2>1. UNCHANGED group_id
    BY <1>4, Zenon DEF Open, table
  <2>2. CASE Member(m, "idle", 0, 0, 0, None)
    BY <1>4, <2>1, <2>2, ReturnNames, Zenon
  <2>3. CASE Member(m, pc, 1, id, 0, None)
    BY <1>4, <2>1, <2>3, LocalNames, Zenon DEF CreatePCs, Pops
  <2> QED
    BY <1>4, <2>2, <2>3, Zenon DEF Open, Fails, Return
<1>5. CASE \E id \in GroupIds : start_anew(m, id)
  BY <1>2, <1>3, <1>4, <1>5, Zenon DEF start_anew, nabd_consumer_create
<1>6. CASE nabd_consumer_resume(m)
  BY <1>1, <1>4, <1>6, Zenon DEF nabd_consumer_resume, nabd_consumer_create, Names
<1>7. CASE resume_join(m)
  BY <1>1, <1>4, <1>7, Zenon DEF resume_join, nabd_consumer_join, Names
<1>8. CASE group_created(m)
  <2>1. /\ Member(m, "create_alloc", at[m], want[m], mtail[m], mbuf[m])
        /\ UNCHANGED <<group_id, owner, file, step, ckpt>> /\ mpc[m] = "create_tail"
    BY <1>8, Zenon DEF group_created, create_tail, Goto
  <2>2. Step(m, step[m], ckpt[m])
    BY <1>1, <2>1, StepSame, Zenon
  <2>3. Making(m) /\ group_id[at[m]] # 0
    BY <1>1, <2>1, Zenon DEF Making, CreatePCs, Names
  <2>4. "create_alloc" # "join"
    OBVIOUS
  <2> QED
    BY <1>3, <2>1, <2>2, <2>3, <2>4, LocalNames, Zenon
<1>9. CASE consumed(m)
  <2>1. /\ Member(m, "idle", at[m], 0, 0, None)
        /\ UNCHANGED <<group_id, owner, file, step, ckpt>> /\ mpc[m] = "pop_advance"
    BY <1>9, Zenon DEF consumed, pop_advance, Advance, Return
  <2>2. Step(m, step[m], ckpt[m])
    BY <1>1, <2>1, StepSame, Zenon
  <2>3. group_id[at[m]] # 0
    BY <1>1, <2>1, Zenon DEF Names, Using, Pops, Place
  <2> QED
    BY <1>3, <2>1, <2>2, <2>3, ReturnNames, Zenon
<1>10. CASE crash(m)
  <2>1. /\ Member(m, "idle", 0, 0, 0, None) /\ UNCHANGED <<group_id, owner, file>>
        /\ Step(m, "none", None)
    BY <1>10, Zenon DEF crash, member_crash, Return, table
  <2> QED
    BY <2>1, ReturnNames, Zenon
<1>11. CASE group_step(m) /\ ~create_id(m)
  <2>1. /\ UNCHANGED <<group_id, owner, file>> /\ Step(m, step[m], ckpt[m])
    BY <1>2, <1>11, Zenon DEF group_step, nabd_consumer_pop, Loads, pop_head, Checks,
       pop_copy, ReadsSlot, create_head, join_entry, table
  <2>2. ASSUME NEW pc \in Pops \cup {"idle"}, NEW g \in {0, at[m]}, NEW id, NEW t, NEW b,
               Member(m, pc, g, id, t, b), g # 0 => group_id[g] # 0
        PROVE  NamesInv'
    <3>1. pc \notin CreatePCs /\ pc # "join"
      BY Zenon DEF CreatePCs, Pops
    <3> QED
      BY <1>3, <2>1, <2>2, <3>1, LocalNames, Zenon DEF CreatePCs
  <2>3. CASE nabd_consumer_pop(m) \/ pop_head(m) \/ pop_copy(m)
    <3>1. group_id[at[m]] # 0
      BY <1>1, <2>3, Zenon DEF nabd_consumer_pop, Loads, pop_head, Checks, pop_copy,
         ReadsSlot, Names, Using, Pops, Place
    <3>2. \E pc \in Pops \cup {"idle"}, g \in {0, at[m]} : \E id, t, b :
            Member(m, pc, g, id, t, b)
      BY <2>3, Zenon DEF nabd_consumer_pop, Loads, pop_head, Checks, pop_copy, ReadsSlot,
         Goto, Return, Pops
    <3> QED
      BY <2>2, <3>1, <3>2, Zenon
  <2>4. CASE create_head(m)
    <3>1. Member(m, "create_tail", at[m], want[m], head, None) /\ mpc[m] = "create_head"
      BY <2>4, Zenon DEF create_head
    <3>2. Making(m) /\ group_id[at[m]] # 0
      BY <1>1, <3>1, Zenon DEF Making, CreatePCs, Names
    <3>3. "create_tail" # "join"
      OBVIOUS
    <3> QED
      BY <1>3, <2>1, <3>1, <3>2, <3>3, LocalNames, Zenon
  <2>5. CASE join_entry(m)
    <3>1. mpc[m] = "join" /\ Named(m, want[m])
      BY <1>1, <2>5, Zenon DEF join_entry, Names
    <3>2. CASE group_id[at[m]] = want[m] /\ Return(m, at[m])
      BY <2>2, <3>1, <3>2, Zenon DEF Return, Named
    <3>3. CASE Return(m, 0)
      BY <2>2, <3>3, Zenon DEF Return
    <3>4. CASE Member(m, "join", at[m] + 1, want[m], 0, None)
      BY <1>3, <2>1, <3>1, <3>4, LocalNames, Zenon DEF CreatePCs, Pops
    <3> QED
      BY <2>5, <3>2, <3>3, <3>4, Zenon DEF join_entry, Fails
  <2> QED
    BY <1>11, <2>3, <2>4, <2>5, Zenon DEF group_step
<1> QED
  BY <1>5, <1>6, <1>7, <1>8, <1>9, <1>10, <1>11, Zenon

\* The steps of a create that change the table: an entry is taken, named or given back.
LEMMA TableNames ==
  ASSUME CheckpointInv, NamesInv, NEW m \in Members,
         \/ entry_taken(m) \/ allocated(m) \/ (create_id(m) /\ UNCHANGED store)
  PROVE  NamesInv'
<1>1. /\ CheckpointTypeOK /\ GroupsTypeOK /\ EntryInv /\ Place(m) /\ Names(m)
      /\ at[m] \in Group \cup {0} /\ m # None
      /\ owner \in [Group -> Members \cup {None}]
      /\ group_id \in [Group -> GroupIds \cup Group \cup {0}]
      /\ active \in [Group -> {0, 1}]
  BY MemberFacts, CheckpointAssumption, Zenon DEF NamesInv, CheckpointTypeOK, GroupsTypeOK
<1>2. /\ UNCHANGED <<file, step, ckpt>> /\ mpc[m] \in CreatePCs
      /\ step[m] # "none" => Named(m, ckpt[m].group_id)
  BY <1>1, Zenon DEF entry_taken, allocated, create_cas, create_alloc, create_id, store,
     CreatePCs, Names
<1>3. at[m] \in Group /\ HasRecord(m)' = HasRecord(m) /\ Step(m, step[m], ckpt[m])
  BY <1>1, <1>2, StepSame, Zenon DEF Place, CreatePCs, HasRecord
<1>4. ASSUME NEW pc \in CreatePCs \cup {"idle"}, NEW g, NEW id, NEW t, NEW b,
             Member(m, pc, g, id, t, b),
             \A h \in Group \ {at[m]} : owner'[h] = owner[h] /\ group_id'[h] = group_id[h],
             owner[at[m]] \in {m, None} /\ ~Firm(m, at[m]),
             pc \in CreatePCs \ {"create_cas"} => g = at[m],
             pc \in {"idle", "create_head", "create_tail", "create_alloc"} /\ g # 0 =>
               group_id'[g] # 0
      PROVE  NamesInv'
  <2>1. /\ mpc'[m] = pc /\ at'[m] = g /\ want'[m] = id
        /\ \A n \in Members \ {m} : mpc'[n] = mpc[n] /\ at'[n] = at[n] /\ want'[n] = want[n]
    BY <1>4, AllLocals, Zenon
  <2>2. \A n \in Members \ {m} : Apart(n)
    BY <1>2, <2>1, Zenon DEF Apart
  <2>3. \A h \in Group : owner[h] \notin {m, None} =>
          owner'[h] = owner[h] /\ group_id'[h] = group_id[h]
    BY <1>4, Zenon
  <2>4. \A h \in Group : Firm(m, h) => Firm(m, h)' /\ group_id'[h] = group_id[h]
    BY <1>4, <2>1, Zenon DEF Firm, Making
  <2>5. mpc'[m] # "join" /\ pc \notin Pops /\ (pc \in CreatePCs => pc # "idle")
    BY <2>1 DEF CreatePCs, Pops
  <2>6. HasRecord(m)' => Named(m, file'[m].group_id)
    BY <1>1, <1>2, <1>3, Zenon DEF Names
  <2>7. Using(m)' \/ mpc'[m] \in {"create_head", "create_tail", "create_alloc"} =>
          group_id'[at'[m]] # 0
    <3>1. 0 \notin Group
      BY GroupsAssumption DEF Group
    <3>2. pc \in {"create_head", "create_tail", "create_alloc"} => g # 0
      BY <1>3, <1>4, <3>1 DEF CreatePCs
    <3> QED
      BY <1>4, <2>1, <2>5, <3>2, Zenon DEF Using
  <2>8. step'[m] # "none" => Named(m, ckpt'[m].group_id)
    BY <1>2, Zenon
  <2> QED
    BY <2>2, <2>3, <2>4, <2>5, <2>6, <2>7, <2>8, NamesStep, Zenon
<1>5. CASE entry_taken(m)
  <2>1. /\ mpc[m] = "create_cas" /\ UNCHANGED group_id
        /\ owner' = IF active' = active THEN owner ELSE [owner EXCEPT ![at[m]] = m]
    BY <1>5, Zenon DEF entry_taken, create_cas
  <2>2. CASE active[at[m]] = 0 /\ active' = [active EXCEPT ![at[m]] = 1] /\ Goto(m, "create_id")
    <3>1. owner[at[m]] = None
      BY <1>1, <1>3, <2>2 DEF EntryInv
    <3>2. active'[at[m]] = 1 /\ active' # active
      BY <1>1, <1>3, <2>2
    <3>3. \A h \in Group \ {at[m]} : owner'[h] = owner[h] /\ group_id'[h] = group_id[h]
      BY <1>1, <2>1, <3>2, Zenon
    <3>4. ~Firm(m, at[m])
      BY <1>1, <3>1, Zenon DEF Firm
    <3>5. "create_id" \in CreatePCs
          /\ "create_id" \notin {"idle", "create_head", "create_tail", "create_alloc"}
      BY DEF CreatePCs
    <3> QED
      BY <1>4, <2>2, <3>1, <3>3, <3>4, <3>5, Zenon DEF Goto
  <2>3. CASE UNCHANGED active /\ \/ Member(m, "create_cas", at[m] + 1, want[m], 0, None)
                                 \/ Return(m, 0)
    <3>1. UNCHANGED <<owner, group_id>>
      BY <2>1, <2>3, Zenon
    <3>2. CASE Member(m, "create_cas", at[m] + 1, want[m], 0, None)
      <4>1. /\ "create_cas" # "join" /\ "create_cas" \notin Pops \cup {"idle"}
            /\ "create_cas" \notin {"create_head", "create_tail", "create_alloc"}
        BY DEF Pops
      <4> QED
        BY <1>2, <1>3, <3>1, <3>2, <4>1, LocalNames, Zenon
    <3>3. CASE Return(m, 0)
      BY <1>2, <1>3, <3>1, <3>3, ReturnNames, Zenon DEF Return
    <3> QED
      BY <2>3, <3>2, <3>3, Zenon
  <2> QED
    BY <1>5, <2>2, <2>3, Zenon DEF entry_taken, create_cas, Fails
<1>6. CASE create_id(m) /\ UNCHANGED store
  <2>1. /\ mpc[m] = "create_id" /\ owner' = owner
        /\ group_id' = [group_id EXCEPT ![at[m]] = IF want[m] # 0 THEN want[m] ELSE at[m]]
        /\ Member(m, "create_head", at[m], want[m], mtail[m], mbuf[m])
    BY <1>6, Zenon DEF create_id, store, Goto
  <2>2. at[m] # 0
    BY <1>1, <2>1, Zenon DEF Place
  <2>3. group_id'[at[m]] # 0 /\ \A h \in Group \ {at[m]} : group_id'[h] = group_id[h]
    BY <1>1, <1>3, <2>1, <2>2, Zenon
  <2>4. owner[at[m]] = m /\ ~Firm(m, at[m]) /\ "create_head" \in CreatePCs
    BY <1>1, <2>1, Zenon DEF Place, Firm, Making, CreatePCs
  <2> QED
    BY <1>4, <2>1, <2>3, <2>4, Zenon
<1>7. CASE allocated(m)
  <2>1. /\ mpc[m] = "create_alloc" /\ UNCHANGED group_id /\ group_id[at[m]] # 0
        /\ owner' = IF active' = active THEN owner ELSE [owner EXCEPT ![at[m]] = None]
    BY <1>1, <1>7, Zenon DEF allocated, create_alloc, Names
  <2>2. owner[at[m]] = m /\ ~Firm(m, at[m])
    BY <1>1, <2>1, Zenon DEF Place, Firm, Making, CreatePCs
  <2>3. \A h \in Group \ {at[m]} : owner'[h] = owner[h] /\ group_id'[h] = group_id[h]
    BY <1>1, <2>1, Zenon
  <2>4. "idle" \notin CreatePCs
    BY DEF CreatePCs
  <2>5. Member(m, "idle", at[m], 0, 0, None) \/ Member(m, "idle", 0, 0, 0, None)
    BY <1>7, Zenon DEF allocated, create_alloc, Fails, Return
  <2> QED
    BY <1>4, <2>1, <2>2, <2>3, <2>4, <2>5, Zenon
<1> QED
  BY <1>5, <1>6, <1>7, Zenon

\* Every step preserves what is known of the ids.
LEMMA NamesNextInv ==
  ASSUME CheckpointInv, NamesInv, [CheckpointNext]_cvars
  PROVE  NamesInv'
<1>1. ASSUME NEW m \in Members, Persists(m) PROVE NamesInv'
  <2>1. group_step(m) => (group_step(m) /\ ~create_id(m)) \/ (create_id(m) /\ UNCHANGED store)
    BY Zenon DEF group_step
  <2> QED
    BY <1>1, <2>1, FileNames, CallNames, TableNames, Zenon DEF Persists
<1>2. ASSUME NEW m \in Members, NEW id \in GroupIds, start_anew(m, id) PROVE NamesInv'
  BY <1>2, CallNames, Zenon
<1>3. ASSUME UNCHANGED <<table, member, store>> PROVE NamesInv'
  <2> SUFFICES ASSUME NEW m \in Members PROVE Names(m)'
    BY Zenon DEF NamesInv
  <2>1. UNCHANGED <<mpc, at, want, group_id, owner, file, ckpt, step>>
    BY <1>3, Zenon DEF table, member, store
  <2>2. Names(m) /\ \A id : Named(m, id) => Named(m, id)'
    BY <2>1, Zenon DEF NamesInv, Named, Firm, Making
  <2> QED
    BY <2>1, <2>2, Zenon DEF Names, HasRecord, Using
<1>4. CASE (attach_multi \/ Produces \/ Scans \/ Cleans) /\ UNCHANGED store
  <2>1. UNCHANGED <<table, member>>
    BY <1>4, Zenon DEF attach_multi, Produces, nabd_push, push_publish, Scans,
       min_tail_active, min_tail_tail, min_tail_return, Cleans, clean_release, clean_done
  <2> QED
    BY <1>3, <1>4, <2>1, Zenon
<1>5. CASE nabd_min_tail /\ UNCHANGED store
  BY <1>3, <1>5, Zenon DEF nabd_min_tail
<1>6. CASE UNCHANGED cvars
  BY <1>3, <1>6, Zenon DEF cvars, gvars
<1> QED
  BY <1>1, <1>2, <1>4, <1>5, <1>6, Zenon DEF CheckpointNext, Acts

\* A member joins a group of its own, if no other member has one of the same id: the
\* entries that it finds active under the id of its checkpoint have an owner.
LEMMA JoinsOwn ==
  ASSUME CheckpointInv, NamesInv, DistinctIds, NEW m \in Members, join_entry(m),
         UNCHANGED store
  PROVE  OwnGroups'
<1>1. /\ GroupsTypeOK /\ EntryInv /\ Place(m) /\ Names(m) /\ at[m] \in Group \cup {0}
      /\ m # None /\ OwnGroups
  BY MemberFacts, CheckpointInvSays, CheckpointAssumption, Zenon DEF NamesInv
<1>2. mpc[m] = "join" /\ at[m] \in Group /\ owner' = owner /\ Named(m, want[m])
  BY <1>1, Zenon DEF join_entry, Place, Names, store
<1>3. ASSUME active[at[m]] = 1, group_id[at[m]] = want[m] PROVE owner[at[m]] = m
  <2>1. PICK g \in Group : owner[g] = m /\ group_id[g] = want[m]
    BY <1>2, Zenon DEF Named, Firm
  <2>2. owner[at[m]] # None /\ want[m] # 0
    BY <1>1, <1>2, <1>3, Zenon DEF EntryInv, Named
  <2> QED
    BY <1>1, <1>2, <1>3, <2>1, <2>2, Zenon DEF DistinctIds
<1>4. ASSUME NEW pc, NEW g, NEW id, NEW t, NEW b, Member(m, pc, g, id, t, b),
             pc = "idle" /\ g # 0 => owner[g] = m
      PROVE  OwnGroups'
  <2>1. /\ mpc'[m] = pc /\ at'[m] = g /\ want'[m] = id
        /\ \A n \in Members \ {m} : mpc'[n] = mpc[n] /\ at'[n] = at[n] /\ want'[n] = want[n]
    BY <1>4, AllLocals, Zenon
  <2>2. ASSUME NEW n \in Members, mpc'[n] = "idle", at'[n] # 0 PROVE owner'[at'[n]] = n
    <3>1. CASE n = m
      <4>1. pc = "idle" /\ g # 0 /\ owner'[at'[n]] = owner[g]
        BY <1>2, <2>1, <2>2, <3>1
      <4> QED
        BY <1>4, <3>1, <4>1
    <3>2. CASE n # m
      BY <1>1, <1>2, <2>1, <2>2, <3>2, Zenon DEF OwnGroups
    <3> QED
      BY <3>1, <3>2, Zenon
  <2> QED
    BY <2>2, Zenon DEF OwnGroups
<1>5. "join" # "idle"
  OBVIOUS
<1> QED
  BY <1>3, <1>4, <1>5, Zenon DEF join_entry, Return, Fails

\* However many members there are, in whatever order their calls, their crashes, the
\* producer and the cleaner go: if no member uses a group that another one made, the
\* invariant holds.
THEOREM CheckpointInvariant == CheckpointSpec /\ []OwnGroups => []CheckpointInv
<1>1. CheckpointInv /\ OwnGroups' /\ [CheckpointNext]_cvars => CheckpointInv'
  BY CheckpointNextInv, Zenon
<1> QED
  BY <1>1, CheckpointInitInv, PTL DEF CheckpointSpec

\* A member that saves its position, dies, loads the checkpoint and resumes
\* (persistence.c:174-261) has consumed every message before its group's position,
\* although the cleaner may have given back slots ahead of the checkpoint.
THEOREM ResumesWithoutLoss == CheckpointSpec /\ []OwnGroups => []NothingSkipped
  BY CheckpointInvariant, CheckpointInvSays, PTL

\* nabd_checkpoint_save writes no position ahead of what its member has consumed, and no
\* crash, resume or later save makes an older file such a position.
THEOREM CheckpointsTrail == CheckpointSpec /\ []OwnGroups => []CheckpointBehind
  BY CheckpointInvariant, CheckpointInvSays, PTL

\* The only consumer of a queue uses no group that another one made.
THEOREM SoleMemberOwns == (\E o : Members = {o}) => (CheckpointSpec => []OwnGroups)
<1> SUFFICES ASSUME NEW o, Members = {o} PROVE CheckpointSpec => []OwnGroups
  BY Zenon
<1>1. CheckpointInv /\ [CheckpointNext]_cvars => CheckpointInv'
  <2> SUFFICES ASSUME CheckpointInv, [CheckpointNext]_cvars PROVE CheckpointInv'
    BY Zenon
  <2>1. \A m \in Members : join_entry(m) /\ UNCHANGED store => OwnGroups'
    BY SoleOwner, Zenon
  <2> QED
    BY <2>1, CheckpointNextInv, Zenon
<1> QED
  BY <1>1, CheckpointInitInv, CheckpointInvSays, PTL DEF CheckpointSpec

\* So it loses nothing and saves nothing ahead of what it consumed, whatever it does.
THEOREM SoleMemberSafe ==
  (\E o : Members = {o}) => (CheckpointSpec => []NothingSkipped /\ []CheckpointBehind)
<1> SUFFICES ASSUME \E o : Members = {o}
             PROVE  CheckpointSpec => []NothingSkipped /\ []CheckpointBehind
  BY Zenon
<1>1. CheckpointSpec => []OwnGroups
  BY SoleMemberOwns, Zenon
<1> QED
  BY <1>1, ResumesWithoutLoss, CheckpointsTrail, PTL

\* However many members there are: if no two of them have groups of one id in the table,
\* no member uses a group that another one made, although nabd_consumer_resume
\* (persistence.c:226) joins any group of the id that it finds.
THEOREM DistinctIdsOwn == CheckpointSpec /\ []DistinctIds => []OwnGroups
<1>1. CheckpointInit => NamesInv
  <2> SUFFICES ASSUME CheckpointInit, NEW m \in Members PROVE Names(m)
    BY Zenon DEF NamesInv
  <2>1. mpc[m] = "idle" /\ at[m] = 0 /\ file[m] = Absent /\ step[m] = "none"
    BY Zenon DEF CheckpointInit, GroupsInit
  <2>2. ~HasRecord(m)
    BY <2>1 DEF HasRecord, Absent
  <2>3. mpc[m] # "join" /\ mpc[m] \notin {"create_head", "create_tail", "create_alloc"}
    BY <2>1
  <2> QED
    BY <2>1, <2>2, <2>3, Zenon DEF Names, Using
<1>2. /\ CheckpointInv /\ NamesInv /\ DistinctIds /\ [CheckpointNext]_cvars
         => (CheckpointInv /\ NamesInv)'
  <2> SUFFICES ASSUME CheckpointInv, NamesInv, DistinctIds, [CheckpointNext]_cvars
               PROVE  CheckpointInv' /\ NamesInv'
    BY Zenon
  <2>1. \A m \in Members : join_entry(m) /\ UNCHANGED store => OwnGroups'
    BY JoinsOwn, Zenon
  <2> QED
    BY <2>1, CheckpointNextInv, NamesNextInv, Zenon
<1> QED
  BY <1>1, <1>2, CheckpointInitInv, CheckpointInvSays, PTL DEF CheckpointSpec

\* So each of them resumes without loss and saves nothing ahead of what it consumed.
THEOREM DistinctIdsSafe ==
  CheckpointSpec /\ []DistinctIds => []NothingSkipped /\ []CheckpointBehind
  BY DistinctIdsOwn, ResumesWithoutLoss, CheckpointsTrail, PTL
=============================================================================

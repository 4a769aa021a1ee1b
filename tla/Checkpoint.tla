----------------------------- MODULE Checkpoint -----------------------------
(***************************************************************************)
(* Checkpoints (src/src/persistence.c:174-261): a member of a consumer     *)
(* group saves its position to a file, crashes, loads the file and resumes *)
(* from it.  The group operations are the ones of Groups.                  *)
(*                                                                         *)
(* A file that was opened for writing is empty until the buffered record   *)
(* reaches it, when fclose flushes; what is there of a record cut short is *)
(* no better than an empty file, since fread then returns 0.  A whole      *)
(* record has the magic and the checksum it was written with (Arith).      *)
(***************************************************************************)
EXTENDS Groups

ASSUME CheckpointAssumption == None \notin Members

VARIABLES
  file,    \* each member's checkpoint file: absent, empty or a record
  ckpt,    \* the record a member is saving or resuming from, or None
  step,    \* where it is in such a call, "none" outside
  saved,   \* history: a record of the member once reached its file
  base,    \* history: the position its consumption started at
  seen,    \* history: the messages it has consumed since
  owner    \* history: the member that made the group of an entry

store == <<file, ckpt, step, saved, base, seen, owner>>
cvars == <<gvars, store>>

Absent == [kind |-> "absent", group_id |-> 0, tail |-> 0]

Empty == [kind |-> "empty", group_id |-> 0, tail |-> 0]

Record(id, t) == [kind |-> "record", group_id |-> id, tail |-> t]

CheckpointInit ==
  /\ GroupsInit
  /\ file = [m \in Members |-> Absent]
  /\ ckpt = [m \in Members |-> None]
  /\ step = [m \in Members |-> "none"]
  /\ saved = [m \in Members |-> FALSE]
  /\ base = [m \in Members |-> 0]
  /\ seen = [m \in Members |-> {}]
  /\ owner = [g \in Group |-> None]

HasRecord(m) == file[m].kind = "record"

Resting(m) == mpc[m] = "idle" /\ step[m] = "none"

Step(m, s, c) ==
  /\ step' = [step EXCEPT ![m] = s]
  /\ ckpt' = [ckpt EXCEPT ![m] = c]
-----------------------------------------------------------------------------
(* Steps of Groups, with what they add to the history *)

\* An entry of the table belongs to the member that takes it, until the allocation of
\* its handle fails.
entry_taken(m) ==
  /\ create_cas(m)
  /\ owner' = IF active' = active THEN owner ELSE [owner EXCEPT ![at[m]] = m]
  /\ UNCHANGED <<file, ckpt, step, saved, base, seen>>

allocated(m) ==
  /\ create_alloc(m)
  /\ owner' = IF active' = active THEN owner ELSE [owner EXCEPT ![at[m]] = None]
  /\ UNCHANGED <<file, ckpt, step, saved, base, seen>>

\* A group that is created anew starts a consumption, unless it is resumed.
group_created(m) ==
  /\ create_tail(m)
  /\ base' = IF step[m] = "none" THEN [base EXCEPT ![m] = mtail[m]] ELSE base
  /\ seen' = IF step[m] = "none" THEN [seen EXCEPT ![m] = {}] ELSE seen
  /\ UNCHANGED <<file, ckpt, step, saved, owner>>

consumed(m) ==
  /\ pop_advance(m)
  /\ seen' = [seen EXCEPT ![m] = @ \cup {mbuf[m]}]
  /\ UNCHANGED <<file, ckpt, step, saved, base, owner>>

\* The member polls its group, or goes on with a create or join.
group_step(m) ==
  /\ \/ step[m] = "none" /\ (nabd_consumer_pop(m) \/ pop_head(m) \/ pop_copy(m))
     \/ create_id(m) \/ create_head(m) \/ join_entry(m)
  /\ UNCHANGED store

\* The process dies, and the buffer of a file it was writing with it.
crash(m) ==
  /\ member_crash(m)
  /\ Step(m, "none", None)
  /\ UNCHANGED <<file, saved, base, seen, owner>>
-----------------------------------------------------------------------------
(* nabd_checkpoint_save *)

\* Mutant of nabd_checkpoint_save: the position after the next message.
save_next(m) ==
  /\ Resting(m) /\ at[m] # 0
  /\ Step(m, "save_open", Record(group_id[at[m]], gtail[at[m]] + 1))
  /\ UNCHANGED <<gvars, file, saved, base, seen, owner>>

\* The id is that of the handle, c->group_id: the one in the table, which nobody but the
\* member that made the group stores.
nabd_checkpoint_save(m) ==
  /\ Resting(m) /\ at[m] # 0
  /\ Step(m, "save_open", Record(group_id[at[m]], gtail[at[m]]))
  /\ UNCHANGED <<gvars, file, saved, base, seen, owner>>

\* fopen with "wb" truncates the file, or fails.
save_open(m) ==
  /\ step[m] = "save_open"
  /\ \/ Step(m, "save_write", ckpt[m]) /\ file' = [file EXCEPT ![m] = Empty]
     \/ Step(m, "none", None) /\ UNCHANGED file
  /\ UNCHANGED <<gvars, saved, base, seen, owner>>

\* fwrite fills the buffer and fclose flushes it.  If fwrite fails, the call returns
\* NABD_SYSERR; if fclose fails, NABD_OK, since its result is not looked at.  Either way
\* the record is not in the file.
save_write(m) ==
  /\ step[m] = "save_write"
  /\ Step(m, "none", None)
  /\ \/ file' = [file EXCEPT ![m] = ckpt[m]] /\ saved' = [saved EXCEPT ![m] = TRUE]
     \/ UNCHANGED <<file, saved>>
  /\ UNCHANGED <<gvars, base, seen, owner>>
-----------------------------------------------------------------------------
(* nabd_checkpoint_load and nabd_consumer_resume *)

\* Without a checkpoint to load the member creates its group anew.
start_anew(m, id) ==
  /\ Resting(m) /\ ~HasRecord(m)
  /\ nabd_consumer_create(m, id)
  /\ UNCHANGED store

nabd_checkpoint_load(m) ==
  /\ Resting(m) /\ at[m] = 0 /\ HasRecord(m)
  /\ Step(m, "resume", file[m])
  /\ UNCHANGED <<gvars, file, saved, base, seen, owner>>

nabd_consumer_resume(m) ==
  /\ step[m] = "resume"
  /\ nabd_consumer_create(m, ckpt[m].group_id)
  /\ Step(m, "creating", ckpt[m])
  /\ UNCHANGED <<file, saved, base, seen, owner>>

\* The group could not be created: it is joined.
resume_join(m) ==
  /\ step[m] = "creating" /\ mpc[m] = "idle" /\ at[m] = 0
  /\ nabd_consumer_join(m, ckpt[m].group_id)
  /\ Step(m, "joining", ckpt[m])
  /\ UNCHANGED <<file, saved, base, seen, owner>>

resume_fails(m) ==
  /\ step[m] = "joining" /\ mpc[m] = "idle" /\ at[m] = 0
  /\ Step(m, "none", None)
  /\ UNCHANGED <<gvars, file, saved, base, seen, owner>>

\* The load of the head: a checkpoint that is ahead of it is cut back.
restore_head(m) ==
  /\ step[m] \in {"creating", "joining"} /\ mpc[m] = "idle" /\ at[m] # 0
  /\ Step(m, "restore_tail",
          [ckpt[m] EXCEPT !.tail = IF @ > head THEN head ELSE @])
  /\ UNCHANGED <<gvars, file, saved, base, seen, owner>>

\* Mutant of restore_tail: the position nabd_consumer_create set is kept.
restore_nothing(m) ==
  /\ step[m] = "restore_tail"
  /\ Step(m, "none", None)
  /\ UNCHANGED <<gvars, file, saved, base, seen, owner>>

restore_tail(m) ==
  /\ step[m] = "restore_tail"
  /\ gtail' = [gtail EXCEPT ![at[m]] = ckpt[m].tail]
  /\ Step(m, "none", None)
  /\ UNCHANGED <<ring, attached, active, group_id, member, cleaner, history>>
  /\ UNCHANGED <<file, saved, base, seen, owner>>
-----------------------------------------------------------------------------
(* Specifications *)

Persists(m) ==
  \/ entry_taken(m) \/ group_created(m) \/ allocated(m)
  \/ group_step(m) \/ consumed(m) \/ crash(m)
  \/ nabd_checkpoint_save(m) \/ save_open(m) \/ save_write(m)
  \/ nabd_checkpoint_load(m) \/ nabd_consumer_resume(m) \/ resume_join(m)
  \/ resume_fails(m) \/ restore_head(m) \/ restore_tail(m)

\* Careful callers, as in Groups: no group is created while the cleaner scans.
Acts ==
  \/ \E m \in Members : Persists(m)
  \/ \E m \in Members, id \in GroupIds : start_anew(m, id)

CheckpointNext ==
  \/ (attach_multi \/ Produces \/ Scans \/ Cleans) /\ UNCHANGED store
  \/ (\A m \in Members : ~Creating(m)) /\ nabd_min_tail /\ UNCHANGED store
  \/ Acts /\ (Scanning => \A m \in Members : ~Creating(m)')

CheckpointSpec == CheckpointInit /\ [][CheckpointNext]_cvars
-----------------------------------------------------------------------------
(* Properties *)

Below(m, t) == base[m] .. t - 1 \subseteq seen[m]

\* A resumed member consumes every message at least once: what lies before its
\* group's position it has consumed, before the crash or after it, although a
\* cleaner gives slots back that are ahead of its checkpoint.
NothingSkipped ==
  \A m \in Members : Resting(m) /\ at[m] # 0 => Below(m, gtail[at[m]])

\* A checkpoint, saved or in the making, is not ahead of what the member has
\* consumed (persistence.h:66, "Last committed tail position").
CheckpointBehind ==
  \A m \in Members :
    /\ HasRecord(m) => Below(m, file[m].tail)
    /\ ckpt[m] # None => Below(m, ckpt[m].tail)

\* A resumed group reads on at its checkpoint (persistence.c:256, "Restore to
\* checkpoint position"): what a member reads at a position was published there.
ReadsPosition ==
  \A m \in Members : mpc[m] = "pop_advance" => mbuf[m] = mtail[m]

\* A member that once saved a checkpoint finds one after a crash
\* (persistence.h:59, "Consumer checkpoint for crash recovery").
Recoverable ==
  \A m \in Members : Resting(m) /\ at[m] = 0 /\ saved[m] => HasRecord(m)

\* nabd_checkpoint_save returns NABD_OK on success (persistence.h:105): when the
\* call that wrote the file returns, and fwrite has not failed, the file holds the
\* record.  A record of this size fits the buffer that fwrite fills.
SaveReported ==
  [][\A m \in Members :
       step[m] = "save_write" /\ step'[m] = "none" /\ at'[m] # 0
         => file'[m] = ckpt[m]]_cvars

\* No member uses a group that another one made: the ids of the members differ, and
\* no join meets an entry another member is just creating, where an id from an earlier
\* owner may still stand.  With one member this always holds.
OwnGroups ==
  \A m \in Members : mpc[m] = "idle" /\ at[m] # 0 => owner[at[m]] = m

\* No two members have groups of one id in the table.  An entry that a member has just
\* taken still has the id of its earlier owner, or none.
DistinctIds ==
  \A g, h \in Group :
    owner[g] # None /\ owner[h] # None /\ owner[g] # owner[h] /\ group_id[g] = group_id[h]
      => group_id[g] = 0
-----------------------------------------------------------------------------
(* The inductive invariant of the proofs *)

CheckpointFile ==
  [kind : {"absent", "empty", "record"}, group_id : GroupIds \cup Group \cup {0},
   tail : Position]

\* Types of the files and of the history.
CheckpointTypeOK ==
  /\ GroupsTypeOK
  /\ file \in [Members -> CheckpointFile]
  /\ ckpt \in [Members -> CheckpointFile \cup {None}]
  /\ step \in [Members -> {"none", "save_open", "save_write", "resume", "creating",
                           "joining", "restore_tail"}]
  /\ saved \in [Members -> BOOLEAN]
  /\ base \in [Members -> Position]
  /\ seen \in [Members -> SUBSET (Position \cup {None})]
  /\ owner \in [Group -> Members \cup {None}]

\* The buffer holds what lies between the tail and the head.  A group may be behind
\* the tail: one that was resumed from an old checkpoint is.
StoredInv ==
  /\ tail <= head /\ head - tail <= Capacity
  /\ ppc = "publish" => head - tail < Capacity /\ head < MaxHead
                        /\ slots[get_slot(head)] = head
  /\ \A p \in tail .. head - 1 : slots[get_slot(p)] = p
  /\ \A g \in Group : gtail[g] <= head

ScanInv ==
  /\ min_tail # None => min_tail <= head
  /\ Scanning => scan \in 1 .. MaxConsumers + 1 /\ \A m \in Members : ~Creating(m)
  /\ cpc = "scan_tail" => scan \in Group
  /\ cpc = "clean" => min_tail # None
  /\ cpc = "clean" => \A m \in Members : mpc[m] = "create_tail" => min_tail <= mtail[m]

EntryInv ==
  \A g \in Group : /\ started[g] # None => active[g] = 1
                   /\ active[g] = 1 <=> owner[g] # None

Pops == {"pop_head", "pop_copy", "pop_advance"}

\* The member has a handle.
Using(m) == at[m] # 0 /\ mpc[m] \in Pops \cup {"idle"}

\* Where a member is in its calls, and what it knows there.
Place(m) ==
  /\ mpc[m] \in Pops \cup CreatePCs \cup {"idle", "join"}
  /\ mpc[m] # "idle" => at[m] # 0
  /\ mpc[m] \in Pops => step[m] = "none" /\ mtail[m] = gtail[at[m]]
  /\ mpc[m] \in {"pop_copy", "pop_advance"} => mtail[m] < head
  /\ mpc[m] \in CreatePCs => \/ step[m] = "none" /\ ~HasRecord(m)
                             \/ step[m] = "creating"
  /\ mpc[m] \in CreatePCs \ {"create_cas"} \/ Using(m) => owner[at[m]] = m
  /\ mpc[m] \in {"create_id", "create_head", "create_tail"} => started[at[m]] = None
  /\ mpc[m] = "create_tail" => tail <= mtail[m] /\ mtail[m] <= head
  /\ mpc[m] = "join" => step[m] = "joining"
  /\ step[m] = "none" => ckpt[m] = None
  /\ step[m] # "none" => ckpt[m] \in CheckpointFile
  /\ step[m] \in {"save_open", "save_write", "restore_tail"} => mpc[m] = "idle" /\ at[m] # 0
  /\ step[m] = "resume" => mpc[m] = "idle" /\ at[m] = 0
  /\ step[m] = "restore_tail" => ckpt[m].tail <= head

\* There is a consumption the member may go on with.
Live(m) ==
  HasRecord(m) \/ step[m] # "none" \/ Using(m) \/ mpc[m] = "create_alloc"

\* A group the member made, perhaps before a crash, that has it read nothing yet that
\* it has not consumed: it holds the cleaner back.
Keeper(m, g) == owner[g] = m /\ started[g] # None /\ Below(m, gtail[g])

\* What lies before any position the member may go on at, it has consumed, and so it
\* has what the cleaner has given back or is about to: if its group's position is
\* behind the tail, what it finds there instead it need not have.
Kept(m) ==
  /\ HasRecord(m) => Below(m, file[m].tail)
  /\ step[m] # "none" => Below(m, ckpt[m].tail)
  /\ Using(m) /\ step[m] \in {"none", "save_open", "save_write"} => Below(m, gtail[at[m]])
  /\ mpc[m] = "create_alloc" /\ step[m] = "none" => Below(m, gtail[at[m]])
  /\ mpc[m] = "pop_advance" => base[m] .. mtail[m] \subseteq seen[m] \cup {mbuf[m]}
  /\ Live(m) =>
       /\ Below(m, tail)
       /\ cpc = "clean" => Below(m, min_tail)
       /\ \E g \in Group : Keeper(m, g)
                         /\ (mpc[m] = "create_alloc" /\ step[m] = "creating" => g # at[m])
       /\ Scanning => \/ min_tail # None /\ Below(m, min_tail)
                      \/ \E g \in Group : Keeper(m, g) /\ g >= scan

\* The inductive invariant: the buffer, the table, the cleaner's scan and every member's
\* call are in order, and whatever position a member may go on at, from its file, the
\* record it holds or its group, it has consumed what lies before it; and a group that
\* it made keeps the cleaner from giving back what it has not consumed.
CheckpointInv ==
  /\ CheckpointTypeOK /\ StoredInv /\ ScanInv /\ EntryInv
  /\ \A m \in Members : Place(m) /\ Kept(m)
=============================================================================

-------------------------- MODULE LifecycleProofs ---------------------------
(***************************************************************************)
(* Proofs about Lifecycle, for careful callers (LifecycleSpec): handles    *)
(* agree with their objects, the counters stay in order, and nabd_recover  *)
(* leaves a working queue alone.                                           *)
(***************************************************************************)
EXTENDS Lifecycle, TLAPS

\* An object that has its size is not empty.
LEMMA TotalSize == \A c, s \in Nat : total_size(c, s) \in Nat \ {0}
<1> SUFFICES ASSUME NEW c \in Nat, NEW s \in Nat PROVE total_size(c, s) \in Nat \ {0}
  BY Zenon
<1>1. c * s \in Nat
  OBVIOUS
<1> QED
  BY <1>1, LifecycleAssumption DEF total_size

\* LifeInv holds before nabd_open has created anything.
LEMMA LifeInitInv == LifecycleInit => LifeInv
<1> SUFFICES ASSUME LifecycleInit PROVE LifeInv
  BY Zenon
<1>1. LifecycleTypeOK
  <2>1. Resting \in Call
    BY Zenon DEF Resting, Call, PCs
  <2>2. Blank \in Object
    BY Zenon DEF Blank, Object
  <2> QED
    BY <2>1, <2>2, Zenon DEF LifecycleInit, LifecycleTypeOK
<1>2. ObjectInv
  BY DEF LifecycleInit, ObjectInv, Blank, Objects
<1>3. ASSUME NEW p \in Processes PROVE Creation(p) /\ Usage(p) /\ View(p)
  BY Zenon DEF LifecycleInit, Resting, Creation, Creator, InitPCs, Usage, View, Sees,
         AttachPCs, RecoverPCs
<1> QED
  BY <1>1, <1>2, <1>3, Zenon DEF LifeInv

\* A handle stays in order while its holder's call and its object stay as they are.
LEMMA UsageFrame ==
  ASSUME NEW q \in Processes, Usage(q), proc'[q] = proc[q], handle'[q] = handle[q],
         handle[q] # None => /\ handle[q].obj \in 1 .. made'
                             /\ mem'[handle[q].obj] = mem[handle[q].obj]
  PROVE  Usage(q)'
<1>1. CASE handle[q] = None
  BY <1>1, Zenon DEF Usage
<1>2. CASE handle[q] # None
  <2>1. proc[q].pc \in {"push", "pop"} => Obj(q)' = Obj(q)
    BY <1>2, Zenon DEF Usage, Obj
  <2>2. Complete(mem[handle[q].obj]) => Complete(mem[handle[q].obj])'
    BY <1>2, Zenon DEF Complete
  <2> QED
    BY <1>2, <2>1, <2>2, Zenon DEF Usage
<1> QED
  BY <1>1, <1>2, Zenon

\* A step of process p that leaves the objects alone, gives up the name at most, and
\* does not begin a creation.
LEMMA LocalStep ==
  ASSUME LifeInv, NEW p \in Processes,
         UNCHANGED <<made, mem>>, name' \in {0, name},
         proc' \in [Processes -> Call], handle' \in [Processes -> Handle \cup {None}],
         \A q \in Processes \ {p} : proc'[q] = proc[q] /\ handle'[q] = handle[q],
         Creator(p)' => Creator(p),
         Creator(p) /\ ~Creator(p)' =>
           mem[made].magic = 0 /\ (name' = 0 \/ mem[made].size # 0),
         proc'[p].pc \in {"idle", "push", "pop"} \cup InitPCs
           \/ \A q \in Processes : ~Creator(q),
         handle'[p] # None => handle'[p] = handle[p] \/ \A q \in Processes : ~Creator(q),
         (Creation(p) /\ Usage(p) /\ View(p))'
  PROVE  LifeInv'
<1>1. LifecycleTypeOK'
  BY Zenon DEF LifeInv, LifecycleTypeOK
<1>2. \A q \in Processes \ {p} : Creator(q)' <=> Creator(q)
  BY Zenon DEF Creator
<1>3. ObjectInv'
  <2>1. CASE Creator(p)' <=> Creator(p)
    <3>1. \A q \in Processes : Creator(q)' <=> Creator(q)
      BY <1>2, <2>1, Zenon
    <3> QED
      BY <3>1, Zenon DEF LifeInv, ObjectInv
  <2>2. CASE Creator(p) /\ ~Creator(p)'
    BY <2>2 DEF LifeInv, LifecycleTypeOK, ObjectInv
  <2> QED
    BY <2>1, <2>2, Zenon
<1>4. ASSUME NEW q \in Processes \ {p}
      PROVE  (Creation(q) /\ Usage(q) /\ View(q))'
  <2>1. proc'[q] = proc[q] /\ handle'[q] = handle[q]
    BY SMTT(30)
  <2>2. Usage(q)' /\ View(q)'
    BY <2>1 DEF LifeInv, Usage, View, Sees, Obj
  <2>3. Creation(q)'
    <3> SUFFICES ASSUME Creator(q) PROVE Creation(q)'
      BY <1>2, Zenon DEF Creation
    <3>1. /\ proc[q].fd = made /\ made # 0 /\ proc[q].capacity # 0 /\ proc[q].slot_size # 0
          /\ Stage(mem[made], proc[q].pc, proc[q].capacity, proc[q].slot_size)
          /\ \A r \in Processes : /\ handle[r] # None => handle[r].obj # made
                                  /\ r # q => proc[r].pc \in {"idle", "push", "pop"}
      BY Zenon DEF LifeInv, Creation
    <3>2. ~Creator(p)
      BY <3>1, Zenon DEF Creator, InitPCs
    <3>3. proc'[p].pc \in {"idle", "push", "pop"}
      BY <3>2, Zenon DEF Creator
    <3>4. handle'[p] # None => handle'[p].obj # made
      BY <3>1, Zenon
    <3>5. \A r \in Processes : /\ handle'[r] # None => handle'[r].obj # made
                              /\ r # q => proc'[r].pc \in {"idle", "push", "pop"}
      BY <3>1, <3>3, <3>4, Zenon
    <3> QED
      BY <2>1, <3>1, <3>5 DEF Creation, Stage
  <2> QED
    BY <2>2, <2>3, Zenon
<1> QED
  BY <1>1, <1>3, <1>4, Zenon DEF LifeInv

\* Steps of nabd_open without NABD_CREATE, nabd_diagnose and nabd_recover that only
\* read, and the ends of calls and handles.
LEMMA ViewSteps ==
  ASSUME LifeInv, NEW p \in Processes,
         \/ attach_magic(p) \/ attach_capacity(p) \/ attach_slot_size(p) \/ attach_fails(p)
         \/ diag_magic(p) \/ diag_version(p) \/ diag_head(p) \/ diag_tail(p)
         \/ diag_capacity(p) \/ recover(p) \/ reset_open(p) \/ reset_head(p)
  PROVE  LifeInv'
<1>1. /\ UNCHANGED <<name, made, mem, handle>>
      /\ proc[p].pc \in AttachPCs \cup RecoverPCs
  BY ZenonT(40) DEF attach_magic, attach_capacity, attach_slot_size, attach_fails,
     diag_magic,
         diag_version, diag_head, diag_tail, diag_capacity, recover, reset_open, reset_head,
         At, AttachPCs, RecoverPCs
<1>2. /\ LifecycleTypeOK /\ proc[p] \in Call /\ proc \in [Processes -> Call]
      /\ handle[p] = None /\ Usage(p) /\ View(p)
      /\ ~Creator(p) /\ \A q \in Processes : ~Creator(q)
  BY <1>1, SMTT(30) DEF LifeInv, LifecycleTypeOK, Usage, Creator, Creation, InitPCs,
     AttachPCs, RecoverPCs
<1>3. /\ proc[p].fd = made /\ made \in Objects /\ Obj(p) = mem[made] /\ Obj(p) \in Object
      /\ Obj(p).size # 0
      /\ Obj(p).head - Obj(p).tail \in 0 .. Obj(p).capacity
      /\ Obj(p).magic = 0 => Obj(p).head = 0 /\ Obj(p).tail = 0
      /\ Obj(p).magic = 1 => Complete(Obj(p))
      /\ name \in {0, made} /\ (name # 0 => mem[name].size # 0)
  BY <1>1, <1>2, SMTT(30) DEF LifeInv, LifecycleTypeOK, ObjectInv, View, Sees, Obj
<1>4. ASSUME NEW r \in Call, proc' = [proc EXCEPT ![p] = r],
             r.pc \in AttachPCs \cup RecoverPCs \cup {"idle"},
             r.pc # "idle" => r.fd = made, Sees(r, Obj(p))
      PROVE  LifeInv'
  <2>1. /\ proc' \in [Processes -> Call] /\ proc'[p] = r
        /\ \A q \in Processes \ {p} : proc'[q] = proc[q] /\ handle'[q] = handle[q]
    BY <1>1, <1>2, <1>4, SMTT(30)
  <2>2. ~Creator(p)'
    BY <1>4, <2>1, Zenon DEF Creator, InitPCs, AttachPCs, RecoverPCs
  <2>3. handle'[p] = None /\ handle' \in [Processes -> Handle \cup {None}]
    BY <1>1, <1>2, Zenon DEF LifecycleTypeOK
  <2>4. Creation(p)' /\ Usage(p)'
    BY <1>1, <1>2, <1>4, <2>1, <2>2, <2>3, SMTT(30)
       DEF Creation, Usage, AttachPCs, RecoverPCs
  <2>5. View(p)'
    <3>1. r.pc # "idle" => Obj(p)' = Obj(p)
      BY <1>1, <1>3, <1>4, <2>1, Zenon DEF Obj
    <3> QED
      BY <1>1, <1>4, <2>1, <3>1, SMTT(30) DEF View, Sees, AttachPCs, RecoverPCs
  <2> QED
    BY <1>1, <1>2, <1>4, <2>1, <2>2, <2>3, <2>4, <2>5, LocalStep, Zenon
<1>5. ASSUME Return(p)
      PROVE  LifeInv'
  <2>1. Resting \in Call /\ Resting.pc = "idle"
    BY Zenon DEF Resting, Call, PCs
  <2>2. Sees(Resting, Obj(p))
    BY SMTT(30) DEF Resting, Sees, AttachPCs, RecoverPCs
  <2> QED
    BY <1>4, <1>5, <2>1, <2>2, Zenon DEF Return
<1>6. /\ proc[p].fd \in Objects \cup {0}
      /\ proc[p].capacity \in Nat /\ proc[p].slot_size \in Nat /\ proc[p].pos \in Nat
      /\ Obj(p).capacity \in Nat /\ Obj(p).slot_size \in Nat /\ Obj(p).magic \in {0, 1}
      /\ Obj(p).head \in Nat /\ Obj(p).tail \in Nat /\ made # 0
  BY <1>2, <1>3 DEF Call, Object, Objects
<1>7. ASSUME NEW pc \in AttachPCs \cup RecoverPCs, Goto(p, pc),
             Sees([proc[p] EXCEPT !.pc = pc], Obj(p))
      PROVE  LifeInv'
  <2> DEFINE r == [proc[p] EXCEPT !.pc = pc]
  <2>1. r \in Call /\ r.pc = pc /\ r.fd = made
    BY <1>2, <1>3, Zenon DEF Call, PCs
  <2>2. proc' = [proc EXCEPT ![p] = r]
    BY <1>7, Zenon DEF Goto
  <2> HIDE DEF r
  <2> QED
    BY <1>4, <1>7, <2>1, <2>2, Zenon DEF r
<1>8. CASE attach_magic(p)
  <2>1. \/ Return(p)
        \/ Goto(p, "attach_capacity") /\ Obj(p).magic = 1
    BY <1>3, <1>8, Zenon DEF attach_magic, Access
  <2>2. Obj(p).magic = 1 => Sees([proc[p] EXCEPT !.pc = "attach_capacity"], Obj(p))
    BY <1>2, <1>3, <1>6, Zenon DEF Sees, Call
  <2> QED
    BY <1>5, <1>7, <2>1, <2>2, SMTT(30) DEF AttachPCs
<1>9. CASE attach_capacity(p)
  <2> DEFINE r == [proc[p] EXCEPT !.pc = "attach_slot_size", !.capacity = Obj(p).capacity]
  <2>1. proc' = [proc EXCEPT ![p] = r]
    BY <1>9, Zenon DEF attach_capacity
  <2>2. r \in Call /\ r.pc = "attach_slot_size" /\ r.fd = made
    BY <1>2, <1>3, <1>6, Zenon DEF Call, PCs, AttachPCs
  <2>3. Sees(r, Obj(p))
    BY <1>2, <1>3, <1>6, <1>9, Zenon DEF attach_capacity, At, View, Sees, Call
  <2> HIDE DEF r
  <2> QED
    BY <1>4, <2>1, <2>2, <2>3, Zenon DEF AttachPCs, RecoverPCs
<1>10. CASE attach_slot_size(p)
  <2> DEFINE r == [proc[p] EXCEPT !.pc = "attach_map", !.slot_size = Obj(p).slot_size]
  <2>1. proc' = [proc EXCEPT ![p] = r]
    BY <1>10, Zenon DEF attach_slot_size
  <2>2. r \in Call /\ r.pc = "attach_map" /\ r.fd = made
    BY <1>2, <1>3, <1>6, Zenon DEF Call, PCs, AttachPCs
  <2>3. Sees(r, Obj(p))
    BY <1>2, <1>3, <1>6, <1>10, Zenon DEF attach_slot_size, At, View, Sees, Call
  <2> HIDE DEF r
  <2> QED
    BY <1>4, <2>1, <2>2, <2>3, Zenon DEF AttachPCs, RecoverPCs
<1>11. CASE attach_fails(p)
  BY <1>5, <1>11, Zenon DEF attach_fails
<1>12. ASSUME NEW v \in {"OK", "EMPTY", "CORRUPTED", "VERSION_ERR"}, Found(p, v),
              v \in {"OK", "EMPTY"} \/ Obj(p).magic = 0
       PROVE  LifeInv'
  <2>1. CASE Return(p)
    BY <1>5, <2>1, Zenon
  <2>2. CASE ~Return(p)
    <3> DEFINE r == [proc[p] EXCEPT !.pc = "recover", !.state = v]
    <3>1. proc' = [proc EXCEPT ![p] = r]
      BY <1>12, <2>2, Zenon DEF Found
    <3>2. r \in Call /\ r.pc = "recover" /\ r.fd = made
      BY <1>2, <1>3, Zenon DEF Call, PCs, RecoverPCs
    <3>3. Sees(r, Obj(p))
      BY <1>2, <1>3, <1>6, <1>12, Zenon DEF Sees, Call
    <3> HIDE DEF r
    <3> QED
      BY <1>4, <3>1, <3>2, <3>3, Zenon DEF RecoverPCs
  <2> QED
    BY <2>1, <2>2, Zenon
<1>13. CASE diag_magic(p)
  <2>1. \/ Obj(p).magic = 0 /\ Found(p, "CORRUPTED")
        \/ Goto(p, "diag_version") /\ Obj(p).magic = 1
    BY <1>3, <1>6, <1>13, Zenon DEF diag_magic, Access
  <2>2. Obj(p).magic = 1 => Sees([proc[p] EXCEPT !.pc = "diag_version"], Obj(p))
    BY <1>2, <1>3, <1>6, Zenon DEF Sees, Call
  <2> QED
    BY <1>7, <1>12, <2>1, <2>2, Zenon DEF RecoverPCs
<1>14. CASE diag_version(p)
  <2>1. Obj(p).magic = 1
    BY <1>2, <1>14, Zenon DEF diag_version, At, View, Sees
  <2>2. Goto(p, "diag_head")
    BY <1>3, <1>14, <2>1, Zenon DEF diag_version, Complete
  <2>3. Sees([proc[p] EXCEPT !.pc = "diag_head"], Obj(p))
    BY <1>2, <1>3, <1>6, <2>1, Zenon DEF Sees, Call
  <2> QED
    BY <1>7, <2>2, <2>3, Zenon DEF RecoverPCs
<1>15. CASE diag_head(p)
  <2> DEFINE r == [proc[p] EXCEPT !.pc = "diag_tail", !.pos = Obj(p).head]
  <2>1. proc' = [proc EXCEPT ![p] = r]
    BY <1>15, Zenon DEF diag_head
  <2>2. r \in Call /\ r.pc = "diag_tail" /\ r.fd = made
    BY <1>2, <1>3, <1>6, Zenon DEF Call, PCs, RecoverPCs
  <2>3. Sees(r, Obj(p))
    BY <1>2, <1>3, <1>6, <1>15 DEF diag_head, At, View, Sees, Call
  <2> HIDE DEF r
  <2> QED
    BY <1>4, <2>1, <2>2, <2>3, Zenon DEF AttachPCs, RecoverPCs
<1>16. CASE diag_tail(p)
  <2> DEFINE n == IF proc[p].pos >= Obj(p).tail THEN proc[p].pos - Obj(p).tail ELSE 0
             r == [proc[p] EXCEPT !.pc = "diag_capacity", !.pos = n]
  <2>1. proc' = [proc EXCEPT ![p] = r]
    BY <1>16, Zenon DEF diag_tail
  <2>2. proc[p].pos <= Obj(p).head /\ Obj(p).magic = 1
    BY <1>2, <1>16, SMTT(30) DEF diag_tail, At, View, Sees
  <2>3. n \in Nat /\ n <= Obj(p).capacity
    BY <1>3, <1>6, <2>2
  <2> HIDE DEF n
  <2>4. r \in Call /\ r.pc = "diag_capacity" /\ r.fd = made /\ r.pos = n
    BY <1>2, <1>3, <1>6, <2>3, ZenonT(40) DEF Call, PCs, RecoverPCs
  <2> HIDE DEF r
  <2>5. Sees(r, Obj(p))
    BY <1>3, <1>6, <2>2, <2>3, <2>4, Zenon DEF Sees
  <2> QED
    BY <1>4, <2>1, <2>4, <2>5, Zenon DEF RecoverPCs
<1>17. CASE diag_capacity(p)
  <2>1. proc[p].pos <= Obj(p).capacity
    BY <1>2, <1>17, Zenon DEF diag_capacity, At, View, Sees
  <2>2. Found(p, "EMPTY") \/ Found(p, "OK")
    BY <1>6, <1>17, <2>1 DEF diag_capacity
  <2> QED
    BY <1>12, <2>2, Zenon
<1>18. CASE recover(p)
  <2>1. CASE Return(p)
    BY <1>5, <2>1, Zenon
  <2>2. CASE ~Return(p)
    <3>1. Goto(p, "reset_open") /\ Obj(p).magic = 0
      BY <1>2, <1>18, <2>2, Zenon DEF recover, At, View, Sees
    <3>2. Sees([proc[p] EXCEPT !.pc = "reset_open"], Obj(p))
      BY <1>2, <1>3, <1>6, <3>1, Zenon DEF Sees, Call
    <3> QED
      BY <1>7, <3>1, <3>2, Zenon DEF RecoverPCs
  <2> QED
    BY <2>1, <2>2, Zenon
<1>19. CASE reset_open(p)
  <2>1. CASE Return(p)
    BY <1>5, <2>1
  <2>2. CASE ~Return(p)
    <3> DEFINE r == [proc[p] EXCEPT !.pc = "reset_head", !.fd = name]
    <3>1. proc' = [proc EXCEPT ![p] = r] /\ name # 0
      BY <1>19, <2>2, Zenon DEF reset_open
    <3>2. r \in Call /\ r.pc = "reset_head" /\ r.fd = made
      BY <1>2, <1>3, <3>1, Zenon DEF Call, PCs, RecoverPCs
    <3>3. Sees(r, Obj(p))
      BY <1>2, <1>3, <1>6, <1>19, <3>1, Zenon DEF reset_open, At, View, Sees, Call
    <3> HIDE DEF r
    <3> QED
      BY <1>4, <3>1, <3>2, <3>3, Zenon DEF RecoverPCs
  <2> QED
    BY <2>1, <2>2
<1>20. CASE reset_head(p)
  <2> DEFINE r == [proc[p] EXCEPT !.pc = "reset_tail", !.pos = Obj(p).head]
  <2>1. proc' = [proc EXCEPT ![p] = r]
    BY <1>3, <1>20, Zenon DEF reset_head, Access
  <2>2. r \in Call /\ r.pc = "reset_tail" /\ r.fd = made
    BY <1>2, <1>3, <1>6, Zenon DEF Call, PCs, RecoverPCs
  <2>3. Sees(r, Obj(p))
    BY <1>2, <1>3, <1>6, <1>20, Zenon DEF reset_head, At, View, Sees, Call
  <2> HIDE DEF r
  <2> QED
    BY <1>4, <2>1, <2>2, <2>3, Zenon DEF RecoverPCs
<1> QED
  BY <1>8, <1>9, <1>10, <1>11, <1>13, <1>14, <1>15, <1>16, <1>17, <1>18, <1>19, <1>20, Zenon

\* The beginnings of calls that create nothing.
LEMMA StartSteps ==
  ASSUME LifeInv, NEW p \in Processes,
         \/ /\ \A q \in Processes : proc[q].pc \notin CreatePCs
            /\ nabd_open_attach(p) \/ \E use \in Uses : nabd_diagnose(p, use)
         \/ nabd_push(p) \/ nabd_pop(p)
  PROVE  LifeInv'
<1>1. /\ UNCHANGED <<name, made, mem, handle>> /\ At(p, "idle")
      /\ LifecycleTypeOK /\ proc[p] \in Call /\ proc \in [Processes -> Call]
      /\ handle \in [Processes -> Handle \cup {None}]
      /\ name \in Objects \cup {0} /\ name \in {0, made}
      /\ Usage(p) /\ ~Creator(p)
  BY Zenon DEF LifeInv, LifecycleTypeOK, ObjectInv, nabd_open_attach, nabd_diagnose,
     nabd_push,
         nabd_pop, Creator, InitPCs, At
<1>2. ASSUME NEW r \in Call, proc' = [proc EXCEPT ![p] = r], handle[p] = None,
             r.pc \in {"attach_magic", "diag_magic"}, r.fd = name, name # 0,
             \A q \in Processes : proc[q].pc \notin CreatePCs
      PROVE  LifeInv'
  <2>1. \A q \in Processes : ~Creator(q)
    BY <1>2, Zenon DEF Creator, CreatePCs
  <2>2. mem[name].size # 0
    BY <1>2, <2>1, Zenon DEF LifeInv, ObjectInv
  <2>3. proc'[p] = r /\ proc' \in [Processes -> Call] /\ ~Creator(p)'
        /\ \A q \in Processes \ {p} : proc'[q] = proc[q] /\ handle'[q] = handle[q]
    BY <1>1, <1>2, SMTT(30) DEF Creator, InitPCs
  <2>4. Creation(p)' /\ Usage(p)'
    BY <1>1, <1>2, <2>3, Zenon DEF Creation, Usage
  <2>5. View(p)'
    BY <1>1, <1>2, <2>2, <2>3, Zenon DEF View, Sees, Obj
  <2> QED
    BY <1>1, <1>2, <2>1, <2>3, <2>4, <2>5, LocalStep, Zenon
<1>3. CASE /\ \A q \in Processes : proc[q].pc \notin CreatePCs
           /\ nabd_open_attach(p)
  <2> DEFINE r == [proc[p] EXCEPT !.pc = "attach_magic", !.fd = name]
  <2>1. proc' = [proc EXCEPT ![p] = r] /\ handle[p] = None /\ name # 0
    BY <1>3, Zenon DEF nabd_open_attach
  <2>2. r \in Call /\ r.pc = "attach_magic" /\ r.fd = name
    BY <1>1, Zenon DEF Call, PCs, AttachPCs
  <2> HIDE DEF r
  <2> QED
    BY <1>2, <1>3, <2>1, <2>2, Zenon
<1>4. ASSUME NEW use \in Uses, nabd_diagnose(p, use),
             \A q \in Processes : proc[q].pc \notin CreatePCs
      PROVE  LifeInv'
  <2> DEFINE r == [proc[p] EXCEPT !.pc = "diag_magic", !.fd = name, !.use = use]
  <2>1. proc' = [proc EXCEPT ![p] = r] /\ handle[p] = None /\ name # 0
    BY <1>4, Zenon DEF nabd_diagnose
  <2>2. r \in Call /\ r.pc = "diag_magic" /\ r.fd = name
    BY <1>1, ZenonT(40) DEF Call, PCs, RecoverPCs
  <2> HIDE DEF r
  <2> QED
    BY <1>2, <1>4, <2>1, <2>2, Zenon
<1>5. ASSUME NEW r \in Call, proc' = [proc EXCEPT ![p] = r], handle[p] # None,
             r.pc \in {"push", "pop"}, r.fd = handle[p].obj,
             r.pc = "push" =>
               /\ p = producer /\ r.pos = mem[r.fd].head
               /\ mem[r.fd].head - mem[r.fd].tail < mem[r.fd].capacity,
             r.pc = "pop" =>
               p = consumer /\ r.pos = mem[r.fd].tail /\ mem[r.fd].tail < mem[r.fd].head
      PROVE  LifeInv'
  <2>1. proc'[p] = r /\ proc' \in [Processes -> Call] /\ ~Creator(p)'
        /\ \A q \in Processes \ {p} : proc'[q] = proc[q] /\ handle'[q] = handle[q]
    BY <1>1, <1>5, SMTT(30) DEF Creator, InitPCs
  <2>2. Creation(p)' /\ View(p)'
    BY <1>1, <1>5, <2>1, SMTT(30) DEF Creation, View, Sees, AttachPCs, RecoverPCs
  <2>3. Usage(p)'
    BY <1>1, <1>5, <2>1, Zenon DEF Usage, Obj
  <2> QED
    BY <1>1, <1>5, <2>1, <2>2, <2>3, LocalStep, Zenon
<1>6. handle[p] # None =>
        /\ handle[p] \in Handle /\ handle[p].obj \in Objects
        /\ mem[handle[p].obj] \in Object
        /\ handle[p].capacity = mem[handle[p].obj].capacity
        /\ mem[handle[p].obj].head - mem[handle[p].obj].tail
             \in 0 .. mem[handle[p].obj].capacity
  BY <1>1 DEF LifeInv, LifecycleTypeOK, Handle, Usage, ObjectInv
<1>7. CASE nabd_push(p)
  <2> DEFINE o == mem[handle[p].obj]
             r == [Resting EXCEPT !.pc = "push", !.fd = handle[p].obj, !.pos = o.head]
  <2>1. /\ proc' = [proc EXCEPT ![p] = r] /\ handle[p] # None /\ p = producer
        /\ o.head - o.tail \in 0 .. handle[p].capacity - 1
    BY <1>7, Zenon DEF nabd_push
  <2>2. r \in Call /\ r.pc = "push" /\ r.fd = handle[p].obj /\ r.pos = o.head
    BY <1>6, <2>1, Zenon DEF Resting, Call, PCs, Object
  <2>3. o.head - o.tail < o.capacity
    BY <1>6, <2>1 DEF Object
  <2> HIDE DEF r
  <2> QED
    BY <1>5, <2>1, <2>2, <2>3, Zenon
<1>8. CASE nabd_pop(p)
  <2> DEFINE o == mem[handle[p].obj]
             r == [Resting EXCEPT !.pc = "pop", !.fd = handle[p].obj, !.pos = o.tail]
  <2>1. /\ proc' = [proc EXCEPT ![p] = r] /\ handle[p] # None /\ p = consumer
        /\ o.tail # o.head
    BY <1>8, Zenon DEF nabd_pop
  <2>2. r \in Call /\ r.pc = "pop" /\ r.fd = handle[p].obj /\ r.pos = o.tail
    BY <1>6, <2>1, Zenon DEF Resting, Call, PCs, Object
  <2>3. o.tail < o.head
    BY <1>6, <2>1 DEF Object
  <2> HIDE DEF r
  <2> QED
    BY <1>5, <2>1, <2>2, <2>3, Zenon
<1> QED
  BY <1>3, <1>4, <1>7, <1>8, Zenon

\* The ends of calls and handles, and the mapping of a new object.
LEMMA EndSteps ==
  ASSUME LifeInv, NEW p \in Processes,
         \/ attach_map(p) \/ nabd_close(p) \/ create_fails(p) \/ mmap_create(p)
         \/ proc[p].pc \notin CreatePCs \ {"clear", "magic"} /\ crash(p)
  PROVE  LifeInv'
<1>1. /\ LifecycleTypeOK /\ proc[p] \in Call /\ proc \in [Processes -> Call]
      /\ handle \in [Processes -> Handle \cup {None}] /\ mem \in [Objects -> Object]
      /\ Creation(p) /\ Usage(p) /\ View(p)
  BY SMTT(30) DEF LifeInv, LifecycleTypeOK
<1>2. Resting \in Call /\ Resting.pc = "idle"
  BY Zenon DEF Resting, Call, PCs
<1>3. Creator(p) => /\ mem[made].size # 0 \/ At(p, "ftruncate")
                    /\ mem[made].magic = 0 \/
                         proc[p].pc \notin {"ftruncate", "mmap", "clear", "magic"}
  <2>1. proc[p].capacity \in Nat /\ proc[p].slot_size \in Nat
    BY <1>1, Zenon DEF Call
  <2>2. total_size(proc[p].capacity, proc[p].slot_size) # 0
    BY <2>1, TotalSize, Zenon
  <2>3. Creator(p) => Stage(mem[made], proc[p].pc, proc[p].capacity, proc[p].slot_size)
    BY <1>1, Zenon DEF Creation
  <2> QED
    BY <2>2, <2>3, Zenon DEF Stage, At
<1>4. ASSUME Return(p), UNCHANGED <<made, mem>>, name' \in {0, name},
             handle' \in [Processes -> Handle \cup {None}],
             \A q \in Processes \ {p} : handle'[q] = handle[q],
             Creator(p) => mem[made].magic = 0 /\ (name' = 0 \/ mem[made].size # 0),
             handle'[p] # None => handle'[p] = handle[p] \/ \A q \in Processes : ~Creator(q),
             handle'[p] # None =>
               /\ handle'[p].obj \in 1 .. made
               /\ Complete(mem[handle'[p].obj])
               /\ handle'[p].capacity = mem[handle'[p].obj].capacity
               /\ handle'[p].slot_size = mem[handle'[p].obj].slot_size
      PROVE  LifeInv'
  <2>1. /\ proc'[p] = Resting /\ proc' \in [Processes -> Call]
        /\ \A q \in Processes \ {p} : proc'[q] = proc[q]
    BY <1>1, <1>2, <1>4, Zenon DEF Return
  <2>2. ~Creator(p)'
    BY <1>2, <2>1, Zenon DEF Creator, InitPCs
  <2>3. Creation(p)' /\ View(p)'
    BY <1>2, <2>1, <2>2, SMTT(30) DEF Creation, View, Sees, AttachPCs, RecoverPCs
  <2>4. Usage(p)'
    BY <1>2, <1>4, <2>1, SMTT(30) DEF Usage, Complete
  <2> QED
    BY <1>2, <1>4, <2>1, <2>2, <2>3, <2>4, LocalStep, SMTT(30)
<1>5. CASE attach_map(p)
  <2>1. \A q \in Processes : ~Creator(q)
    BY <1>5, SMTT(30) DEF attach_map, At, LifeInv, Creation, Creator, InitPCs
  <2>2. /\ proc[p].fd = made /\ made # 0 /\ Obj(p).magic = 1
        /\ proc[p].capacity = Obj(p).capacity /\ proc[p].slot_size = Obj(p).slot_size
    BY <1>1, <1>5, SMTT(30) DEF attach_map, At, View, Sees, AttachPCs
  <2>3. made \in Objects /\ made \in 1 .. made /\ Obj(p) = mem[made]
    BY <1>1, <2>2, SMTT(30) DEF LifecycleTypeOK, Objects, Obj
  <2>4. Complete(mem[made])
    BY <2>1, <2>2, <2>3, Zenon DEF LifeInv, ObjectInv
  <2> DEFINE h == [obj |-> proc[p].fd, capacity |-> proc[p].capacity,
                   slot_size |-> proc[p].slot_size]
  <2>5. h \in Handle /\ h.obj = made /\ h.capacity = mem[made].capacity
        /\ h.slot_size = mem[made].slot_size
    BY <1>1, <2>2, <2>3, SMTT(30) DEF Handle, Call
  <2>6. handle' = [handle EXCEPT ![p] = h] /\ Return(p) /\ UNCHANGED <<name, made, mem>>
    BY <1>5, Zenon DEF attach_map, Opened
  <2> HIDE DEF h
  <2>7. /\ handle'[p] = h /\ handle' \in [Processes -> Handle \cup {None}]
        /\ \A q \in Processes \ {p} : handle'[q] = handle[q]
    BY <1>1, <2>5, <2>6, Zenon
  <2> QED
    BY <1>4, <2>1, <2>3, <2>4, <2>5, <2>6, <2>7, SMTT(30)
<1>6. CASE nabd_close(p)
  <2>1. /\ handle'[p] = None /\ handle' \in [Processes -> Handle \cup {None}]
        /\ UNCHANGED <<name, made, mem, proc>> /\ At(p, "idle")
        /\ \A q \in Processes \ {p} : handle'[q] = handle[q]
    BY <1>1, <1>6, SMTT(30) DEF nabd_close
  <2>2. ~Creator(p) /\ ~Creator(p)'
    BY <2>1, SMTT(30) DEF Creator, At, InitPCs
  <2>3. (Creation(p) /\ Usage(p) /\ View(p))'
    BY <1>1, <2>1, <2>2, ZenonT(40) DEF Creation, Usage, View, Sees, At, AttachPCs,
       RecoverPCs
  <2> QED
    BY <1>1, <2>1, <2>2, <2>3, LocalStep, Zenon DEF At
<1>7. CASE create_fails(p)
  <2>1. Creator(p) /\ mem[made].magic = 0
    BY <1>3, <1>7, SMTT(30) DEF create_fails, At, Creator, InitPCs
  <2>2. handle[p] = None
    BY <1>1, <1>7, Zenon DEF create_fails, At, Usage
  <2> QED
    BY <1>1, <1>4, <1>7, <2>1, <2>2, ZenonT(40) DEF create_fails
<1>8. CASE mmap_create(p)
  <2> DEFINE r == [proc[p] EXCEPT !.pc = "clear"]
  <2>1. proc' = [proc EXCEPT ![p] = r] /\ UNCHANGED <<name, made, mem, handle>>
        /\ proc[p].pc = "mmap"
    BY <1>8, Zenon DEF mmap_create, Goto, At
  <2>2. r \in Call /\ r.pc = "clear" /\ r.fd = proc[p].fd
        /\ r.capacity = proc[p].capacity /\ r.slot_size = proc[p].slot_size
    BY <1>1, Zenon DEF Call, PCs, CreatePCs, InitPCs
  <2> HIDE DEF r
  <2>3. /\ proc'[p] = r /\ proc' \in [Processes -> Call]
        /\ \A q \in Processes \ {p} : proc'[q] = proc[q] /\ handle'[q] = handle[q]
    BY <1>1, <2>1, <2>2, Zenon
  <2>4. Creator(p) /\ Creator(p)'
    BY <2>1, <2>2, <2>3, SMTT(30) DEF Creator, InitPCs
  <2>5. Usage(p)' /\ View(p)'
    BY <1>1, <2>1, <2>2, <2>3, Zenon DEF Usage, View, Sees, AttachPCs, RecoverPCs
  <2>6. Creation(p)'
    BY <1>1, <2>1, <2>2, <2>3, <2>4, SMTT(30) DEF Creation, Stage
  <2> QED
    BY <1>1, <2>1, <2>2, <2>3, <2>4, <2>5, <2>6, LocalStep, Zenon DEF InitPCs
<1>9. CASE proc[p].pc \notin CreatePCs \ {"clear", "magic"} /\ crash(p)
  <2>1. Creator(p) => mem[made].magic = 0 /\ mem[made].size # 0
    BY <1>3, <1>9, Zenon DEF Creator, CreatePCs, InitPCs, At
  <2>2. /\ handle'[p] = None /\ handle' \in [Processes -> Handle \cup {None}]
        /\ \A q \in Processes \ {p} : handle'[q] = handle[q]
    BY <1>1, <1>9, Zenon DEF crash
  <2> QED
    BY <1>4, <1>9, <2>1, <2>2, SMTT(30) DEF crash
<1> QED
  BY <1>5, <1>6, <1>7, <1>8, <1>9, Zenon

\* A creator's store to its object, which becomes o: the creation goes on, or is over.
CreatorMoves(p, o) ==
  /\ mem' = [mem EXCEPT ![made] = o] /\ UNCHANGED <<name, made>>
  /\ proc' \in [Processes -> Call] /\ handle' \in [Processes -> Handle \cup {None}]
  /\ \A q \in Processes \ {p} : proc'[q] = proc[q] /\ handle'[q] = handle[q]
  /\ \/ /\ handle'[p] = None
        /\ proc'[p].pc \in InitPCs \ {"ftruncate"} /\ proc'[p].fd = proc[p].fd
        /\ proc'[p].capacity = proc[p].capacity /\ proc'[p].slot_size = proc[p].slot_size
        /\ Stage(o, proc'[p].pc, proc[p].capacity, proc[p].slot_size)
     \/ /\ proc'[p] = Resting /\ Complete(o) /\ o.head = 0 /\ o.tail = 0
        /\ handle'[p] = [obj |-> made, capacity |-> o.capacity, slot_size |-> o.slot_size]

\* Nobody else has the object open.
LEMMA CreatorWrites ==
  ASSUME LifeInv, NEW p \in Processes, Creator(p), NEW o \in Object, CreatorMoves(p, o)
  PROVE  LifeInv'
<1>1. /\ LifecycleTypeOK /\ ObjectInv /\ Creation(p) /\ Usage(p)
      /\ mem \in [Objects -> Object] /\ proc[p] \in Call
      /\ made \in Objects /\ made \in Nat
      /\ proc[p].fd = made /\ made # 0 /\ proc[p].capacity # 0 /\ proc[p].slot_size # 0
  BY DEF LifeInv, LifecycleTypeOK, Creation, Objects
<1>2. \A q \in Processes : /\ handle[q] # None => handle[q].obj # made
                           /\ q # p => proc[q].pc \in {"idle", "push", "pop"}
  BY Zenon DEF LifeInv, Creation
<1>3. /\ UNCHANGED <<name, made>> /\ mem'[made] = o /\ mem' \in [Objects -> Object]
      /\ \A x \in Objects : x # made => mem'[x] = mem[x]
  BY <1>1, SMTT(30) DEF CreatorMoves
<1>4. \A q \in Processes \ {p} : proc'[q] = proc[q] /\ handle'[q] = handle[q]
  BY Zenon DEF CreatorMoves
<1>5. LifecycleTypeOK'
  BY <1>1, <1>3, Zenon DEF LifecycleTypeOK, CreatorMoves
<1>6. \A q \in Processes \ {p} : ~Creator(q)'
  BY <1>2, <1>4, SMTT(30) DEF Creator, InitPCs
<1>7. \/ /\ Creator(p)' /\ proc'[p].pc # "ftruncate"
         /\ Stage(o, proc'[p].pc, proc[p].capacity, proc[p].slot_size)
      \/ Complete(o) /\ o.head = 0 /\ o.tail = 0
  BY SMTT(30) DEF Creator, CreatorMoves
<1>8. /\ o.head = 0 /\ o.tail = 0 /\ o.size # 0 /\ o.capacity \in Nat
      /\ o.magic = 1 => Complete(o) \/ Creator(p)'
  <2>1. /\ proc[p].capacity \in Nat /\ proc[p].slot_size \in Nat
        /\ o.capacity \in Nat /\ o.slot_size \in Nat
    BY <1>1, Zenon DEF Call, Object
  <2>2. /\ total_size(proc[p].capacity, proc[p].slot_size) # 0
        /\ total_size(o.capacity, o.slot_size) # 0
    BY <2>1, TotalSize, Zenon
  <2> QED
    BY <1>7, <2>1, <2>2, Zenon DEF Stage, Complete
<1>9. ObjectInv'
  <2>1. ASSUME NEW x \in Objects
        PROVE  /\ x > made => mem'[x] = Blank
               /\ mem'[x].head - mem'[x].tail \in 0 .. mem'[x].capacity
               /\ mem'[x].magic = 0 => mem'[x].head = 0 /\ mem'[x].tail = 0
               /\ mem'[x].magic = 1 => Complete(mem'[x]) \/ (x = made /\ Creator(p)')
    <3>1. CASE x = made
      BY <1>1, <1>3, <1>8, <3>1, SMTT(30)
    <3>2. CASE x # made
      <4>1. mem'[x] = mem[x]
        BY <1>3, <3>2, Zenon
      <4> QED
        BY <1>1, <3>2, <4>1, Zenon DEF ObjectInv
    <3> QED
      BY <3>1, <3>2, Zenon
  <2>2. name \in {0, made} /\ (name # 0 => mem'[name].size # 0)
    BY <1>1, <1>3, <1>8, Zenon DEF ObjectInv
  <2>3. \A x \in Objects :
          mem'[x].magic = 1 =>
            Complete(mem'[x]) \/ (x = made /\ \E q \in Processes : Creator(q)')
    BY <2>1, Zenon
  <2> QED
    BY <1>3, <2>1, <2>2, <2>3, Zenon DEF ObjectInv, Complete
<1>10. ASSUME NEW q \in Processes \ {p}
       PROVE  (Creation(q) /\ Usage(q) /\ View(q))'
  <2>1. Creation(q)'
    BY <1>6, Zenon DEF Creation
  <2>2. View(q)'
    BY <1>2, <1>4, Zenon DEF View, Sees, AttachPCs, RecoverPCs
  <2>3. /\ Usage(q) /\ proc'[q] = proc[q] /\ handle'[q] = handle[q]
        /\ handle[q] # None => /\ handle[q].obj \in Objects /\ handle[q].obj # made
                               /\ handle[q].obj \in 1 .. made'
    BY <1>1, <1>2, <1>3, <1>4, ZenonT(40) DEF LifeInv, LifecycleTypeOK, Handle, Usage
  <2>4. handle[q] # None => mem'[handle[q].obj] = mem[handle[q].obj]
    BY <1>3, <2>3, Zenon
  <2>5. Usage(q)'
    BY <2>3, <2>4, UsageFrame, Zenon
  <2> QED
    BY <2>1, <2>2, <2>5, Zenon
<1>11. (Creation(p) /\ Usage(p) /\ View(p))'
  <2>1. CASE Creator(p)'
    <3>1. handle'[p] = None /\ Stage(o, proc'[p].pc, proc[p].capacity, proc[p].slot_size)
          /\ proc'[p].fd = proc[p].fd /\ proc'[p].capacity = proc[p].capacity
          /\ proc'[p].slot_size = proc[p].slot_size
      BY <2>1 DEF Creator, CreatorMoves, Resting, InitPCs
    <3>2. \A q \in Processes : /\ handle'[q] # None => handle'[q].obj # made'
                               /\ q # p => proc'[q].pc \in {"idle", "push", "pop"}
      BY <1>2, <1>3, <1>4, <3>1, SMTT(30)
    <3>3. Stage(mem[made], proc[p].pc, proc[p].capacity, proc[p].slot_size)'
      BY <1>3, <3>1, SMTT(30) DEF Stage
    <3>4. Creation(p)'
      BY <1>1, <1>3, <3>1, <3>2, <3>3, SMTT(30) DEF Creation
    <3>5. Usage(p)' /\ View(p)'
      BY <2>1, <3>1, Zenon DEF Usage, View, Sees, Creator, InitPCs, AttachPCs, RecoverPCs
    <3> QED
      BY <3>4, <3>5, Zenon
  <2>2. CASE ~Creator(p)'
    <3>1. /\ proc'[p] = Resting /\ Complete(o)
          /\ handle'[p] = [obj |-> made, capacity |-> o.capacity,
                           slot_size |-> o.slot_size]
      BY <2>2, SMTT(30) DEF Creator, CreatorMoves
    <3>2. made \in 1 .. made' /\ proc'[p].pc = "idle"
      BY <1>1, <1>3, <3>1 DEF Objects, Resting
    <3>3. Creation(p)' /\ View(p)'
      <4>1. Creation(p)'
        BY <2>2, Zenon DEF Creation
      <4>2. View(p)'
        BY <3>2, Zenon DEF View, Sees, AttachPCs, RecoverPCs
      <4> QED
        BY <4>1, <4>2, Zenon
    <3>4. Complete(mem[made])'
      BY <1>3, <3>1, Zenon DEF Complete
    <3>5. /\ handle'[p].obj = made /\ handle'[p].capacity = mem'[made].capacity
          /\ handle'[p].slot_size = mem'[made].slot_size
      BY <1>3, <3>1
    <3>6. Usage(p)'
      BY <1>3, <3>2, <3>4, <3>5, Zenon DEF Usage
    <3> QED
      BY <3>3, <3>6, Zenon
  <2> QED
    BY <2>1, <2>2, Zenon
<1> QED
  BY <1>5, <1>9, <1>10, <1>11, Zenon DEF LifeInv

\* The stores of nabd_open with NABD_CREATE.
LEMMA CreateSteps ==
  ASSUME LifeInv, NEW p \in Processes,
         \/ ftruncate(p) \/ init_clear(p) \/ init_magic(p) \/ init_version(p)
         \/ init_capacity(p) \/ init_slot_size(p) \/ init_head(p) \/ init_tail(p)
  PROVE  LifeInv' /\ Untouched
<1>1. Creator(p)
  BY SMTT(30) DEF ftruncate, init_clear, init_magic, init_version, init_capacity,
     init_slot_size, init_head, init_tail, Writes, At, Creator, InitPCs
<1>2. /\ mem \in [Objects -> Object] /\ proc \in [Processes -> Call] /\ proc[p] \in Call
      /\ handle \in [Processes -> Handle \cup {None}]
      /\ made \in Objects /\ proc[p].fd = made /\ Obj(p) = mem[made] /\ mem[made] \in Object
      /\ proc[p].capacity \in Nat \ {0} /\ proc[p].slot_size \in Nat \ {0}
      /\ handle[p] = None
      /\ Stage(mem[made], proc[p].pc, proc[p].capacity, proc[p].slot_size)
  BY <1>1, Zenon DEF LifeInv, LifecycleTypeOK, Creation, Usage, Creator, InitPCs, Call, Obj
<1>3. total_size(proc[p].capacity, proc[p].slot_size) \in Nat \ {0}
  BY <1>2, TotalSize, Zenon
<1>4. ASSUME NEW o \in Object, NEW pc \in InitPCs \ {"ftruncate"},
             mem' = [mem EXCEPT ![proc[p].fd] = o], Goto(p, pc),
             UNCHANGED <<name, made, handle>>,
             Stage(o, pc, proc[p].capacity, proc[p].slot_size),
             Complete(mem[made]) => o = mem[made]
      PROVE  LifeInv' /\ Untouched
  <2> DEFINE r == [proc[p] EXCEPT !.pc = pc]
  <2>1. /\ r \in Call /\ r.pc = pc /\ r.fd = proc[p].fd /\ r.capacity = proc[p].capacity
        /\ r.slot_size = proc[p].slot_size
    BY <1>2, Zenon DEF Call, PCs, CreatePCs
  <2>2. proc' = [proc EXCEPT ![p] = r]
    BY <1>4, Zenon DEF Goto
  <2> HIDE DEF r
  <2>3. /\ proc' \in [Processes -> Call] /\ proc'[p] = r
        /\ \A q \in Processes \ {p} : proc'[q] = proc[q] /\ handle'[q] = handle[q]
    BY <1>2, <1>4, <2>1, <2>2, Zenon
  <2>4. LifeInv'
    <3>1. CreatorMoves(p, o)
      BY <1>2, <1>4, <2>1, <2>3, Zenon DEF CreatorMoves
    <3> QED
      BY <1>1, <3>1, CreatorWrites, Zenon
  <2>5. Untouched
    BY <1>2, <1>4, Zenon DEF Untouched
  <2> QED
    BY <2>4, <2>5, Zenon
<1>5. CASE ftruncate(p)
  <2> DEFINE o == [Obj(p) EXCEPT !.size = total_size(proc[p].capacity, proc[p].slot_size)]
  <2>1. proc[p].pc = "ftruncate" /\ mem' = [mem EXCEPT ![proc[p].fd] = o] /\ Goto(p, "mmap")
        /\ UNCHANGED <<name, made, handle>>
    BY <1>5, Zenon DEF ftruncate, Writes, At
  <2>2. o \in Object /\ Stage(o, "mmap", proc[p].capacity, proc[p].slot_size)
        /\ (Complete(mem[made]) => o = mem[made])
    BY <1>2, <1>3, <2>1, Zenon DEF Object, Stage, Complete, Blank, InitPCs
  <2> HIDE DEF o
  <2> QED
    BY <1>4, <2>1, <2>2, Zenon DEF InitPCs
<1>6. CASE init_clear(p)
  <2> DEFINE o == [Blank EXCEPT !.size = Obj(p).size]
  <2>1. proc[p].pc = "clear" /\ mem' = [mem EXCEPT ![proc[p].fd] = o] /\ Goto(p, "magic")
        /\ UNCHANGED <<name, made, handle>>
    BY <1>6, Zenon DEF init_clear, Writes, At
  <2>2. o \in Object /\ Stage(o, "magic", proc[p].capacity, proc[p].slot_size)
        /\ (Complete(mem[made]) => o = mem[made])
    BY <1>2, <1>3, <2>1, Zenon DEF Object, Stage, Complete, Blank, InitPCs
  <2> HIDE DEF o
  <2> QED
    BY <1>4, <2>1, <2>2, Zenon DEF InitPCs
<1>7. CASE init_magic(p)
  <2> DEFINE o == [Obj(p) EXCEPT !.magic = 1]
  <2>1. proc[p].pc = "magic" /\ mem' = [mem EXCEPT ![proc[p].fd] = o] /\ Goto(p, "version")
        /\ UNCHANGED <<name, made, handle>>
    BY <1>7, Zenon DEF init_magic, Writes, At
  <2>2. o \in Object /\ Stage(o, "version", proc[p].capacity, proc[p].slot_size)
        /\ (Complete(mem[made]) => o = mem[made])
    BY <1>2, <1>3, <2>1, Zenon DEF Object, Stage, Complete, Blank, InitPCs
  <2> HIDE DEF o
  <2> QED
    BY <1>4, <2>1, <2>2, Zenon DEF InitPCs
<1>8. CASE init_version(p)
  <2> DEFINE o == [Obj(p) EXCEPT !.version = 1]
  <2>1. proc[p].pc = "version" /\ mem' = [mem EXCEPT ![proc[p].fd] = o] /\ Goto(p, "capacity")
        /\ UNCHANGED <<name, made, handle>>
    BY <1>8, Zenon DEF init_version, Writes, At
  <2>2. o \in Object /\ Stage(o, "capacity", proc[p].capacity, proc[p].slot_size)
        /\ (Complete(mem[made]) => o = mem[made])
    BY <1>2, <1>3, <2>1, Zenon DEF Object, Stage, Complete, Blank, InitPCs
  <2> HIDE DEF o
  <2> QED
    BY <1>4, <2>1, <2>2, Zenon DEF InitPCs
<1>9. CASE init_capacity(p)
  <2> DEFINE o == [Obj(p) EXCEPT !.capacity = proc[p].capacity]
  <2>1. proc[p].pc = "capacity" /\ mem' = [mem EXCEPT ![proc[p].fd] = o] /\ Goto(p, "slot_size")
        /\ UNCHANGED <<name, made, handle>>
    BY <1>9, Zenon DEF init_capacity, Writes, At
  <2>2. o \in Object /\ Stage(o, "slot_size", proc[p].capacity, proc[p].slot_size)
        /\ (Complete(mem[made]) => o = mem[made])
    BY <1>2, <1>3, <2>1, Zenon DEF Object, Stage, Complete, Blank, InitPCs
  <2> HIDE DEF o
  <2> QED
    BY <1>4, <2>1, <2>2, Zenon DEF InitPCs
<1>10. CASE init_slot_size(p)
  <2> DEFINE o == [Obj(p) EXCEPT !.slot_size = proc[p].slot_size]
  <2>1. proc[p].pc = "slot_size" /\ mem' = [mem EXCEPT ![proc[p].fd] = o] /\ Goto(p, "head")
        /\ UNCHANGED <<name, made, handle>>
    BY <1>10, Zenon DEF init_slot_size, Writes, At
  <2>2. o \in Object /\ Stage(o, "head", proc[p].capacity, proc[p].slot_size)
        /\ (Complete(mem[made]) => o = mem[made])
    BY <1>2, <1>3, <2>1, Zenon DEF Object, Stage, Complete, Blank, InitPCs
  <2> HIDE DEF o
  <2> QED
    BY <1>4, <2>1, <2>2, Zenon DEF InitPCs
<1>11. CASE init_head(p)
  <2> DEFINE o == [Obj(p) EXCEPT !.head = 0]
  <2>1. proc[p].pc = "head" /\ mem' = [mem EXCEPT ![proc[p].fd] = o] /\ Goto(p, "tail")
        /\ UNCHANGED <<name, made, handle>>
    BY <1>11, Zenon DEF init_head, Writes, At
  <2>2. o \in Object /\ Stage(o, "tail", proc[p].capacity, proc[p].slot_size)
        /\ (Complete(mem[made]) => o = mem[made])
    BY <1>2, <1>3, <2>1, ZenonT(40) DEF Object, Stage, Complete, Blank, InitPCs
  <2> HIDE DEF o
  <2> QED
    BY <1>4, <2>1, <2>2, ZenonT(40) DEF InitPCs
<1>12. CASE init_tail(p)
  <2> DEFINE o == [Obj(p) EXCEPT !.tail = 0]
             h == [obj |-> proc[p].fd, capacity |-> proc[p].capacity,
                   slot_size |-> proc[p].slot_size]
  <2>1. proc[p].pc = "tail" /\ mem' = [mem EXCEPT ![made] = o] /\ Return(p)
        /\ handle' = [handle EXCEPT ![p] = h] /\ UNCHANGED <<name, made>>
    BY <1>2, <1>12, Zenon DEF init_tail, Opened, At, Obj
  <2>2. o = mem[made] /\ Complete(mem[made]) /\ o.head = 0 /\ o.tail = 0
        /\ o.capacity = proc[p].capacity /\ o.slot_size = proc[p].slot_size
    BY <1>2, <1>3, <2>1, Zenon DEF Object, Stage, Complete
  <2>3. h \in Handle /\ h = [obj |-> made, capacity |-> o.capacity,
                             slot_size |-> o.slot_size]
    BY <1>2, <2>2, Zenon DEF Handle
  <2>4. Resting \in Call
    BY Zenon DEF Resting, Call, PCs
  <2> HIDE DEF o, h
  <2>5. /\ proc' \in [Processes -> Call] /\ proc'[p] = Resting
        /\ handle' \in [Processes -> Handle \cup {None}] /\ handle'[p] = h
        /\ \A q \in Processes \ {p} : proc'[q] = proc[q] /\ handle'[q] = handle[q]
    BY <1>2, <2>1, <2>3, <2>4, Zenon DEF Return
  <2>6. LifeInv'
    <3>1. CreatorMoves(p, o) /\ o \in Object
      BY <1>2, <2>1, <2>2, <2>3, <2>5, Zenon DEF CreatorMoves
    <3> QED
      BY <1>1, <3>1, CreatorWrites, Zenon
  <2>7. Untouched
    BY <1>2, <2>1, <2>2, Zenon DEF Untouched
  <2> QED
    BY <2>6, <2>7, Zenon
<1> QED
  BY <1>5, <1>6, <1>7, <1>8, <1>9, <1>10, <1>11, <1>12, Zenon

\* The stores of nabd_push, nabd_pop and nabd_recover.
LEMMA CounterSteps ==
  ASSUME LifeInv, NEW p \in Processes, push_store(p) \/ pop_store(p) \/ reset_tail(p)
  PROVE  LifeInv' /\ Untouched
<1>1. /\ LifecycleTypeOK /\ ObjectInv /\ Usage(p) /\ View(p)
      /\ mem \in [Objects -> Object] /\ proc \in [Processes -> Call] /\ proc[p] \in Call
      /\ handle \in [Processes -> Handle \cup {None}] /\ made \in Objects \cup {0}
  BY Zenon DEF LifeInv, LifecycleTypeOK
<1>2. Resting \in Call /\ Resting.pc = "idle"
  BY Zenon DEF Resting, Call, PCs
<1>3. UNCHANGED <<name, made, handle>> /\ Return(p)
  BY Zenon DEF push_store, pop_store, reset_tail, LastWrite
<1>4. /\ proc' \in [Processes -> Call] /\ proc'[p] = Resting
      /\ \A q \in Processes \ {p} : proc'[q] = proc[q]
  BY <1>1, <1>2, <1>3, Zenon DEF Return
<1>5. proc[p].pc \in {"push", "pop", "reset_tail"} /\ ~Creator(p) /\ ~Creator(p)'
  BY <1>2, <1>4, SMTT(30) DEF push_store, pop_store, reset_tail, LastWrite, At, Creator,
     InitPCs
<1>6. Creation(p)' /\ View(p)'
  BY <1>2, <1>4, <1>5, Zenon DEF Creation, View, Sees, AttachPCs, RecoverPCs
<1>7. CASE reset_tail(p)
  <2>1. proc[p].fd = made /\ made # 0 /\ Obj(p).magic = 0 /\ proc[p].pos = 0
    BY <1>1, <1>7, Zenon DEF reset_tail, LastWrite, At, View, Sees, RecoverPCs
  <2>2. made \in Objects /\ mem[made] \in Object /\ mem[made].tail = 0
    BY <1>1, <2>1, Zenon DEF ObjectInv, Obj
  <2>3. mem' = [mem EXCEPT ![made] = [mem[made] EXCEPT !.tail = 0]]
    BY <1>7, <2>1, Zenon DEF reset_tail, LastWrite, Obj
  <2>4. [mem[made] EXCEPT !.tail = 0] = mem[made]
    BY <2>2, Zenon DEF Object
  <2>5. mem' = mem
    BY <1>1, <2>2, <2>3, <2>4, Zenon
  <2>6. handle[p] = None
    BY <1>1, <1>7, Zenon DEF reset_tail, LastWrite, At, Usage
  <2>7. Usage(p)'
    BY <1>2, <1>3, <1>4, <2>6, Zenon DEF Usage
  <2>8. LifeInv'
    BY <1>1, <1>2, <1>3, <1>4, <1>5, <1>6, <2>5, <2>6, <2>7, LocalStep, Zenon
  <2> QED
    BY <2>5, <2>8, Zenon DEF Untouched, Complete
<1>8. CASE push_store(p) \/ pop_store(p)
  <2> DEFINE f == proc[p].fd
             o == mem'[f]
  <2>1. /\ proc[p].pc \in {"push", "pop"} /\ handle[p] # None /\ f = handle[p].obj
        /\ f \in Objects /\ f \in 1 .. made /\ mem[f] \in Object /\ Complete(mem[f])
        /\ mem[f].head - mem[f].tail \in 0 .. mem[f].capacity
    BY <1>1, <1>8, Zenon DEF push_store, pop_store, LastWrite, At, Usage,
       LifecycleTypeOK, Handle,
                      ObjectInv
  <2>2. /\ mem[f].head \in Nat /\ mem[f].tail \in Nat /\ mem[f].capacity \in Nat
    BY <2>1, SMTT(30) DEF Object
  <2>3. /\ mem' \in [Objects -> Object] /\ \A x \in Objects : x # f => mem'[x] = mem[x]
        /\ o.size = mem[f].size /\ o.magic = mem[f].magic /\ o.version = mem[f].version
        /\ o.capacity = mem[f].capacity /\ o.slot_size = mem[f].slot_size
        /\ \/ /\ p = producer /\ proc[p].pc = "push"
              /\ o.head = mem[f].head + 1 /\ o.tail = mem[f].tail
              /\ mem[f].head - mem[f].tail < mem[f].capacity
           \/ /\ p = consumer /\ proc[p].pc = "pop"
              /\ o.head = mem[f].head /\ o.tail = mem[f].tail + 1
              /\ mem[f].tail < mem[f].head
    <3>1. CASE push_store(p)
      <4>1. /\ mem' = [mem EXCEPT ![f] = [mem[f] EXCEPT !.head = mem[f].head + 1]]
            /\ p = producer /\ proc[p].pc = "push"
            /\ mem[f].head - mem[f].tail < mem[f].capacity
        BY <1>1, <3>1, Zenon DEF push_store, LastWrite, At, Usage, Obj
      <4>2. [mem[f] EXCEPT !.head = mem[f].head + 1] \in Object
        BY <2>1, <2>2 DEF Object
      <4> QED
        BY <1>1, <2>1, <4>1, <4>2, Zenon DEF Object
    <3>2. CASE pop_store(p)
      <4>1. /\ mem' = [mem EXCEPT ![f] = [mem[f] EXCEPT !.tail = mem[f].tail + 1]]
            /\ p = consumer /\ proc[p].pc = "pop" /\ mem[f].tail < mem[f].head
        BY <1>1, <3>2, Zenon DEF pop_store, LastWrite, At, Usage, Obj
      <4>2. [mem[f] EXCEPT !.tail = mem[f].tail + 1] \in Object
        BY <2>1, <2>2 DEF Object
      <4> QED
        BY <1>1, <2>1, <4>1, <4>2, Zenon DEF Object
    <3> QED
      BY <1>8, <3>1, <3>2, Zenon
  <2>4. Complete(o) /\ o.head - o.tail \in 0 .. o.capacity
    <3>1. Complete(o)
      BY <2>1, <2>3, Zenon DEF Complete
    <3> HIDE DEF o, f
    <3>2. o.head - o.tail \in 0 .. o.capacity
      BY <2>1, <2>2, <2>3, SMTT(30)
    <3> QED
      BY <3>1, <3>2, Zenon
  <2>5. Untouched
    <3> SUFFICES ASSUME NEW x \in Objects, Complete(mem[x])
                 PROVE  /\ Complete(mem'[x])
                        /\ mem'[x].capacity = mem[x].capacity
                        /\ mem'[x].slot_size = mem[x].slot_size
                        /\ mem'[x].tail # mem[x].tail =>
                             mem'[x].tail = mem[x].tail + 1 /\ At(consumer, "pop")
      BY Zenon DEF Untouched
    <3> QED
      BY <2>3, <2>4, Zenon DEF At
  <2>6. LifecycleTypeOK'
    BY <1>1, <1>3, <1>4, <2>3, Zenon DEF LifecycleTypeOK
  <2>7. \A q \in Processes : Creator(q)' <=> Creator(q)
    BY <1>4, <1>5, SMTT(30) DEF Creator
  <2>8. (\E q \in Processes : Creator(q)) => f # made
    BY <2>1, SMTT(30) DEF LifeInv, Creation
  <2>9. ObjectInv'
    <3>1. ASSUME NEW x \in Objects
          PROVE  /\ x > made => mem'[x] = Blank
                 /\ mem'[x].head - mem'[x].tail \in 0 .. mem'[x].capacity
                 /\ mem'[x].magic = 0 => mem'[x].head = 0 /\ mem'[x].tail = 0
                 /\ mem'[x].magic = 1 =>
                      Complete(mem'[x]) \/ (x = made /\ \E q \in Processes : Creator(q))
      <4>1. CASE x = f
        <5>1. ~(x > made) /\ mem'[x] = o
          BY <1>1, <2>1, <4>1 DEF Objects
        <5>2. o.magic = 1
          BY <2>4, SMTT(30) DEF Complete
        <5> HIDE DEF o, f
        <5> QED
          BY <2>4, <5>1, <5>2
      <4>2. CASE x # f
        BY <1>1, <2>3, <4>2, ZenonT(40) DEF ObjectInv
      <4> QED
        BY <4>1, <4>2, SMTT(30)
    <3>2. name \in {0, made} /\ name \in Objects \cup {0}
          /\ (name # 0 => mem[name].size # 0 \/ \E q \in Processes : Creator(q))
      BY <1>1, SMTT(30) DEF ObjectInv, LifecycleTypeOK
    <3>3. name # 0 => mem'[name].size = mem[name].size
      BY <2>3, <3>2, Zenon
    <3>4. name # 0 => mem'[name].size # 0 \/ \E q \in Processes : Creator(q)
      BY <3>2, <3>3, Zenon
    <3> HIDE DEF o, f
    <3> QED
      BY <1>3, <2>7, <3>1, <3>2, <3>4, SMTT(30) DEF ObjectInv, Complete
  <2>10. Usage(p)'
    <3>1. handle[p].capacity = mem[f].capacity /\ handle[p].slot_size = mem[f].slot_size
      BY <1>1, <2>1, Zenon DEF Usage
    <3> QED
      BY <1>2, <1>3, <1>4, <2>1, <2>3, <2>4, <3>1, ZenonT(40) DEF Usage, Complete
  <2>11. ASSUME NEW q \in Processes \ {p} PROVE (Creation(q) /\ Usage(q) /\ View(q))'
    <3>1. proc'[q] = proc[q] /\ handle'[q] = handle[q]
      BY <1>3, <1>4, SMTT(30)
    <3>2. Creation(q)'
      <4> SUFFICES ASSUME Creator(q) PROVE Creation(q)'
        BY <2>7, Zenon DEF Creation
      <4>1. f # made /\ made \in Objects
        BY <1>1, <2>8, SMTT(30) DEF LifeInv, Creation
      <4>2. mem'[made] = mem[made]
        BY <2>3, <4>1, ZenonT(40)
      <4>3. \A r \in Processes : r # q => proc'[r].pc \in {"idle", "push", "pop"}
        BY <1>2, <1>4, Zenon DEF LifeInv, Creation
      <4> QED
        BY <1>3, <3>1, <4>2, <4>3, ZenonT(40) DEF LifeInv, Creation, Stage
    <3>3. View(q)'
      <4>1. Sees(proc[q], Obj(q)) /\ Obj(q)' = mem'[proc[q].fd] /\ Obj(q) = mem[proc[q].fd]
        BY <3>1, SMTT(30) DEF LifeInv, View, Obj
      <4>2. CASE proc[q].fd = f
        <5>1. /\ Obj(q)'.size = Obj(q).size /\ Obj(q)'.magic = Obj(q).magic
              /\ Obj(q)'.capacity = Obj(q).capacity /\ Obj(q)'.slot_size = Obj(q).slot_size
              /\ Obj(q).head \in Nat /\ Obj(q)'.head \in {Obj(q).head, Obj(q).head + 1}
              /\ proc[q].pos \in Nat
          BY <1>1, <2>2, <2>3, <4>1, <4>2, SMTT(30) DEF Call
        <5>2. proc[q].pos <= Obj(q).head => proc[q].pos <= Obj(q)'.head
          BY <5>1, SMTT(30)
        <5> QED
          BY <1>3, <3>1, <4>1, <5>1, <5>2, ZenonT(40) DEF View, Sees
      <4>3. CASE proc[q].fd # f /\ proc[q].pc \in AttachPCs \cup RecoverPCs
        <5>1. proc[q].fd \in Objects
          BY <1>1, <4>1, <4>3, SMTT(30) DEF Sees, LifecycleTypeOK, Call
        <5>2. Obj(q)' = Obj(q)
          BY <2>3, <4>1, <4>3, <5>1, ZenonT(40)
        <5> QED
          BY <1>3, <3>1, <4>1, <5>2, Zenon DEF View, Sees
      <4>4. CASE proc[q].pc \notin AttachPCs \cup RecoverPCs
        BY <3>1, <4>1, <4>4, ZenonT(40) DEF View, Sees, AttachPCs, RecoverPCs
      <4> QED
        BY <4>2, <4>3, <4>4, Zenon
    <3>4. Usage(q)'
      <4>1. Usage(q) /\ (handle[q] # None => handle[q].obj \in Objects)
        BY <1>1, Zenon DEF LifeInv, LifecycleTypeOK, Handle
      <4>2. CASE handle[q] = None
        BY <3>1, <4>1, <4>2, UsageFrame, Zenon
      <4>3. CASE handle[q] # None /\ handle[q].obj # f
        <5>1. handle[q].obj \in 1 .. made' /\ mem'[handle[q].obj] = mem[handle[q].obj]
          BY <1>3, <2>3, <4>1, <4>3, ZenonT(40) DEF Usage
        <5> QED
          BY <3>1, <4>1, <5>1, UsageFrame, SMTT(30)
      <4>4. CASE handle[q] # None /\ handle[q].obj = f
        <5>1. /\ handle[q].capacity = o.capacity /\ handle[q].slot_size = o.slot_size
              /\ proc[q].pc \in {"idle", "push", "pop"}
          BY <2>3, <4>1, <4>4, ZenonT(40) DEF Usage
        <5>2. proc[q].pc = "push" =>
                /\ q = producer /\ proc[q].fd = f /\ proc[q].pos = o.head
                /\ o.head - o.tail < o.capacity
          <6>1. proc[q].pc = "push" =>
                  /\ q = producer /\ proc[q].fd = f /\ proc[q].pos = mem[f].head
                  /\ mem[f].head - mem[f].tail < mem[f].capacity
            BY <4>1, <4>4, Zenon DEF Usage, Obj
          <6> HIDE DEF f, o
          <6>2. CASE proc[q].pc = "push"
            <7>1. /\ o.head = mem[f].head /\ o.tail = mem[f].tail + 1
                  /\ o.capacity = mem[f].capacity
              BY <2>3, <6>1, <6>2, Zenon
            <7>2. o.head - o.tail < o.capacity
              BY <2>2, <6>1, <6>2, <7>1
            <7> QED
              BY <6>1, <7>1, <7>2, Zenon
          <6> QED
            BY <6>2, Zenon
        <5>3. proc[q].pc = "pop" =>
                /\ q = consumer /\ proc[q].fd = f /\ proc[q].pos = o.tail
                /\ o.tail < o.head
          <6>1. proc[q].pc = "pop" =>
                  /\ q = consumer /\ proc[q].fd = f /\ proc[q].pos = mem[f].tail
                  /\ mem[f].tail < mem[f].head
            BY <4>1, <4>4, Zenon DEF Usage, Obj
          <6> HIDE DEF f, o
          <6>2. CASE proc[q].pc = "pop"
            <7>1. o.head = mem[f].head + 1 /\ o.tail = mem[f].tail
              BY <2>3, <6>1, <6>2, ZenonT(40)
            <7>2. o.tail < o.head
              BY <2>2, <6>1, <6>2, <7>1, SMTT(30)
            <7> QED
              BY <6>1, <7>1, <7>2, Zenon
          <6> QED
            BY <6>2, Zenon
        <5> QED
          BY <1>3, <2>1, <2>4, <3>1, <4>4, <5>1, <5>2, <5>3, ZenonT(40)
             DEF Usage, Obj, Complete
      <4> QED
        BY <4>2, <4>3, <4>4, Zenon
    <3> QED
      BY <3>2, <3>3, <3>4, Zenon
  <2> QED
    BY <1>6, <2>5, <2>6, <2>9, <2>10, <2>11, Zenon DEF LifeInv
<1> QED
  BY <1>7, <1>8, Zenon

\* A creation begins: the name is free and no call is in the way of it.
LEMMA CreationStarts ==
  ASSUME LifeInv, NEW p \in Processes, NEW g \in Geometries, nabd_open_create(p, g),
         name = 0, \A q \in Processes : proc[q].pc \in {"idle", "push", "pop"}
  PROVE  LifeInv'
<1>1. /\ LifecycleTypeOK /\ ObjectInv
      /\ mem \in [Objects -> Object] /\ proc \in [Processes -> Call]
      /\ handle \in [Processes -> Handle \cup {None}] /\ made \in Objects \cup {0}
  BY Zenon DEF LifeInv, LifecycleTypeOK
<1> DEFINE n == made + 1
           r == [Resting EXCEPT !.pc = "ftruncate", !.fd = n, !.capacity = g[1],
                                !.slot_size = g[2]]
<1>2. /\ UNCHANGED <<mem, handle>> /\ made' = n /\ name' = n /\ made < MaxObjects
      /\ proc' = [proc EXCEPT ![p] = r] /\ handle[p] = None
  BY Zenon DEF nabd_open_create
<1>3. n \in Objects /\ n > made /\ made \in Nat /\ mem[n] = Blank
  <2>1. made \in Nat /\ n \in Objects /\ n > made
    BY <1>1, <1>2, LifecycleAssumption DEF Objects
  <2> HIDE DEF n
  <2> QED
    BY <1>1, <2>1, Zenon DEF ObjectInv
<1>4. g[1] \in Nat \ {0} /\ g[2] \in Nat \ {0}
  BY LifecycleAssumption, Zenon
<1>5. /\ r \in Call /\ r.pc = "ftruncate" /\ r.fd = n
      /\ r.capacity = g[1] /\ r.slot_size = g[2]
  BY <1>3, <1>4, Zenon DEF Resting, Call, PCs, CreatePCs, InitPCs
<1> HIDE DEF r, n
<1>6. /\ proc' \in [Processes -> Call] /\ proc'[p] = r
      /\ \A q \in Processes \ {p} : proc'[q] = proc[q]
  BY <1>1, <1>2, <1>5, Zenon
<1>7. LifecycleTypeOK'
  BY <1>1, <1>2, <1>3, <1>6, Zenon DEF LifecycleTypeOK
<1>8. Creator(p)' /\ \A q \in Processes : ~Creator(q)
  BY <1>5, <1>6, Zenon DEF Creator, InitPCs
<1>9. ObjectInv'
  <2>1. ASSUME NEW x \in Objects
        PROVE  /\ x > n => mem[x] = Blank
               /\ mem[x].head - mem[x].tail \in 0 .. mem[x].capacity
               /\ mem[x].magic = 0 => mem[x].head = 0 /\ mem[x].tail = 0
               /\ mem[x].magic = 1 => Complete(mem[x])
    <3>1. x > n => x > made
      BY <1>3 DEF n, Objects
    <3> QED
      BY <1>1, <1>8, <3>1, Zenon DEF ObjectInv
  <2> QED
    BY <1>2, <1>8, <2>1, Zenon DEF ObjectInv, Complete
<1>10. ASSUME NEW q \in Processes
       PROVE  /\ handle'[q] # None => handle'[q].obj # n /\ handle'[q].obj \in 1 .. n
              /\ q # p => proc'[q].pc \in {"idle", "push", "pop"}
  <2>1. handle[q] # None => handle[q].obj \in 1 .. made
    BY SMTT(30) DEF LifeInv, Usage
  <2> QED
    BY <1>2, <1>3, <1>6, <2>1, SMTT(30) DEF n
<1>11. (Creation(p) /\ Usage(p) /\ View(p))'
  <2>1. Creation(p)'
    BY <1>2, <1>3, <1>4, <1>5, <1>6, <1>10 DEF Creation, Stage, Blank
  <2> QED
    BY <1>2, <1>5, <1>6, <2>1, ZenonT(40) DEF Usage, View, Sees, AttachPCs, RecoverPCs
<1>12. ASSUME NEW q \in Processes \ {p} PROVE (Creation(q) /\ Usage(q) /\ View(q))'
  <2>1. Creation(q)' /\ View(q)'
    BY <1>10, ZenonT(40) DEF Creation, Creator, InitPCs, View, Sees, AttachPCs, RecoverPCs
  <2>2. Usage(q)'
    BY <1>2, <1>6, <1>10, UsageFrame, Zenon DEF LifeInv
  <2> QED
    BY <2>1, <2>2, SMTT(30)
<1> QED
  BY <1>7, <1>9, <1>11, <1>12, Zenon DEF LifeInv

\* nabd_unlink frees the name and leaves the object to those who have it open.
LEMMA Unlinks == LifeInv /\ nabd_unlink => LifeInv'
<1> SUFFICES ASSUME LifeInv, nabd_unlink PROVE LifeInv'
  BY Zenon
<1>1. LifecycleTypeOK' /\ ObjectInv'
  BY SMTT(30) DEF LifeInv, LifecycleTypeOK, ObjectInv, nabd_unlink, Creator, Complete
<1>2. ASSUME NEW p \in Processes PROVE (Creation(p) /\ Usage(p) /\ View(p))'
  BY ZenonT(40) DEF LifeInv, nabd_unlink, Creation, Creator, Stage, Usage, View, Sees,
     Obj, Complete
<1> QED
  BY <1>1, <1>2, Zenon DEF LifeInv

\* A step of careful callers keeps the invariant and leaves a working queue alone.
LEMMA LifeNextInv ==
  LifeInv /\ [LifecycleNext]_lvars => LifeInv' /\ (Untouched \/ UNCHANGED lvars)
<1> SUFFICES ASSUME LifeInv, [LifecycleNext]_lvars
             PROVE  LifeInv' /\ (Untouched \/ UNCHANGED lvars)
  BY Zenon
<1>1. mem' = mem => Untouched
  BY Zenon DEF Untouched, Complete
<1>2. CASE UNCHANGED lvars
  <2>1. LifecycleTypeOK' /\ ObjectInv'
    BY <1>2, Zenon DEF LifeInv, LifecycleTypeOK, ObjectInv, lvars, Creator, Complete
  <2>2. ASSUME NEW p \in Processes PROVE (Creation(p) /\ Usage(p) /\ View(p))'
    BY <1>2, ZenonT(40) DEF LifeInv, lvars, Creation, Creator, Stage, Usage, View, Sees,
       Obj, Complete
  <2> QED
    BY <1>2, <2>1, <2>2, Zenon DEF LifeInv
<1>3. ASSUME NEW p \in Processes, Creates(p)
      PROVE  LifeInv' /\ Untouched
  <2>1. CASE create_fails(p) \/ mmap_create(p)
    BY <1>1, <2>1, EndSteps, Zenon DEF create_fails, mmap_create
  <2>2. CASE ~(create_fails(p) \/ mmap_create(p))
    BY <1>3, <2>2, CreateSteps, Zenon DEF Creates
  <2> QED
    BY <2>1, <2>2, Zenon
<1>4. ASSUME NEW p \in Processes, Attaches(p)
      PROVE  LifeInv' /\ Untouched
  <2>1. mem' = mem
    BY <1>4, Zenon DEF Attaches, attach_magic, attach_capacity, attach_slot_size,
       attach_map,
                attach_fails, nabd_close
  <2> QED
    BY <1>1, <1>4, <2>1, ViewSteps, EndSteps, Zenon DEF Attaches
<1>5. ASSUME NEW p \in Processes, Counts(p)
      PROVE  LifeInv' /\ Untouched
  <2>1. CASE nabd_push(p) \/ nabd_pop(p)
    BY <1>1, <2>1, StartSteps, Zenon DEF nabd_push, nabd_pop
  <2>2. CASE push_store(p) \/ pop_store(p)
    BY <2>2, CounterSteps, Zenon
  <2> QED
    BY <1>5, <2>1, <2>2, Zenon DEF Counts
<1>6. ASSUME NEW p \in Processes, Recovers(p)
      PROVE  LifeInv' /\ Untouched
  <2>1. CASE reset_tail(p)
    BY <2>1, CounterSteps, Zenon
  <2>2. CASE ~reset_tail(p)
    <3>1. mem' = mem
      BY <1>6, <2>2, Zenon DEF Recovers, diag_magic, diag_version, diag_head, diag_tail,
                        diag_capacity, recover, reset_open, reset_head
    <3> QED
      BY <1>1, <1>6, <2>2, <3>1, ViewSteps, Zenon DEF Recovers
  <2> QED
    BY <2>1, <2>2, Zenon
<1>7. ASSUME NEW p \in Processes, Steps(p)
      PROVE  LifeInv' /\ Untouched
  BY <1>3, <1>4, <1>5, <1>6, <1>7, SMTT(30) DEF Steps
<1>8. ASSUME name = 0, \A p \in Processes : proc[p].pc \in {"idle", "push", "pop"},
             NEW p \in Processes, NEW g \in Geometries, nabd_open_create(p, g)
      PROVE  LifeInv' /\ Untouched
  BY <1>1, <1>8, CreationStarts, Zenon DEF nabd_open_create
<1>9. ASSUME \A p \in Processes : proc[p].pc \notin CreatePCs, NEW p \in Processes,
             nabd_open_attach(p) \/ \E use \in Uses : nabd_diagnose(p, use)
      PROVE  LifeInv' /\ Untouched
  <2>1. mem' = mem
    BY <1>9, Zenon DEF nabd_open_attach, nabd_diagnose
  <2> QED
    BY <1>1, <1>9, <2>1, StartSteps, Zenon
<1>10. CASE nabd_unlink
  BY <1>1, <1>10, Unlinks, Zenon DEF nabd_unlink
<1>11. ASSUME NEW p \in Processes,
              proc[p].pc \notin CreatePCs \ {"clear", "magic"}, crash(p)
       PROVE  LifeInv' /\ Untouched
  <2>1. mem' = mem
    BY <1>11, Zenon DEF crash
  <2> QED
    BY <1>1, <1>11, <2>1, EndSteps, Zenon
<1> QED
  BY <1>2, <1>7, <1>8, <1>9, <1>10, <1>11, Zenon DEF LifecycleNext

\* What nabd_open, nabd_recover and the counters rely on holds in every state that
\* careful callers reach, for any number of processes, objects and geometries.
THEOREM LifeInvariant == LifecycleSpec => []LifeInv
  BY LifeInitInv, LifeNextInv, PTL DEF LifecycleSpec

\* Type correctness: objects, names, handles and the locals of nabd_open, nabd_diagnose
\* and nabd_recover stay in their ranges.
THEOREM LifecycleTypeCorrect == LifecycleSpec => []LifecycleTypeOK
<1>1. LifeInv => LifecycleTypeOK
  BY Zenon DEF LifeInv
<1> QED
  BY <1>1, LifeInvariant, PTL

\* Every handle agrees with its object, for any processes, geometries and number of
\* objects: nabd_open caches what the creator stored, and nobody reads an object
\* without a size.
THEOREM HandlesAgree == LifecycleSpec => []HandleGeometry
<1>1. LifeInv => HandleGeometry
  BY Zenon DEF LifeInv, HandleGeometry, Usage, View, Sees, At
<1> QED
  BY <1>1, LifeInvariant, PTL

\* Crashes, reopenings, diagnoses and recoveries leave head - tail within the
\* capacity.
THEOREM CountersOrdered == LifecycleSpec => []CounterOrder
<1>1. LifeInv => CounterOrder
  BY Zenon DEF LifeInv, ObjectInv, CounterOrder
<1> QED
  BY <1>1, LifeInvariant, PTL

\* nabd_recover, forced or not, never moves the tail of a working queue.
THEOREM RecoveryIsSafe == LifecycleSpec => HealthyUntouched
<1>1. LifeInv /\ [LifecycleNext]_lvars => [Untouched]_lvars
  BY LifeNextInv, Zenon
<1> QED
  BY <1>1, LifeInvariant, PTL DEF LifecycleSpec, HealthyUntouched
=============================================================================

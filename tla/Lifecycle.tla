----------------------------- MODULE Lifecycle ------------------------------
(***************************************************************************)
(* The life of a queue: nabd_open, nabd_close and nabd_unlink              *)
(* (src/src/nabd.c:79-272), and nabd_diagnose and nabd_recover             *)
(* (src/src/persistence.c:48-169), which a tool may run beside a producer  *)
(* and a consumer that are working.                                        *)
(*                                                                         *)
(* One name of the shared memory file system is bound to an object or to   *)
(* none.  Unlinking a name leaves its object to the processes that have it *)
(* open.  A step is one system call or one access to the control block; a  *)
(* call that fails without having changed anything is left out.  The       *)
(* slots, and the rounding of a requested capacity, are modelled elsewhere *)
(* (Ring, Arith).                                                          *)
(***************************************************************************)
EXTENDS Integers

CONSTANTS Processes,
          producer, consumer,  \* the process that pushes, the one that pops
          Geometries,          \* the pairs <<capacity, slot_size>> asked for
          ControlSize,         \* sizeof(nabd_control_t)
          MaxObjects,          \* bound: objects ever created
          MaxHead,             \* bound: messages pushed to an object
          None

ASSUME LifecycleAssumption ==
  /\ producer # consumer
  /\ Geometries \subseteq (Nat \ {0}) \X (Nat \ {0})
  /\ ControlSize \in Nat \ {0}
  /\ MaxObjects \in Nat
  /\ MaxHead \in Nat
  /\ None \notin [obj : Nat, capacity : Nat, slot_size : Nat]

VARIABLES
  name,     \* the object the name is bound to, 0 for none
  made,     \* number of objects created
  mem,      \* size and control block of each object
  proc,     \* each process's call: its place, descriptor and locals
  handle    \* each process's nabd_t, or None

lvars == <<name, made, mem, proc, handle>>

Objects == 1 .. MaxObjects

\* A new object: no size, and zeros once it has one.
Blank == [size |-> 0, magic |-> 0, version |-> 0, capacity |-> 0, slot_size |-> 0,
          head |-> 0, tail |-> 0]

Resting == [pc |-> "idle", fd |-> 0, capacity |-> 0, slot_size |-> 0, pos |-> 0,
            use |-> "none", state |-> "none"]

total_size(c, s) == ControlSize + c * s

LifecycleInit ==
  /\ name = 0 /\ made = 0
  /\ mem = [o \in Objects |-> Blank]
  /\ proc = [p \in Processes |-> Resting]
  /\ handle = [p \in Processes |-> None]

At(p, pc) == proc[p].pc = pc

\* The object a process has open.
Obj(p) == mem[proc[p].fd]

Goto(p, pc) == proc' = [proc EXCEPT ![p].pc = pc]

Return(p) == proc' = [proc EXCEPT ![p] = Resting]

\* An access to an object that ftruncate has not sized kills the process.
Access(p, A) == IF Obj(p).size = 0 THEN Goto(p, "sigbus") ELSE A
-----------------------------------------------------------------------------
(* nabd_open with NABD_CREATE *)

nabd_open_create(p, g) ==
  /\ At(p, "idle") /\ handle[p] = None
  /\ \/ /\ name = 0 /\ made < MaxObjects
        /\ made' = made + 1
        /\ name' = made + 1
        /\ proc' = [proc EXCEPT ![p] = [Resting EXCEPT
             !.pc = "ftruncate", !.fd = made + 1, !.capacity = g[1], !.slot_size = g[2]]]
     \/ /\ name # 0
        /\ proc' = [proc EXCEPT ![p] = [Resting EXCEPT
             !.pc = "open_existing", !.capacity = g[1], !.slot_size = g[2]]]
        /\ UNCHANGED <<name, made>>
  /\ UNCHANGED <<mem, handle>>

\* The second shm_open, after EEXIST.
open_existing(p) ==
  /\ At(p, "open_existing")
  /\ IF name = 0 THEN Return(p)
     ELSE proc' = [proc EXCEPT ![p].pc = "ftruncate", ![p].fd = name]
  /\ UNCHANGED <<name, made, mem, handle>>

\* ftruncate and mmap may fail: the name is unlinked.
create_fails(p) ==
  /\ At(p, "ftruncate") \/ At(p, "mmap")
  /\ name' = 0
  /\ Return(p)
  /\ UNCHANGED <<made, mem, handle>>

mmap_create(p) ==
  /\ At(p, "mmap")
  /\ Goto(p, "clear")
  /\ UNCHANGED <<name, made, mem, handle>>

\* Process p, at pc, makes the object it has open o, and goes on at next.
Writes(p, pc, o, next) ==
  /\ At(p, pc)
  /\ mem' = [mem EXCEPT ![proc[p].fd] = o]
  /\ Goto(p, next)
  /\ UNCHANGED <<name, made, handle>>

ftruncate(p) ==
  Writes(p, "ftruncate",
         [Obj(p) EXCEPT !.size = total_size(proc[p].capacity, proc[p].slot_size)], "mmap")

\* The stores to the control block, in program order.
init_clear(p) == Writes(p, "clear", [Blank EXCEPT !.size = Obj(p).size], "magic")

init_magic(p) == Writes(p, "magic", [Obj(p) EXCEPT !.magic = 1], "version")

init_version(p) == Writes(p, "version", [Obj(p) EXCEPT !.version = 1], "capacity")

init_capacity(p) ==
  Writes(p, "capacity", [Obj(p) EXCEPT !.capacity = proc[p].capacity], "slot_size")

\* Mutant of init_slot_size: the caller's capacity is stored as the slot size.
init_slot_size_swapped(p) ==
  Writes(p, "slot_size", [Obj(p) EXCEPT !.slot_size = proc[p].capacity], "head")

init_slot_size(p) ==
  Writes(p, "slot_size", [Obj(p) EXCEPT !.slot_size = proc[p].slot_size], "head")

init_head(p) == Writes(p, "head", [Obj(p) EXCEPT !.head = 0], "tail")

\* The handle caches the geometry.
Opened(p) ==
  /\ handle' = [handle EXCEPT ![p] = [obj |-> proc[p].fd, capacity |-> proc[p].capacity,
                                      slot_size |-> proc[p].slot_size]]
  /\ Return(p)

init_tail(p) ==
  /\ At(p, "tail")
  /\ mem' = [mem EXCEPT ![proc[p].fd].tail = 0]
  /\ Opened(p)
  /\ UNCHANGED <<name, made>>
-----------------------------------------------------------------------------
(* nabd_open without NABD_CREATE, nabd_close, nabd_unlink *)

nabd_open_attach(p) ==
  /\ At(p, "idle") /\ handle[p] = None /\ name # 0
  /\ proc' = [proc EXCEPT ![p].pc = "attach_magic", ![p].fd = name]
  /\ UNCHANGED <<name, made, mem, handle>>

attach_magic(p) ==
  /\ At(p, "attach_magic")
  /\ Access(p, IF Obj(p).magic = 1 THEN Goto(p, "attach_capacity") ELSE Return(p))
  /\ UNCHANGED <<name, made, mem, handle>>

attach_capacity(p) ==
  /\ At(p, "attach_capacity")
  /\ proc' = [proc EXCEPT ![p].pc = "attach_slot_size", ![p].capacity = Obj(p).capacity]
  /\ UNCHANGED <<name, made, mem, handle>>

attach_slot_size(p) ==
  /\ At(p, "attach_slot_size")
  /\ proc' = [proc EXCEPT ![p].pc = "attach_map", ![p].slot_size = Obj(p).slot_size]
  /\ UNCHANGED <<name, made, mem, handle>>

attach_map(p) ==
  /\ At(p, "attach_map")
  /\ Opened(p)
  /\ UNCHANGED <<name, made, mem>>

\* The first or the second mmap fails.
attach_fails(p) ==
  /\ At(p, "attach_magic") \/ At(p, "attach_map")
  /\ Return(p)
  /\ UNCHANGED <<name, made, mem, handle>>

nabd_close(p) ==
  /\ At(p, "idle") /\ handle[p] # None
  /\ handle' = [handle EXCEPT ![p] = None]
  /\ UNCHANGED <<name, made, mem, proc>>

nabd_unlink ==
  /\ name # 0
  /\ name' = 0
  /\ UNCHANGED <<made, mem, proc, handle>>

\* A process dies.
crash(p) ==
  /\ Return(p)
  /\ handle' = [handle EXCEPT ![p] = None]
  /\ UNCHANGED <<name, made, mem>>
-----------------------------------------------------------------------------
(* The counters: nabd_push and nabd_pop of Ring, reduced to the check of a *)
(* counter and its store.                                                  *)

\* Mutant of nabd_push: the full check is off by one.
nabd_push_overrun(p) ==
  /\ p = producer /\ At(p, "idle") /\ handle[p] # None
  /\ LET o == mem[handle[p].obj]
     IN /\ o.head < MaxHead
        /\ o.head - o.tail \in 0 .. handle[p].capacity
        /\ proc' = [proc EXCEPT ![p] = [Resting EXCEPT
             !.pc = "push", !.fd = handle[p].obj, !.pos = o.head]]
  /\ UNCHANGED <<name, made, mem, handle>>

nabd_push(p) ==
  /\ p = producer /\ At(p, "idle") /\ handle[p] # None
  /\ LET o == mem[handle[p].obj]
     IN /\ o.head < MaxHead
        /\ o.head - o.tail \in 0 .. handle[p].capacity - 1
        /\ proc' = [proc EXCEPT ![p] = [Resting EXCEPT
             !.pc = "push", !.fd = handle[p].obj, !.pos = o.head]]
  /\ UNCHANGED <<name, made, mem, handle>>

nabd_pop(p) ==
  /\ p = consumer /\ At(p, "idle") /\ handle[p] # None
  /\ LET o == mem[handle[p].obj]
     IN /\ o.tail # o.head
        /\ proc' = [proc EXCEPT ![p] = [Resting EXCEPT
             !.pc = "pop", !.fd = handle[p].obj, !.pos = o.tail]]
  /\ UNCHANGED <<name, made, mem, handle>>

\* Process p, at pc, stores the object it has open for the last time.
LastWrite(p, pc, o) ==
  /\ At(p, pc)
  /\ mem' = [mem EXCEPT ![proc[p].fd] = o]
  /\ Return(p)
  /\ UNCHANGED <<name, made, handle>>

push_store(p) ==
  LastWrite(p, "push", [Obj(p) EXCEPT !.head = proc[p].pos + 1])

pop_store(p) ==
  LastWrite(p, "pop", [Obj(p) EXCEPT !.tail = proc[p].pos + 1])
-----------------------------------------------------------------------------
(* nabd_diagnose and nabd_recover: use says which call it is, "diagnose",  *)
(* "recover" or "force".  A process that diagnoses needs no handle.        *)

nabd_diagnose(p, use) ==
  /\ At(p, "idle") /\ handle[p] = None /\ name # 0
  /\ proc' = [proc EXCEPT ![p].pc = "diag_magic", ![p].fd = name, ![p].use = use]
  /\ UNCHANGED <<name, made, mem, handle>>

Found(p, v) ==
  IF proc[p].use = "diagnose" THEN Return(p)
  ELSE proc' = [proc EXCEPT ![p].pc = "recover", ![p].state = v]

diag_magic(p) ==
  /\ At(p, "diag_magic")
  /\ Access(p, IF Obj(p).magic = 1 THEN Goto(p, "diag_version")
                                   ELSE Found(p, "CORRUPTED"))
  /\ UNCHANGED <<name, made, mem, handle>>

diag_version(p) ==
  /\ At(p, "diag_version")
  /\ IF Obj(p).version = 1 THEN Goto(p, "diag_head")
     ELSE Found(p, "VERSION_ERR")
  /\ UNCHANGED <<name, made, mem, handle>>

diag_head(p) ==
  /\ At(p, "diag_head")
  /\ proc' = [proc EXCEPT ![p].pc = "diag_tail", ![p].pos = Obj(p).head]
  /\ UNCHANGED <<name, made, mem, handle>>

\* Mutant of diag_tail: head - tail without the comparison.
diag_tail_wraps(p) ==
  /\ At(p, "diag_tail")
  /\ proc' = [proc EXCEPT ![p].pc = "diag_capacity", ![p].pos = proc[p].pos - Obj(p).tail]
  /\ UNCHANGED <<name, made, mem, handle>>

\* The load of the tail; pos becomes diag->pending.
diag_tail(p) ==
  /\ At(p, "diag_tail")
  /\ proc' = [proc EXCEPT
       ![p].pc = "diag_capacity",
       ![p].pos = IF proc[p].pos >= Obj(p).tail THEN proc[p].pos - Obj(p).tail ELSE 0]
  /\ UNCHANGED <<name, made, mem, handle>>

\* Mutant of diag_capacity: a full queue counts as corrupted.
diag_capacity_full(p) ==
  /\ At(p, "diag_capacity")
  /\ Found(p, IF proc[p].pos >= Obj(p).capacity THEN "CORRUPTED"
              ELSE IF proc[p].pos = 0 THEN "EMPTY" ELSE "OK")
  /\ UNCHANGED <<name, made, mem, handle>>

diag_capacity(p) ==
  /\ At(p, "diag_capacity")
  /\ Found(p, IF proc[p].pos > Obj(p).capacity THEN "CORRUPTED"
              ELSE IF proc[p].pos = 0 THEN "EMPTY" ELSE "OK")
  /\ UNCHANGED <<name, made, mem, handle>>

\* What nabd_recover does with the state it found.  nabd_diagnose returns
\* NABD_STATE_INCOMPLETE only with an error code, so that branch is not reached.
recover(p) ==
  /\ At(p, "recover")
  /\ IF proc[p].use = "force" /\ proc[p].state \notin {"OK", "EMPTY"}
     THEN Goto(p, "reset_open") ELSE Return(p)
  /\ UNCHANGED <<name, made, mem, handle>>

\* The name is opened again, and may be bound to another object by now.
reset_open(p) ==
  /\ At(p, "reset_open")
  /\ IF name = 0 THEN Return(p)
     ELSE proc' = [proc EXCEPT ![p].pc = "reset_head", ![p].fd = name]
  /\ UNCHANGED <<name, made, mem, handle>>

reset_head(p) ==
  /\ At(p, "reset_head")
  /\ Access(p, proc' = [proc EXCEPT ![p].pc = "reset_tail", ![p].pos = Obj(p).head])
  /\ UNCHANGED <<name, made, mem, handle>>

reset_tail(p) ==
  LastWrite(p, "reset_tail", [Obj(p) EXCEPT !.tail = proc[p].pos])
-----------------------------------------------------------------------------
(* Specifications *)

InitPCs == {"ftruncate", "mmap", "clear", "magic", "version", "capacity", "slot_size",
            "head", "tail"}

CreatePCs == InitPCs \cup {"open_existing"}

AttachPCs == {"attach_magic", "attach_capacity", "attach_slot_size", "attach_map"}

RecoverPCs == {"diag_magic", "diag_version", "diag_head", "diag_tail", "diag_capacity",
               "recover", "reset_open", "reset_head", "reset_tail"}

Creates(p) ==
  \/ create_fails(p) \/ ftruncate(p) \/ mmap_create(p)
  \/ init_clear(p) \/ init_magic(p) \/ init_version(p) \/ init_capacity(p)
  \/ init_slot_size(p) \/ init_head(p) \/ init_tail(p)

Attaches(p) ==
  \/ attach_magic(p) \/ attach_capacity(p) \/ attach_slot_size(p) \/ attach_map(p)
  \/ attach_fails(p) \/ nabd_close(p)

Counts(p) == nabd_push(p) \/ push_store(p) \/ nabd_pop(p) \/ pop_store(p)

Recovers(p) ==
  \/ diag_magic(p) \/ diag_version(p) \/ diag_head(p) \/ diag_tail(p)
  \/ diag_capacity(p)
  \/ recover(p) \/ reset_open(p) \/ reset_head(p) \/ reset_tail(p)

Steps(p) == Creates(p) \/ Attaches(p) \/ Counts(p) \/ Recovers(p)

Uses == {"diagnose", "recover", "force"}

\* Careful callers: a queue is created when the name is free and nobody is
\* opening, diagnosing or recovering it, and opened once it is created; a
\* creator does not die while the object has no size or its magic and no more.
LifecycleNext ==
  \/ \E p \in Processes : Steps(p)
  \/ /\ name = 0
     /\ \A p \in Processes : proc[p].pc \in {"idle", "push", "pop"}
     /\ \E p \in Processes, g \in Geometries : nabd_open_create(p, g)
  \/ /\ \A p \in Processes : proc[p].pc \notin CreatePCs
     /\ \E p \in Processes :
          nabd_open_attach(p) \/ \E use \in Uses : nabd_diagnose(p, use)
  \/ nabd_unlink
  \/ \E p \in Processes : proc[p].pc \notin CreatePCs \ {"clear", "magic"} /\ crash(p)

LifecycleSpec == LifecycleInit /\ [][LifecycleNext]_lvars

\* Any process opens, creates, diagnoses or dies at any time.
RacingNext ==
  \/ \E p \in Processes : Steps(p) \/ open_existing(p) \/ nabd_open_attach(p) \/ crash(p)
  \/ \E p \in Processes, g \in Geometries : nabd_open_create(p, g)
  \/ \E p \in Processes, use \in Uses : nabd_diagnose(p, use)
  \/ nabd_unlink

RacingSpec == LifecycleInit /\ [][RacingNext]_lvars
-----------------------------------------------------------------------------
(* Properties *)

Object == [size : Nat, magic : {0, 1}, version : {0, 1}, capacity : Nat, slot_size : Nat,
           head : Nat, tail : Nat]

PCs == {"idle", "push", "pop", "sigbus"} \cup CreatePCs \cup AttachPCs \cup RecoverPCs

Call == [pc : PCs, fd : Objects \cup {0}, capacity : Nat, slot_size : Nat, pos : Nat,
         use : Uses \cup {"none"},
         state : {"none", "OK", "EMPTY", "CORRUPTED", "VERSION_ERR"}]

Handle == [obj : Objects, capacity : Nat, slot_size : Nat]

\* Types of the objects, the calls and the handles.
LifecycleTypeOK ==
  /\ name \in Objects \cup {0} /\ made \in Objects \cup {0}
  /\ mem \in [Objects -> Object]
  /\ proc \in [Processes -> Call]
  /\ handle \in [Processes -> Handle \cup {None}]

\* The creation of an object is complete.
Complete(o) ==
  /\ o.magic = 1 /\ o.version = 1 /\ o.capacity # 0 /\ o.slot_size # 0
  /\ o.size = total_size(o.capacity, o.slot_size)

\* Every handle agrees with its object: the geometry nabd_open cached is the one
\* the creator stored, the whole mapping is backed by the object, and no process
\* was killed for reading an object that has no size.
HandleGeometry ==
  \A p \in Processes :
    /\ ~At(p, "sigbus")
    /\ handle[p] # None =>
         LET o == mem[handle[p].obj]
         IN /\ Complete(o)
            /\ handle[p].capacity = o.capacity
            /\ handle[p].slot_size = o.slot_size

\* The queue is neither overrun nor read past its head, whoever closes, crashes,
\* opens again, diagnoses or recovers in between.
CounterOrder ==
  \A o \in Objects : Complete(mem[o]) =>
    mem[o].head - mem[o].tail \in 0 .. mem[o].capacity

\* A step that leaves a working queue alone: the tail advances by the consumer's
\* pops only, and the geometry stays.
Untouched ==
  \A o \in Objects : Complete(mem[o]) =>
    /\ Complete(mem'[o])
    /\ mem'[o].capacity = mem[o].capacity /\ mem'[o].slot_size = mem[o].slot_size
    /\ mem'[o].tail # mem[o].tail =>
         mem'[o].tail = mem[o].tail + 1 /\ At(consumer, "pop")

\* nabd_recover leaves a queue alone that works, even with force, although
\* nabd_diagnose loads the counters one after the other while they move.
HealthyUntouched == [][Untouched]_lvars

\* NABD_CREATE creates a queue if there is none (docs/api_reference.md:30): one
\* that exists keeps its first cache line (types.h:88) and its messages.
CreateIfNotExists ==
  [][\A o \in Objects : Complete(mem[o]) =>
       Complete(mem'[o]) /\ mem'[o].capacity = mem[o].capacity
                         /\ mem'[o].head >= mem[o].head]_lvars

\* A forced recovery that returns NABD_OK leaves a queue that can be opened.
RecoverHeals ==
  [][\A p \in Processes : reset_tail(p) => mem[proc[p].fd].magic = 1]_lvars

(* The inductive invariant of the proofs *)

Creator(p) == proc[p].pc \in InitPCs

\* How far the creation of an object has come when its creator is at pc.
Stage(o, pc, c, s) ==
  /\ o.size = IF pc = "ftruncate" THEN 0 ELSE total_size(c, s)
  /\ o.magic = IF pc \in {"version", "capacity", "slot_size", "head", "tail"} THEN 1 ELSE 0
  /\ o.version = IF pc \in {"capacity", "slot_size", "head", "tail"} THEN 1 ELSE 0
  /\ o.capacity = IF pc \in {"slot_size", "head", "tail"} THEN c ELSE 0
  /\ o.slot_size = IF pc \in {"head", "tail"} THEN s ELSE 0
  /\ o.head = 0 /\ o.tail = 0

\* An object other than the one being created is complete if it has its magic.
ObjectInv ==
  /\ name \in {0, made}
  /\ \A o \in Objects :
       /\ o > made => mem[o] = Blank
       /\ mem[o].head - mem[o].tail \in 0 .. mem[o].capacity
       /\ mem[o].magic = 0 => mem[o].head = 0 /\ mem[o].tail = 0
       /\ mem[o].magic = 1 =>
            Complete(mem[o]) \/ (o = made /\ \E p \in Processes : Creator(p))
  /\ name # 0 => mem[name].size # 0 \/ \E p \in Processes : Creator(p)

\* A creator is alone with its object.
Creation(p) ==
  Creator(p) =>
    /\ proc[p].fd = made /\ made # 0 /\ proc[p].capacity # 0 /\ proc[p].slot_size # 0
    /\ Stage(mem[made], proc[p].pc, proc[p].capacity, proc[p].slot_size)
    /\ \A q \in Processes : /\ handle[q] # None => handle[q].obj # made
                            /\ q # p => proc[q].pc \in {"idle", "push", "pop"}

\* A handle, and the calls made with it.
Usage(p) ==
  /\ handle[p] # None =>
       /\ proc[p].pc \in {"idle", "push", "pop"}
       /\ handle[p].obj \in 1 .. made
       /\ Complete(mem[handle[p].obj])
       /\ handle[p].capacity = mem[handle[p].obj].capacity
       /\ handle[p].slot_size = mem[handle[p].obj].slot_size
  /\ proc[p].pc \in {"push", "pop"} => handle[p] # None /\ proc[p].fd = handle[p].obj
  /\ proc[p].pc = "push" =>
       /\ p = producer /\ proc[p].pos = Obj(p).head
       /\ Obj(p).head - Obj(p).tail < Obj(p).capacity
  /\ proc[p].pc = "pop" =>
       p = consumer /\ proc[p].pos = Obj(p).tail /\ Obj(p).tail < Obj(p).head

\* What an opening, diagnosing or recovering call r knows of its object o.
Sees(r, o) ==
  /\ r.pc \notin {"sigbus", "open_existing"}
  /\ r.pc \in AttachPCs \cup RecoverPCs => r.fd = made /\ made # 0 /\ o.size # 0
  /\ r.pc \in {"attach_capacity", "attach_slot_size", "attach_map", "diag_version",
               "diag_head", "diag_tail", "diag_capacity"} => o.magic = 1
  /\ r.pc \in {"attach_slot_size", "attach_map"} => r.capacity = o.capacity
  /\ r.pc = "attach_map" => r.slot_size = o.slot_size
  /\ r.pc = "diag_tail" => r.pos <= o.head
  /\ r.pc = "diag_capacity" => r.pos <= o.capacity
  /\ r.pc = "recover" => r.state \in {"OK", "EMPTY"} \/ o.magic = 0
  /\ r.pc \in {"reset_open", "reset_head", "reset_tail"} => o.magic = 0
  /\ r.pc = "reset_tail" => r.pos = 0

View(p) == Sees(proc[p], Obj(p))

LifeInv ==
  /\ LifecycleTypeOK
  /\ ObjectInv
  /\ \A p \in Processes : Creation(p) /\ Usage(p) /\ View(p)
=============================================================================

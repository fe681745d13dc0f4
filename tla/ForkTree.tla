------------------------------ MODULE ForkTree ------------------------------
(***************************************************************************)
(* The tree of processes under Dune: who owns which VM, which descriptors  *)
(* name it, and on which stacks the host loops run (src/dune/dune.c).  A   *)
(* child without CLONE_VM lives in a copy of the memory, and KVM refuses   *)
(* the parent's VM there: it makes one of its own before it enters the     *)
(* guest.  A child with CLONE_VM runs in a vcpu its parent set up.         *)
(*                                                                         *)
(* An address space makes exactly one VM, so both have the name of the     *)
(* task they began with, as has a descriptor table.  vcpu_pool is taken in *)
(* one step here: its races are DuneVm's.                                  *)
(***************************************************************************)
EXTENDS Integers, FiniteSets

CONSTANTS
  Task,           \* all tasks that ever live, positive
  Root,           \* the one that calls dune_enter
  KVM_MAX_VCPUS,  \* size of vcpu_pool
  MaxFd,          \* RLIMIT_NOFILE: descriptors are 0 .. MaxFd - 1
  MaxFiles,       \* bound: how many files of its own a table may hold
  MaxPages,       \* bound: how many host stacks fit into an address space
  Kinds,          \* the clones the guest makes
  HeapLocks,      \* whether threads take the C library's heap lock
  Exhaustion      \* whether calloc, mmap, clone and KVM's ioctls may fail with
                  \* descriptors, pages and tasks to spare

ForkKinds == {"fork_old", "fork_new", "fork_files"} \* new stack; CLONE_FILES
VmKinds   == {"thread", "process"}  \* CLONE_VM: with the files, or without
Slot      == 0 .. KVM_MAX_VCPUS - 1
Fd        == 0 .. MaxFd - 1
NoTask    == 0
NoSlot    == -1
NoFd      == -1
NoStack   == 0
MapFailed == -1

ASSUME TaskAssumption ==
  /\ Task \subseteq Nat \ {0} /\ Root \in Task
  /\ KVM_MAX_VCPUS \in Nat \ {0} /\ MaxFd \in Nat 
  /\ MaxFiles \in Nat /\ MaxPages \in Nat
ASSUME KindsAssumption == Kinds \subseteq ForkKinds \union VmKinds
ASSUME ForkSwitches == HeapLocks \in BOOLEAN /\ Exhaustion \in BOOLEAN

VARIABLES
  pc,      \* where the task is
  job,     \* what it sets up a vcpu for: "enter", "boot" (a forked child), or
           \* the clone it performs; "none" in the guest
  mm,      \* the address space it lives in
  files,   \* its descriptor table
  grp,     \* its thread group
  slot,    \* the vcpu it runs, ...
  new,     \* the one it sets up,
  stack,   \* the stack its host_loop runs on
  stk,     \* and the one it prepares
  table,   \* per descriptor table: what the descriptors name
  pool,    \* per address space: vcpu_pool, as claimed or not, and vcpu_fd
  pages,   \* per address space: how many host stacks were mapped
  heap     \* per address space: who holds the heap lock

taskVars == <<job, mm, files, grp, slot, stack>>
vars == <<pc, taskVars, new, stk, table, pool, pages, heap>>

\* What a descriptor names.
Nothing    == <<"nothing">>
File       == <<"file">>
Dev(m)     == <<"kvm", m>>
Vm(m)      == <<"vm", m>>
Vcpu(m, s) == <<"vcpu", m, s>>

FreeSlot   == [claimed |-> FALSE, fd |-> NoFd]
EmptyPool  == [s \in Slot |-> FreeSlot]
EmptyTable == [n \in Fd |-> Nothing]

Live     == {t \in Task : pc[t] \notin {"unborn", "dead"}}
Group(t) == {u \in Live : grp[u] = grp[t]}

Init ==
  /\ pc    = [t \in Task |-> IF t = Root THEN "calloc_vm" ELSE "unborn"]
  /\ job   = [t \in Task |-> IF t = Root THEN "enter" ELSE "none"]
  /\ mm    = [t \in Task |-> t]
  /\ files = [t \in Task |-> t]
  /\ grp   = [t \in Task |-> t]
  /\ slot  = [t \in Task |-> NoSlot]
  /\ new   = [t \in Task |-> NoSlot]
  /\ stack = [t \in Task |-> NoStack]
  /\ stk   = [t \in Task |-> NoStack]
  /\ table = [t \in Task |-> EmptyTable]
  /\ pool  = [t \in Task |-> EmptyPool]
  /\ pages = [t \in Task |-> 0]
  /\ heap  = [t \in Task |-> NoTask]

-----------------------------------------------------------------------------
Transition(t, from, to) ==
  /\ pc[t] = from
  /\ pc' = [pc EXCEPT ![t] = to]

End(S) ==
  /\ pc' = [t \in Task |-> IF t \in S THEN "dead" ELSE pc[t]]
  /\ UNCHANGED <<taskVars, new, stk, table, pool, pages, heap>>

\* die(), a null pointer or a bad stack: the process ends.
Die(t) == End(Group(t))

\* A new descriptor of t is the lowest that is free.
Full(t) == \A n \in Fd : table[files[t]][n] # Nothing
Opens(t, o, n) ==
  /\ table[files[t]][n] = Nothing
  /\ \A k \in Fd : k < n => table[files[t]][k] # Nothing
  /\ table' = [table EXCEPT ![files[t]][n] = o]

\* What an ioctl of t on the vcpu_fd of slot s reaches: the vcpu r of its VM.
Reaches(t, s, r) ==
  LET n == pool[mm[t]][s].fd
  IN  n \in Fd /\ table[files[t]][n] = Vcpu(mm[t], r)

-----------------------------------------------------------------------------
(* The guest.                                                              *)

GuestOpens(t, n) ==
  /\ pc[t] = "guest" /\ Opens(t, File, n)
  /\ Cardinality({k \in Fd : table[files[t]][k] = File}) < MaxFiles
  /\ UNCHANGED <<pc, taskVars, new, stk, pool, pages, heap>>

GuestCloses(t, n) ==
  /\ pc[t] = "guest" /\ table[files[t]][n] = File
  /\ table' = [table EXCEPT ![files[t]][n] = Nothing]
  /\ UNCHANGED <<pc, taskVars, new, stk, pool, pages, heap>>

\* Guest and host share the C library: malloc, and fork in a program with
\* threads, hold its heap lock.
GuestLocksHeap(t) ==
  /\ HeapLocks /\ pc[t] = "guest" /\ heap[mm[t]] = NoTask
  /\ heap' = [heap EXCEPT ![mm[t]] = t]
  /\ UNCHANGED <<pc, taskVars, new, stk, table, pool, pages>>

GuestUnlocksHeap(t) ==
  /\ pc[t] = "guest" /\ heap[mm[t]] = t
  /\ heap' = [heap EXCEPT ![mm[t]] = NoTask]
  /\ UNCHANGED <<pc, taskVars, new, stk, table, pool, pages>>

\* SYS_CLONE: the switch of emulate_fork.
Call(t, k) ==
  /\ k \in VmKinds => heap[mm[t]] # t
  /\ Transition(t, "guest", CASE k \in VmKinds   -> "alloc"
                              [] k = "fork_new"  -> "stack"
                              [] OTHER           -> "clone")
  /\ job' = [job EXCEPT ![t] = k]
  /\ UNCHANGED <<mm, files, grp, slot, stack, new, stk, table, pool, pages, heap>>

\* SYS_EXIT frees the vcpu; exit_group does not.
Exit(t) ==
  /\ pc[t] = "guest" /\ heap[mm[t]] # t
  /\ pc'   = [pc EXCEPT ![t] = "dead"]
  /\ pool' = [pool EXCEPT ![mm[t]][slot[t]].claimed = FALSE]
  /\ UNCHANGED <<taskVars, new, stk, table, pages, heap>>

ExitGroup(t) == pc[t] = "guest" /\ heap[mm[t]] # t /\ End(Group(t))

-----------------------------------------------------------------------------
(* kvm_init_vm_with_one_cpu: the root's in dune_enter, a child's in dup_vm. *)

CallocVm(t) ==
  /\ Transition(t, "calloc_vm", "open") /\ heap[mm[t]] = NoTask
  /\ UNCHANGED <<taskVars, new, stk, table, pool, pages, heap>>

OpenKvm(t, n) ==
  /\ Transition(t, "open", "create_vm") /\ Opens(t, Dev(mm[t]), n)
  /\ UNCHANGED <<taskVars, new, stk, pool, pages, heap>>

CreateVm(t, n) ==
  /\ Transition(t, "create_vm", "alloc") /\ Opens(t, Vm(mm[t]), n)
  /\ UNCHANGED <<taskVars, new, stk, pool, pages, heap>>

\* (variant) Every error of KVM_CREATE_VM is final.
CreateVmDies(t) == pc[t] = "create_vm" /\ Die(t)

\* A signal makes KVM_CREATE_VM fail with EINTR ...
CreateVmInterrupted(t) ==
  /\ Transition(t, "create_vm", "eintr")
  /\ UNCHANGED <<taskVars, new, stk, table, pool, pages, heap>>

\* (variant) The bring-up of the VM begins anew.
CreateVmReopens(t) ==
  /\ Transition(t, "eintr", "open")
  /\ UNCHANGED <<taskVars, new, stk, table, pool, pages, heap>>

\* ... and it is tried again.
CreateVmAgain(t) ==
  /\ Transition(t, "eintr", "create_vm")
  /\ UNCHANGED <<taskVars, new, stk, table, pool, pages, heap>>

-----------------------------------------------------------------------------
(* kvm_alloc_vcpu, for the first vcpu of a VM and for a child with CLONE_VM. *)

\* (variant) A slot whose vcpu exists is set up like a new one.
AllocVcpuAnew(t, s) ==
  /\ Transition(t, "alloc", "calloc_cpu")
  /\ ~pool[mm[t]][s].claimed /\ \A r \in Slot : r < s => pool[mm[t]][r].claimed
  /\ pool' = [pool EXCEPT ![mm[t]][s].claimed = TRUE]
  /\ new'  = [new EXCEPT ![t] = s]
  /\ UNCHANGED <<taskVars, stk, table, pages, heap>>

AllocVcpu(t, s) ==
  /\ Transition(t, "alloc", IF pool[mm[t]][s].fd = NoFd THEN "calloc_cpu" ELSE "init")
  /\ ~pool[mm[t]][s].claimed /\ \A r \in Slot : r < s => pool[mm[t]][r].claimed
  /\ pool' = [pool EXCEPT ![mm[t]][s].claimed = TRUE]
  /\ new'  = [new EXCEPT ![t] = s]
  /\ UNCHANGED <<taskVars, stk, table, pages, heap>>

\* (variant) A full pool is scanned again until a vcpu is freed.
NoMoreVcpuScans(t) ==
  /\ pc[t] = "alloc" /\ \A s \in Slot : pool[mm[t]][s].claimed
  /\ UNCHANGED vars

NoMoreVcpu(t) ==
  /\ pc[t] = "alloc" /\ \A s \in Slot : pool[mm[t]][s].claimed
  /\ Die(t)

CallocCpu(t) ==
  /\ Transition(t, "calloc_cpu", "create_vcpu") /\ heap[mm[t]] = NoTask
  /\ UNCHANGED <<taskVars, new, stk, table, pool, pages, heap>>

CreateVcpu(t, n) ==
  /\ Transition(t, "create_vcpu", "init") /\ Opens(t, Vcpu(mm[t], new[t]), n)
  /\ pool' = [pool EXCEPT ![mm[t]][new[t]].fd = n]
  /\ UNCHANGED <<taskVars, new, stk, pages, heap>>

\* The vcpu is set up: t calls host_loop with it.
Enters(t) ==
  /\ slot' = [slot EXCEPT ![t] = new[t]]
  /\ new'  = [new EXCEPT ![t] = NoSlot]
  /\ job'  = [job EXCEPT ![t] = "none"]

\* kvm_launch's ioctls, or init_child_thread_info's.  A child forked by
\* fork_new has its stack already; one forked by fork_old has its parent's.
InitVcpu(t) ==
  /\ Transition(t, "init", IF job[t] = "boot" THEN "guest" ELSE "stack")
  /\ \E r \in Slot : Reaches(t, new[t], r)
  /\ IF job[t] = "boot" THEN Enters(t) ELSE UNCHANGED <<job, slot, new>>
  /\ UNCHANGED <<mm, files, grp, stack, stk, table, pool, pages, heap>>

\* No vcpu, or one of an address space that is not t's: EBADF, ENOTTY, EIO.
InitRefused(t) ==
  /\ pc[t] = "init" /\ \A r \in Slot : ~Reaches(t, new[t], r)
  /\ Die(t)

\* No descriptor, no memory.
SetUpFails(t) ==
  /\ \/ pc[t] \in {"open", "create_vm", "create_vcpu"} /\ Full(t)
     \/ /\ Exhaustion
        /\ pc[t] \in {"calloc_vm", "open", "create_vm", "calloc_cpu", "create_vcpu"}
  /\ Die(t)

-----------------------------------------------------------------------------
(* mmap_one_page for a host stack, switch_stack and the clone.             *)

MmapStack(t) ==
  /\ Transition(t, "stack", "args") /\ pages[mm[t]] < MaxPages
  /\ pages' = [pages EXCEPT ![mm[t]] = @ + 1]
  /\ stk'   = [stk EXCEPT ![t] = pages[mm[t]] + 1]
  /\ UNCHANGED <<taskVars, new, table, pool, heap>>

\* mmap_pages lets MAP_FAILED through: it looks for NULL.
MmapFails(t) ==
  /\ Transition(t, "stack", "args") /\ (Exhaustion \/ pages[mm[t]] = MaxPages)
  /\ stk' = [stk EXCEPT ![t] = MapFailed]
  /\ UNCHANGED <<taskVars, new, table, pool, pages, heap>>

\* The first store to the new stack: host_loop's frame ...
SwitchStack(t) ==
  /\ job[t] = "enter" /\ stk[t] # MapFailed /\ Transition(t, "args", "guest")
  /\ stack' = [stack EXCEPT ![t] = stk[t]]
  /\ stk'   = [stk EXCEPT ![t] = NoStack]
  /\ Enters(t)
  /\ UNCHANGED <<mm, files, grp, table, pool, pages, heap>>

\* (variant) A stack that was not mapped takes the store.
WriteArgsUnmapped(t) ==
  /\ job[t] # "enter" /\ Transition(t, "args", "clone")
  /\ UNCHANGED <<taskVars, new, stk, table, pool, pages, heap>>

\* ... or the child_stack_para of a clone.
WriteArgs(t) ==
  /\ job[t] # "enter" /\ stk[t] # MapFailed /\ Transition(t, "args", "clone")
  /\ UNCHANGED <<taskVars, new, stk, table, pool, pages, heap>>

BadStack(t) == pc[t] = "args" /\ stk[t] = MapFailed /\ Die(t)

\* Tasks are named in the order they are born.
Born(t, u) == pc[t] = "clone" /\ pc[u] = "unborn" /\ \A w \in Task : w < u => pc[w] # "unborn"

\* The parent is done with its clone.
Cloned(t) ==
  /\ new' = [new EXCEPT ![t] = NoSlot]
  /\ stk' = [stk EXCEPT ![t] = NoStack]

\* The stack the child of __do_simulate_clone goes on on.
\* (variant) The parent's.
ParentsStack(t) == stack[t]
ChildStack(t)   == stk[t]

\* CLONE_VM: the child runs the vcpu that was set up, on the stack prepared.
CloneVm(t, u) ==
  /\ Born(t, u) /\ job[t] \in VmKinds
  /\ pc'    = [pc EXCEPT ![t] = "guest", ![u] = "guest"]
  /\ mm'    = [mm EXCEPT ![u] = mm[t]]
  /\ files' = [files EXCEPT ![u] = IF job[t] = "thread" THEN files[t] ELSE u]
  /\ grp'   = [grp EXCEPT ![u] = IF job[t] = "thread" THEN grp[t] ELSE u]
  /\ table' = [table EXCEPT ![u] = IF job[t] = "thread" THEN @ ELSE table[files[t]]]
  /\ slot'  = [slot EXCEPT ![u] = new[t]]
  /\ stack' = [stack EXCEPT ![u] = ChildStack(t)]
  /\ job'   = [job EXCEPT ![t] = "none"]
  /\ Cloned(t)
  /\ UNCHANGED <<pool, pages, heap>>

\* The pool a forked child starts from: kvm_init_vm_with_one_cpu makes one.
\* (variant) It takes the copy of its parent's.
PoolOfParent(t) == pool[mm[t]]
PoolOfChild(t)  == EmptyPool

\* No CLONE_VM: the memory is copied, and its locks as they are.  The heap
\* lock is the child's own if the thread that forked held it.
Fork(t, u) ==
  /\ Born(t, u) /\ job[t] \in ForkKinds
  /\ pc'    = [pc EXCEPT ![t] = "guest", ![u] = "calloc_vm"]
  /\ job'   = [job EXCEPT ![t] = "none", ![u] = "boot"]
  /\ files' = [files EXCEPT ![u] = IF job[t] = "fork_files" THEN files[t] ELSE u]
  /\ table' = [table EXCEPT ![u] = IF job[t] = "fork_files" THEN @ ELSE table[files[t]]]
  /\ pool'  = [pool EXCEPT ![u] = PoolOfChild(t)]
  /\ stack' = [stack EXCEPT ![u] = IF stk[t] = NoStack THEN stack[t] ELSE stk[t]]
  /\ pages' = [pages EXCEPT ![u] = pages[mm[t]]]
  /\ heap'  = [heap EXCEPT ![u] = IF heap[mm[t]] = t THEN u ELSE heap[mm[t]]]
  /\ Cloned(t)
  /\ UNCHANGED <<mm, grp, slot>>

\* (variant) What was prepared for the child is kept.
CloneFailsKeeps(t) ==
  /\ Exhaustion \/ \A u \in Task : pc[u] # "unborn"
  /\ Transition(t, "clone", "guest")
  /\ job' = [job EXCEPT ![t] = "none"]
  /\ UNCHANGED <<mm, files, grp, slot, stack, new, stk, table, pool, pages, heap>>

\* The host's clone fails, at the latest when there are as many tasks as can
\* be: the vcpu stays claimed, the stack mapped.
CloneFails(t) ==
  /\ Exhaustion \/ \A u \in Task : pc[u] # "unborn"
  /\ Transition(t, "clone", "guest")
  /\ job' = [job EXCEPT ![t] = "none"]
  /\ Cloned(t)
  /\ UNCHANGED <<mm, files, grp, slot, stack, table, pool, pages, heap>>

-----------------------------------------------------------------------------
GuestStep(t) ==
  \/ \E n \in Fd : GuestOpens(t, n) \/ GuestCloses(t, n)
  \/ GuestLocksHeap(t) \/ GuestUnlocksHeap(t)
  \/ \E k \in Kinds : Call(t, k)
  \/ Exit(t) \/ ExitGroup(t)

SetUpStep(t) ==
  \/ CallocVm(t) \/ (\E n \in Fd : OpenKvm(t, n) \/ CreateVm(t, n))
  \/ CreateVmInterrupted(t) \/ CreateVmAgain(t)
  \/ (\E s \in Slot : AllocVcpu(t, s)) \/ NoMoreVcpu(t)
  \/ CallocCpu(t) \/ (\E n \in Fd : CreateVcpu(t, n))
  \/ InitVcpu(t) \/ InitRefused(t) \/ SetUpFails(t)

CloneStep(t) ==
  \/ MmapStack(t) \/ MmapFails(t) \/ SwitchStack(t) \/ WriteArgs(t) \/ BadStack(t)
  \/ \E u \in Task : CloneVm(t, u) \/ Fork(t, u)
  \/ CloneFails(t)

Next == \E t \in Task : GuestStep(t) \/ SetUpStep(t) \/ CloneStep(t)

Spec == Init /\ [][Next]_vars

CreateVmAnswered(t) == pc[t] = "create_vm" /\ (SetUpFails(t) \/ \E n \in Fd : CreateVm(t, n))

\* The scheduler runs every task, the heap lock is handed to whoever waits,
\* its holders give it back, and signals do not hit every KVM_CREATE_VM.
Fairness ==
  \A t \in Task :
    /\ WF_vars(SetUpStep(t) \/ CloneStep(t))
    /\ WF_vars(GuestUnlocksHeap(t))
    /\ SF_vars(CallocVm(t) \/ CallocCpu(t) \/ CreateVmAnswered(t))

FairSpec == Spec /\ Fairness

-----------------------------------------------------------------------------
(* Properties.                                                             *)

Boot   == {"calloc_vm", "open", "create_vm", "eintr"}
Making == {"alloc", "calloc_cpu", "create_vcpu", "init"}
Labels == {"unborn", "dead", "guest", "stack", "args", "clone"} \union Boot \union Making
Object == {Nothing, File} \union {Dev(m) : m \in Task} \union {Vm(m) : m \in Task}
            \union {Vcpu(m, s) : m \in Task, s \in Slot}

\* Types; a task in the guest is done with all it prepared, and runs a vcpu.
TypeOK ==
  /\ pc \in [Task -> Labels]
  /\ job \in [Task -> {"none", "enter", "boot"} \union ForkKinds \union VmKinds]
  /\ mm \in [Task -> Task] /\ files \in [Task -> Task] /\ grp \in [Task -> Task]
  /\ slot \in [Task -> Slot \union {NoSlot}] /\ new \in [Task -> Slot \union {NoSlot}]
  /\ stack \in [Task -> Nat \union {MapFailed}] /\ stk \in [Task -> Nat \union {MapFailed}]
  /\ table \in [Task -> [Fd -> Object]]
  /\ pool \in [Task -> [Slot -> [claimed : BOOLEAN, fd : Fd \union {NoFd}]]]
  /\ pages \in [Task -> Nat] /\ heap \in [Task -> Task \union {NoTask}]
  /\ \A t \in Task : pc[t] = "guest" =>
       job[t] = "none" /\ slot[t] \in Slot /\ new[t] = NoSlot /\ stk[t] = NoStack

\* "KVM disallow fork() and similar games when using a VM" (Readme.md:67): a
\* task sets up and runs no vcpu but its own slot's, of its own address space,
\* as long as all tasks of that address space have one descriptor table.
OneTable(m) == \A t, u \in Task : mm[t] = m /\ mm[u] = m => files[t] = files[u]
OwnVcpu ==
  \A t \in Task : OneTable(mm[t]) =>
    /\ pc[t] = "guest" => Reaches(t, slot[t], slot[t])
    /\ pc[t] = "init" => Reaches(t, new[t], new[t])

\* Two host loops of one address space never run on one stack, and no clone
\* prepares a stack that is in use.
OwnStack ==
  \A t, u \in Live :
    t # u /\ mm[t] = mm[u] =>
      /\ stack[t] # stack[u]
      /\ stk[t] > 0 => stk[t] \notin {stack[u], stk[u]}

\* die("mmap_one_page") (interface.h:71) comes too late, but the store to the
\* new stack ends the process: no host loop runs on a stack not mapped.
StackMapped == \A t \in Live : stack[t] # MapFailed

\* However many of its ancestors' descriptors a process inherits, it has no two
\* of one /dev/kvm, VM or vcpu: none is ever made twice ("dune will consume 3
\* file descriptor for kvm", Readme.md:50).
OneDescriptor ==
  \A f \in Task, k, n \in Fd :
    table[f][k] = table[f][n] /\ table[f][k] \notin {Nothing, File} => k = n

\* A child forked while nobody holds the C library's heap lock enters the
\* guest, however often signals interrupt KVM_CREATE_VM (dune.c:211), if it
\* has the descriptors that it needs.
ForkChildRuns ==
  \A t \in Task :
    pc[t] = "calloc_vm" /\ heap[mm[t]] = NoTask
      ~> pc[t] = "guest" \/ (pc[t] = "dead" /\ Full(t))

\* A clone comes back to the guest that made it: it waits for the heap lock at
\* most as long as other threads hold it.
CloneReturns ==
  \A t \in Task : job[t] \in Kinds ~> job[t] = "none" \/ pc[t] = "dead"
=============================================================================

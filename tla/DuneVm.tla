------------------------------- MODULE DuneVm -------------------------------
(***************************************************************************)
(* The threads of one Dune virtual machine (src/dune/dune.c and            *)
(* src/dune/loongarch/).  Every guest thread is a host task that loops in  *)
(* host_loop: it enters the guest with KVM_RUN, performs the system call   *)
(* the guest left in the vcpu's syscall_parameter block, and enters again. *)
(* A clone with CLONE_VM takes a vcpu from vcpu_pool (or creates one),     *)
(* fills it in and clones the host task; SYS_EXIT gives the vcpu back.     *)
(*                                                                         *)
(* One step is one access to state that other tasks can see, or one system *)
(* call.  A call is reduced to what it does to the threads: "sys" stands   *)
(* for all calls that only compute an answer (fork among them: its child   *)
(* lives in another VM).  The tasks share their descriptor table.          *)
(***************************************************************************)
EXTENDS Integers, FiniteSets

CONSTANTS
  Thread,         \* task ids (pids), positive
  MainThread,     \* the task that called dune_enter
  KVM_MAX_VCPUS,  \* size of vcpu_pool
  Calls,          \* the system calls the guest makes
  Flags,          \* the clones that a word which is no clone flags may ask for
  Errno,          \* errors of a plain call or an execve
  CloneErrno,     \* errors of the host's clone ({}: it never fails)
  Signals,        \* whether tasks get signals
  Faults,         \* whether the guest may access an unmapped address
  Exhaustion,     \* whether calloc, mmap and KVM_CREATE_VCPU may fail
  PromptExit      \* whether an exiting task wins the race for its vcpu

Clones   == {"clone_thread", "clone_process"}  \* CLONE_VM with, without CLONE_THREAD
AllCalls == {"sys", "kexec_load", "exit", "exit_group", "execve"} \union Clones
Slot     == 0 .. KVM_MAX_VCPUS - 1
NoSlot   == -1
NoThread == 0
NoReq    == [nr |-> "none", by |-> NoThread]

ASSUME ThreadAssumption ==
  /\ Thread \subseteq Nat \ {0} /\ MainThread \in Thread
ASSUME VcpusAssumption == KVM_MAX_VCPUS \in Nat \ {0}
ASSUME CallsAssumption ==
  /\ Calls \subseteq AllCalls /\ Flags \subseteq Clones
  /\ Errno \subseteq Nat \ {0} /\ CloneErrno \subseteq Nat \ {0}
ASSUME SwitchAssumption ==
  /\ Signals \in BOOLEAN /\ Faults \in BOOLEAN
  /\ Exhaustion \in BOOLEAN /\ PromptExit \in BOOLEAN

VARIABLES
  \* struct kvm_vm
  lock,     \* kvm->lock is held
  valid,    \* vcpu_pool[i].valid
  ptr,      \* vcpu_pool[i].vcpu: "null", "fresh" (calloc'ed), "ready" (usable)
  created,  \* the vcpu ids KVM knows
  \* host tasks
  pc,       \* where the task is in host_loop
  vcpu,     \* host_loop's argument
  child,    \* the vcpu being set up for a clone
  sysno,    \* host_loop's local of that name
  req,      \* the registers of the host's syscall instruction
  ret,      \* its answer
  grp,      \* the thread group, named by its leader
  \* struct kvm_cpu, and the vcpu in KVM
  param,    \* syscall_parameter: word 7, whose words 0..6 (nobody's, once word 0
            \* has been overwritten), and word 0 as answer
  reason,   \* kvm_run->exit_reason
  who,      \* the guest thread whose registers the vcpu holds
  at,       \* "user", or "trap": after the HYPERCALL of the syscall handler
  a0        \* the guest's result register

poolVars == <<lock, valid, ptr, created>>
hostVars == <<pc, vcpu, child, sysno, req, ret, grp>>
cpuVars  == <<param, reason, who, at, a0>>
vars     == <<poolVars, hostVars, cpuVars>>

Labels ==
  {"none", "run", "guest", "exited", "dispatch", "call", "args", "syscall",
   "store", "free_lock", "free_clear", "free_unlock", "alloc_lock",
   "alloc_scan", "alloc_unlock", "full", "calloc", "create", "mmap", "init",
   "clone", "store_clone"}

Live     == {t \in Thread : pc[t] # "none"}
Group(t) == {u \in Live : grp[u] = grp[t]}

Init ==
  /\ lock    = FALSE
  /\ valid   = [s \in Slot |-> s = 0]
  /\ ptr     = [s \in Slot |-> IF s = 0 THEN "ready" ELSE "null"]
  /\ created = {0}
  /\ pc      = [t \in Thread |-> IF t = MainThread THEN "run" ELSE "none"]
  /\ vcpu    = [t \in Thread |-> IF t = MainThread THEN 0 ELSE NoSlot]
  /\ child   = [t \in Thread |-> NoSlot]
  /\ sysno   = [t \in Thread |-> "none"]
  /\ req     = [t \in Thread |-> NoReq]
  /\ ret     = [t \in Thread |-> 0]
  /\ grp     = [t \in Thread |-> t]
  /\ param   = [s \in Slot |-> [nr |-> "none", by |-> NoThread, a0 |-> 0]]
  /\ reason  = [s \in Slot |-> "none"]
  /\ who     = [s \in Slot |-> IF s = 0 THEN MainThread ELSE NoThread]
  /\ at      = [s \in Slot |-> "user"]
  /\ a0      = [s \in Slot |-> 0]

-----------------------------------------------------------------------------
Transition(t, from, to) ==
  /\ pc[t] = from
  /\ pc' = [pc EXCEPT ![t] = to]

\* (variant) A task that ends keeps its vcpu.
EndKeepsVcpu(S) ==
  /\ pc' = [t \in Thread |-> IF t \in S THEN "none" ELSE pc[t]]
  /\ UNCHANGED <<vcpu, child, sysno, req, ret, grp, poolVars, cpuVars>>

\* The kernel ends the tasks of S; what they held in the VM stays as it is.
End(S) ==
  /\ pc'    = [t \in Thread |-> IF t \in S THEN "none" ELSE pc[t]]
  /\ vcpu'  = [t \in Thread |-> IF t \in S THEN NoSlot ELSE vcpu[t]]
  /\ child' = [t \in Thread |-> IF t \in S THEN NoSlot ELSE child[t]]
  /\ sysno' = [t \in Thread |-> IF t \in S THEN "none" ELSE sysno[t]]
  /\ req'   = [t \in Thread |-> IF t \in S THEN NoReq ELSE req[t]]
  /\ ret'   = [t \in Thread |-> IF t \in S THEN 0 ELSE ret[t]]
  /\ grp'   = [t \in Thread |-> IF t \in S THEN t ELSE grp[t]]
  /\ UNCHANGED <<poolVars, cpuVars>>

\* die() and a failed assert end the whole process.
Die(t) == End(Group(t))

-----------------------------------------------------------------------------
(* The guest.                                                              *)

\* KVM_RUN: one task at a time runs a vcpu (KVM's vcpu->mutex).
KvmRun(t) ==
  /\ Transition(t, "run", "guest")
  /\ \A u \in Thread : pc[u] = "guest" => vcpu[u] # vcpu[t]
  /\ UNCHANGED <<vcpu, child, sysno, req, ret, grp, poolVars, cpuVars>>

\* (variant) KSCRATCH5 points every vcpu at the block of vcpu 0.
GuestSyscallSharedBlock(t, k) ==
  LET v == vcpu[t] IN
  /\ Transition(t, "guest", "exited")
  /\ at[v] = "user"
  /\ param'  = [param EXCEPT ![0].nr = k, ![0].by = who[v]]
  /\ reason' = [reason EXCEPT ![v] = "hypercall"]
  /\ at'     = [at EXCEPT ![v] = "trap"]
  /\ a0'     = [a0 EXCEPT ![v] = 0]
  /\ UNCHANGED <<vcpu, child, sysno, req, ret, grp, who, poolVars>>

\* The guest makes call k: its syscall handler stores the arguments, clears
\* a0 and leaves the guest by HYPERCALL.
GuestSyscall(t, k) ==
  LET v == vcpu[t] IN
  /\ Transition(t, "guest", "exited")
  /\ at[v] = "user"
  /\ param'  = [param EXCEPT ![v].nr = k, ![v].by = who[v]]
  /\ reason' = [reason EXCEPT ![v] = "hypercall"]
  /\ at'     = [at EXCEPT ![v] = "trap"]
  /\ a0'     = [a0 EXCEPT ![v] = 0]
  /\ UNCHANGED <<vcpu, child, sysno, req, ret, grp, who, poolVars>>

\* The handler loads word 0 into a0 and returns behind the syscall.
GuestReturn(t) ==
  LET v == vcpu[t] IN
  /\ pc[t] = "guest" /\ at[v] = "trap"
  /\ at' = [at EXCEPT ![v] = "user"]
  /\ a0' = [a0 EXCEPT ![v] = param[v].a0]
  /\ UNCHANGED <<hostVars, poolVars, param, reason, who>>

\* A signal for the task makes KVM_RUN return with KVM_EXIT_INTR.
GuestInterrupted(t) ==
  /\ Signals /\ Transition(t, "guest", "exited")
  /\ reason' = [reason EXCEPT ![vcpu[t]] = "intr"]
  /\ UNCHANGED <<vcpu, child, sysno, req, ret, grp, param, who, at, a0, poolVars>>

\* The guest accesses an address the host has not mapped.
GuestFault(t) ==
  /\ Transition(t, "guest", "exited")
  /\ Faults /\ at[vcpu[t]] = "user"
  /\ reason' = [reason EXCEPT ![vcpu[t]] = "other"]
  /\ UNCHANGED <<vcpu, child, sysno, req, ret, grp, param, who, at, a0, poolVars>>

-----------------------------------------------------------------------------
(* host_loop.                                                              *)

ReadSysno(t) ==
  /\ Transition(t, "exited", "dispatch")
  /\ sysno' = [sysno EXCEPT ![t] = param[vcpu[t]].nr]
  /\ UNCHANGED <<vcpu, child, req, ret, grp, poolVars, cpuVars>>

\* (variant) KVM_EXIT_INTR is taken for a hypercall.
DispatchIntrAsCall(t) ==
  /\ Transition(t, "dispatch", "call")
  /\ reason[vcpu[t]] = "intr"
  /\ UNCHANGED <<vcpu, child, sysno, req, ret, grp, poolVars, cpuVars>>

DispatchIntr(t) ==
  /\ Transition(t, "dispatch", "run")
  /\ reason[vcpu[t]] = "intr"
  /\ sysno' = [sysno EXCEPT ![t] = "none"]
  /\ UNCHANGED <<vcpu, child, req, ret, grp, poolVars, cpuVars>>

\* Any other exit, and the one call Dune refuses, end the process.
DispatchDie(t) ==
  /\ pc[t] = "dispatch"
  /\ \/ reason[vcpu[t]] \notin {"intr", "hypercall"}
     \/ reason[vcpu[t]] = "hypercall" /\ sysno[t] = "kexec_load"
  /\ Die(t)

Entry(nr) == CASE nr = "exit"     -> "free_lock"
               [] nr \in Clones   -> "alloc_lock"
               [] OTHER           -> "call"

DispatchSyscall(t) ==
  /\ Transition(t, "dispatch", Entry(sysno[t]))
  /\ reason[vcpu[t]] = "hypercall" /\ sysno[t] # "kexec_load"
  /\ UNCHANGED <<vcpu, child, sysno, req, ret, grp, poolVars, cpuVars>>

\* arch_do_syscall reads the block again: first word 7, ...
LoadNr(t) ==
  /\ Transition(t, "call", "args")
  /\ req' = [req EXCEPT ![t].nr = param[vcpu[t]].nr]
  /\ UNCHANGED <<vcpu, child, sysno, ret, grp, poolVars, cpuVars>>

\* ... then the arguments.
LoadArgs(t) ==
  /\ Transition(t, "args", "syscall")
  /\ req' = [req EXCEPT ![t].by = param[vcpu[t]].by]
  /\ UNCHANGED <<vcpu, child, sysno, ret, grp, poolVars, cpuVars>>

\* The kernel does not name a new task like one that lives, or like a group.
Unused(u) == u \notin Live /\ \A w \in Live : grp[w] # u

\* What call nr may be answered.  A fork whose child gets a new stack is a call
\* of do_simulate_clone, which turns the sign of an error.  A clone is met here
\* only when the block changed since ReadSysno; its child would return into
\* host_loop on a guest stack, and crashes, alone if it is a process.
Answers(nr) ==
  CASE nr \in {"sys", "kexec_load"} -> {0} \union {-e : e \in Errno} \union CloneErrno
    [] nr = "execve"        -> {-e : e \in Errno}
    [] nr = "clone_thread"  -> {-e : e \in CloneErrno}
    [] nr = "clone_process" -> {-e : e \in CloneErrno} \union {u \in Thread : Unused(u)}
    [] OTHER                -> {}

\* What the host's syscall instruction does.  An execve that succeeds
\* replaces the program: no thread of the group comes back to Dune.
SyscallAnswered(t, r) ==
  /\ r \in Answers(req[t].nr)
  /\ Transition(t, "syscall", "store")
  /\ ret' = [ret EXCEPT ![t] = r]
  /\ req' = [req EXCEPT ![t] = NoReq]
  /\ UNCHANGED <<vcpu, child, sysno, grp, poolVars, cpuVars>>

SyscallExit(t) == pc[t] = "syscall" /\ req[t].nr = "exit" /\ End({t})

\* The crash of a clone_thread's child ends them all.
SyscallEndsGroup(t) ==
  /\ pc[t] = "syscall"
  /\ req[t].nr \in {"exit_group", "execve", "clone_thread"}
  /\ End(Group(t))

StoreRet(t) ==
  /\ Transition(t, "store", "run")
  /\ param' = [param EXCEPT ![vcpu[t]].a0 = ret[t], ![vcpu[t]].by = NoThread]
  /\ ret'   = [ret EXCEPT ![t] = 0]
  /\ sysno' = [sysno EXCEPT ![t] = "none"]
  /\ UNCHANGED <<vcpu, child, req, grp, reason, who, at, a0, poolVars>>

-----------------------------------------------------------------------------
(* kvm_free_vcpu.                                                          *)

\* (variant) The lock does not exclude.
AcquireAnyway(t, from, to) ==
  /\ Transition(t, from, to)
  /\ lock' = TRUE
  /\ UNCHANGED <<vcpu, child, sysno, req, ret, grp, valid, ptr, created, cpuVars>>

Acquire(t, from, to) ==
  /\ ~lock
  /\ Transition(t, from, to)
  /\ lock' = TRUE
  /\ UNCHANGED <<vcpu, child, sysno, req, ret, grp, valid, ptr, created, cpuVars>>

Release(t, from, to) ==
  /\ Transition(t, from, to)
  /\ lock' = FALSE
  /\ UNCHANGED <<vcpu, child, sysno, req, ret, grp, valid, ptr, created, cpuVars>>

FreeLock(t) == Acquire(t, "free_lock", "free_clear")

\* (variant) The slot is not given back.
FreeClearKeeps(t) ==
  /\ Transition(t, "free_clear", "free_unlock")
  /\ valid[vcpu[t]]
  /\ UNCHANGED <<vcpu, child, sysno, req, ret, grp, poolVars, cpuVars>>

FreeClear(t) ==
  /\ Transition(t, "free_clear", "free_unlock")
  /\ valid[vcpu[t]]
  /\ valid' = [valid EXCEPT ![vcpu[t]] = FALSE]
  /\ UNCHANGED <<vcpu, child, sysno, req, ret, grp, lock, ptr, created, cpuVars>>

FreeAbort(t) == pc[t] = "free_clear" /\ ~valid[vcpu[t]] /\ Die(t)

\* (variant) kvm_free_vcpu returns with the lock held.
FreeNoUnlock(t) ==
  /\ Transition(t, "free_unlock", "call")
  /\ UNCHANGED <<vcpu, child, sysno, req, ret, grp, poolVars, cpuVars>>

FreeUnlock(t) == Release(t, "free_unlock", "call")

-----------------------------------------------------------------------------
(* kvm_alloc_vcpu and emulate_fork_same_vm.                                *)

AllocLock(t) == Acquire(t, "alloc_lock", "alloc_scan")

\* Between kvm_free_vcpu and the end of its task a vcpu is free and still in
\* use.  If PromptExit, only what happens when the exiting task always wins is
\* considered: no clone takes the vcpu of a task that has not ended.
FirstFree(s) ==
  /\ ~valid[s] /\ \A r \in Slot : r < s => valid[r]
  /\ PromptExit => \A u \in Thread : vcpu[u] # s

\* (variant) A slot without a vcpu is found but not claimed.
AllocTakeOld(t, s) ==
  /\ Transition(t, "alloc_scan", "alloc_unlock")
  /\ FirstFree(s)
  /\ child' = [child EXCEPT ![t] = s]
  /\ valid' = [valid EXCEPT ![s] = ptr[s] # "null"]
  /\ UNCHANGED <<vcpu, sysno, req, ret, grp, lock, ptr, created, cpuVars>>

\* (variant) A slot whose vcpu is reused is not claimed.
AllocTakeNew(t, s) ==
  /\ Transition(t, "alloc_scan", "alloc_unlock")
  /\ FirstFree(s)
  /\ child' = [child EXCEPT ![t] = s]
  /\ valid' = [valid EXCEPT ![s] = ptr[s] = "null"]
  /\ UNCHANGED <<vcpu, sysno, req, ret, grp, lock, ptr, created, cpuVars>>

\* The scan of vcpu_pool takes the first slot that is not valid.
AllocTake(t, s) ==
  /\ Transition(t, "alloc_scan", "alloc_unlock")
  /\ FirstFree(s)
  /\ child' = [child EXCEPT ![t] = s]
  /\ valid' = [valid EXCEPT ![s] = TRUE]
  /\ UNCHANGED <<vcpu, sysno, req, ret, grp, lock, ptr, created, cpuVars>>

AllocNone(t) ==
  /\ Transition(t, "alloc_scan", "alloc_unlock")
  /\ \A r \in Slot : valid[r]
  /\ UNCHANGED <<vcpu, child, sysno, req, ret, grp, poolVars, cpuVars>>

\* (variant) A slot that was found is set up even if it has a vcpu.
AfterScanSetsUp(s) == IF s = NoSlot THEN "full" ELSE "calloc"

AfterScan(s) == IF s = NoSlot THEN "full"
                ELSE IF ptr[s] = "null" THEN "calloc" ELSE "init"

\* (variant) The early return for a reused vcpu forgets the lock.
AllocReuseKeepsLock(t) ==
  /\ Transition(t, "alloc_unlock", AfterScan(child[t]))
  /\ lock' = (AfterScan(child[t]) = "init")
  /\ UNCHANGED <<vcpu, child, sysno, req, ret, grp, valid, ptr, created, cpuVars>>

AllocUnlock(t) == Release(t, "alloc_unlock", AfterScan(child[t]))

NoMoreVcpu(t) == pc[t] = "full" /\ Die(t)

Calloc(t) ==
  /\ Transition(t, "calloc", "create")
  /\ ptr' = [ptr EXCEPT ![child[t]] = "fresh"]
  /\ UNCHANGED <<vcpu, child, sysno, req, ret, grp, lock, valid, created, cpuVars>>

CreateVcpu(t) ==
  /\ Transition(t, "create", "mmap")
  /\ child[t] \notin created
  /\ created' = created \union {child[t]}
  /\ UNCHANGED <<vcpu, child, sysno, req, ret, grp, lock, valid, ptr, cpuVars>>

MmapRun(t) ==
  /\ Transition(t, "mmap", "init")
  /\ ptr' = [ptr EXCEPT ![child[t]] = "ready"]
  /\ UNCHANGED <<vcpu, child, sysno, req, ret, grp, lock, valid, created, cpuVars>>

\* No memory or no descriptor; and KVM refuses an id it knows (EEXIST).
SetUpFails(t) ==
  /\ \/ Exhaustion /\ pc[t] \in {"calloc", "mmap", "clone"}
     \/ pc[t] = "create" /\ (child[t] \notin created => Exhaustion)
  /\ Die(t)

\* init_child_thread_info: the child continues behind the clone with a0 = 0.
\* Its ioctls wait for vcpu->mutex like KVM_RUN does.
InitChild(t) ==
  LET c == child[t] IN
  /\ Transition(t, "init", "clone")
  /\ \A u \in Thread : pc[u] = "guest" => vcpu[u] # c
  /\ who' = [who EXCEPT ![c] = NoThread]
  /\ at'  = [at EXCEPT ![c] = "user"]
  /\ a0'  = [a0 EXCEPT ![c] = 0]
  /\ UNCHANGED <<vcpu, child, sysno, req, ret, grp, param, reason, poolVars>>

\* Word 0 of the block is clone flags, unless the block changed since ReadSysno:
\* then it is another call's first argument, or an answer.
FlagsIntact(v) == param[v].nr \in Clones /\ param[v].by # NoThread
CloneFlags(v)  == IF FlagsIntact(v) THEN {param[v].nr} ELSE Flags

\* (variant) The new task is handed the parent's vcpu.
SysCloneParentCpu(t, u) ==
  /\ pc[t] = "clone" /\ Unused(u)
  /\ pc'   = [pc EXCEPT ![t] = "store_clone", ![u] = "run"]
  /\ vcpu' = [vcpu EXCEPT ![u] = vcpu[t]]
  /\ child' = [child EXCEPT ![t] = NoSlot]
  /\ \E k \in CloneFlags(vcpu[t]) :
       grp' = [grp EXCEPT ![u] = IF k = "clone_thread" THEN grp[t] ELSE u]
  /\ ret'  = [ret EXCEPT ![t] = u]
  /\ who'  = [who EXCEPT ![child[t]] = u]
  /\ UNCHANGED <<sysno, req, param, reason, at, a0, poolVars>>

\* __do_simulate_clone: task u starts in host_loop(child_cpu).
SysClone(t, u) ==
  /\ pc[t] = "clone" /\ Unused(u)
  /\ pc'   = [pc EXCEPT ![t] = "store_clone", ![u] = "run"]
  /\ vcpu' = [vcpu EXCEPT ![u] = child[t]]
  /\ child' = [child EXCEPT ![t] = NoSlot]
  /\ \E k \in CloneFlags(vcpu[t]) :
       grp' = [grp EXCEPT ![u] = IF k = "clone_thread" THEN grp[t] ELSE u]
  /\ ret'  = [ret EXCEPT ![t] = u]
  /\ who'  = [who EXCEPT ![child[t]] = u]
  /\ UNCHANGED <<sysno, req, param, reason, at, a0, poolVars>>

\* Word 0 is no clone flags and does not ask for CLONE_VM: the child's host_loop
\* runs in a copy of the memory, where KVM refuses the vcpu, and dies alone.
SysCloneLost(t, u) ==
  /\ Transition(t, "clone", "store_clone")
  /\ ~FlagsIntact(vcpu[t]) /\ Unused(u)
  /\ child' = [child EXCEPT ![t] = NoSlot]
  /\ ret'   = [ret EXCEPT ![t] = u]
  /\ UNCHANGED <<vcpu, sysno, req, grp, poolVars, cpuVars>>

\* It asks for a thread that gets an argument as its thread pointer: the child
\* crashes in host_loop, and ends them all.
SysCloneGarbled(t) ==
  /\ pc[t] = "clone" /\ ~FlagsIntact(vcpu[t]) /\ "clone_thread" \in Flags
  /\ Die(t)

\* The clone fails; emulate_fork_same_vm forgets child_cpu.
SysCloneFails(t, e) ==
  /\ Transition(t, "clone", "store_clone")
  /\ child' = [child EXCEPT ![t] = NoSlot]
  /\ ret'   = [ret EXCEPT ![t] = -e]
  /\ UNCHANGED <<vcpu, sysno, req, grp, poolVars, cpuVars>>

\* do_simulate_clone: a pid as it is, an error with its sign turned.
CloneAnswer(r) == IF r > 0 THEN r ELSE -r

StoreClone(t) ==
  /\ Transition(t, "store_clone", "run")
  /\ param' = [param EXCEPT ![vcpu[t]].a0 = CloneAnswer(ret[t]), ![vcpu[t]].by = NoThread]
  /\ ret'   = [ret EXCEPT ![t] = 0]
  /\ sysno' = [sysno EXCEPT ![t] = "none"]
  /\ UNCHANGED <<vcpu, child, req, grp, reason, who, at, a0, poolVars>>

-----------------------------------------------------------------------------
GuestStep(t) ==
  \/ \E k \in Calls : GuestSyscall(t, k)
  \/ GuestReturn(t)
  \/ GuestInterrupted(t)
  \/ GuestFault(t)

LoopStep(t) ==
  \/ KvmRun(t) \/ ReadSysno(t)
  \/ DispatchIntr(t) \/ DispatchDie(t) \/ DispatchSyscall(t)
  \/ LoadNr(t) \/ LoadArgs(t)
  \/ \E r \in Answers(req[t].nr) : SyscallAnswered(t, r)
  \/ SyscallExit(t) \/ SyscallEndsGroup(t)
  \/ StoreRet(t)

FreeStep(t) == FreeLock(t) \/ FreeClear(t) \/ FreeAbort(t) \/ FreeUnlock(t)

AllocStep(t) ==
  \/ AllocLock(t) \/ (\E s \in Slot : AllocTake(t, s)) \/ AllocNone(t)
  \/ AllocUnlock(t) \/ NoMoreVcpu(t)
  \/ Calloc(t) \/ CreateVcpu(t) \/ MmapRun(t)
  \/ SetUpFails(t)

CloneStep(t) ==
  \/ InitChild(t)
  \/ \E u \in Thread : SysClone(t, u) \/ SysCloneLost(t, u)
  \/ \E e \in CloneErrno : SysCloneFails(t, e)
  \/ SysCloneGarbled(t)
  \/ StoreClone(t)

\* All tasks have ended.
Finished == Live = {} /\ UNCHANGED vars

Next ==
  \/ \E t \in Thread :
       GuestStep(t) \/ LoopStep(t) \/ FreeStep(t) \/ AllocStep(t) \/ CloneStep(t)
  \/ Finished

Spec == Init /\ [][Next]_vars

\* The steps the scheduler owes a task: not the choices of its guest, the
\* signals it gets or the failures of the kernel.
HostStep(t) ==
  \/ LoopStep(t)
  \/ FreeClear(t) \/ FreeAbort(t) \/ FreeUnlock(t)
  \/ (\E s \in Slot : AllocTake(t, s)) \/ AllocNone(t)
  \/ AllocUnlock(t) \/ NoMoreVcpu(t)
  \/ Calloc(t) \/ CreateVcpu(t) \/ MmapRun(t)
  \/ CloneStep(t)

Fairness ==
  \A t \in Thread :
    /\ WF_vars(HostStep(t))
    /\ SF_vars(FreeLock(t) \/ AllocLock(t))  \* nobody spins for ever
    /\ SF_vars(GuestReturn(t))               \* KVM_RUN gets somewhere

FairSpec == Spec /\ Fairness

-----------------------------------------------------------------------------
(* Properties.                                                             *)

FreeCS  == {"free_clear", "free_unlock"}
AllocCS == {"alloc_scan", "alloc_unlock"}
SetUp   == {"calloc", "create", "mmap", "init", "clone"}

Block == [nr : AllCalls \union {"none"}, by : Thread \union {NoThread}, a0 : Int]

\* Types; exactly the live tasks have a vcpu, and a child vcpu is held from
\* the scan of vcpu_pool to the clone.
TypeOK ==
  /\ lock \in BOOLEAN
  /\ valid \in [Slot -> BOOLEAN]
  /\ ptr \in [Slot -> {"null", "fresh", "ready"}]
  /\ created \subseteq Slot
  /\ pc \in [Thread -> Labels]
  /\ vcpu \in [Thread -> Slot \union {NoSlot}]
  /\ child \in [Thread -> Slot \union {NoSlot}]
  /\ sysno \in [Thread -> AllCalls \union {"none"}]
  /\ req \in [Thread -> [nr : AllCalls \union {"none"}, by : Thread \union {NoThread}]]
  /\ ret \in [Thread -> Int]
  /\ grp \in [Thread -> Thread]
  /\ param \in [Slot -> Block]
  /\ reason \in [Slot -> {"none", "intr", "hypercall", "other"}]
  /\ who \in [Slot -> Thread \union {NoThread}]
  /\ at \in [Slot -> {"user", "trap"}]
  /\ a0 \in [Slot -> Int]
  /\ \A t \in Thread :
       /\ vcpu[t] = NoSlot <=> pc[t] = "none"
       /\ pc[t] \in SetUp => child[t] \in Slot
       /\ child[t] \in Slot => pc[t] \in SetUp \union {"alloc_unlock"}

\* kvm->lock: no two tasks are between lock and unlock of vcpu_pool.
PoolMutex ==
  \A t, u \in Thread :
    pc[t] \in FreeCS \union AllocCS /\ pc[u] \in FreeCS \union AllocCS => t = u

\* The setup of a new vcpu runs outside the lock, yet KVM is never asked to
\* create an id it knows, and no scan can find a free slot half set up.
CreateOnce == \A t \in Thread : pc[t] = "create" => child[t] \notin created

PoolPublished == \A s \in Slot : ~valid[s] => ptr[s] # "fresh"

\* "simulated one thread in the one vcpu" (Readme.md:55).
OneThreadPerVcpu ==
  \A t, u \in Live : vcpu[t] = vcpu[u] => t = u

\* assert(kvm->vcpu_pool[vcpu->cpu_id].valid) in kvm_free_vcpu (dune.c:101).
AssertValid == \A t \in Thread : pc[t] = "free_clear" => valid[vcpu[t]]

\* A host task performs the call it decoded, with its own guest's arguments.
OwnCall ==
  \A t \in Thread :
    pc[t] = "syscall" => req[t] = [nr |-> sysno[t], by |-> t]

\* "create vcpu and then release it ... over and over again" (Readme.md:55): a
\* slot stays claimed without the task that has it, or sets it up, only if that
\* task ends by something else than SYS_EXIT.
Holder(s) == {t \in Live : s \in {vcpu[t], child[t]}}
NoLeak ==
  [][\A s \in Slot : \A t \in Holder(s) :
       valid'[s] /\ Holder(s)' = {} => pc'[t] = "none" /\ req[t].nr # "exit"]_vars

\* The lock is a word of the VM's memory that nobody clears for a dead task.  It
\* is no orphan while one process alone runs the VM, whatever ends its tasks.
LockOwned ==
  "clone_process" \notin Calls \union Flags /\ lock =>
    Live = {} \/ \E t \in Live : pc[t] \in FreeCS \union AllocCS

\* Whoever takes the pool's lock gives it back, unless the process ends.
LockReleased == lock ~> ~lock \/ Live = {}
=============================================================================

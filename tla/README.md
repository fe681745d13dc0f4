# A verification of Loongson Dune

Loongson Dune lets an ordinary Linux process put itself into a KVM virtual
machine: `dune_enter()` creates a VM whose memory is the process's own, moves the
running thread into its first vcpu, and from then on the program runs as a guest.
The guest has no kernel. A system call leaves the guest by HYPERCALL and is made
by the host task behind the vcpu. Threads become vcpus, forked children become
processes with a VM of their own.

This directory holds TLA+ models of the parts of that mechanism, the TLC runs that
check them and the proofs TLAPS checks. Paths are relative to the repository
(`src/`); `PROJECT.json` maps every definition to the lines it stands for.

## 1. The system

### 1.1 Parts, state and operations

| Part | Where | State | Operations |
|---|---|---|---|
| vcpu pool | `dune/dune.c:94-163` | `kvm->lock`, `vcpu_pool[16]` of (`valid`, `vcpu`), the vcpu ids KVM knows | `kvm_alloc_vcpu`, `kvm_free_vcpu` |
| host loop | `dune/dune.c:438-499`, `loongarch/arch.c:418-470` | per host task: its `vcpu`, `sysno`, the registers of its `syscall`; per vcpu: `syscall_parameter[8]`, `kvm_run->exit_reason` | KVM_RUN, dispatch, `arch_do_syscall`, the frees and clones it calls |
| thread creation | `dune/dune.c:329-338, 375-400`, `arch.c:525-542` | the child's vcpu, its host stack | `dup_vcpu`, `emulate_fork_same_vm`, `do_simulate_clone` |
| process creation | `dune/dune.c:340-367, 404-421` | a new `kvm_vm`, copied memory | `dup_vm`, `emulate_fork_diff_vm_{old,new}_stack`, `fork_child_entry` |
| context of a child | `arch.c:119-154, 472-505` | `parent_cpu->info` (registers, EPC, FPU), the child's registers, CSRs, FPU and `hypercall.ret` | `kvm_get_parent_thread_info`, `init_child_thread_info`, `dup_fpu`, `init_csr` |
| code in the guest | `loongarch/entry.S:12-67`, `internal.h:356-362` | TLB, TLB and KS CSRs, t0, t1, a0..a7, EPC | TLB refill handler, system call handler |
| bring-up | `dune.c:165-327`, `arch.c:156-213, 347-416` | the first `kvm_vm` and `kvm_cpu`, captured registers | `dune_enter`, `expand_stack`, `kvm_init_vm_with_one_cpu`, `kvm_launch`, `vacate_current_stack` |
| messages, log | `dune.c:31-92, 461-469` | `strace.txt` | `die`, `pr_info`, `dprintf` |
| MIPS port | `dune/mips/` | the same, and `userlocal` | the same; `dune/config.h` selects LoongArch |
| examples | `example/` | none under Dune but their own | the calls of `pthread.c`, `clone.c`, `fork.c`, `clone2.c` |

### 1.2 How they interact

- **Guest and host task** share the vcpu's `syscall_parameter` block. The guest's
  handler finds it through the CSR KS5, stores its registers there and makes a
  HYPERCALL; `host_loop` reads word 7 to dispatch, `arch_do_syscall` reads the whole
  block *again* to make the call, and stores the answer in word 0, which the handler
  loads when the guest goes on.
- **Host tasks** of a VM share the pool, under a spin lock that covers the scan but
  neither the set-up of a new vcpu nor the use of one.
- **A task that exits** first gives its vcpu back (`dune.c:472`) and only then makes
  the `exit` call, with the vcpu's block.
- **A clone** with CLONE_VM saves the parent's context, takes and fills a vcpu and only
  then asks the kernel for the task; without CLONE_VM the child process makes its own
  VM after the kernel's fork, from its copy of the parent's context.
- **Refills** come in between any two instructions of the guest, the system call
  handler's included.
- **Signals** make KVM_RUN return with KVM_EXIT_INTR; group exits, failed assertions
  and `die` end all tasks of a thread group wherever they are.

### 1.3 What is hard, and what must hold

| Part | Hard because | Correct if |
|---|---|---|
| pool | tasks meet in the window outside the lock; two exits from the locked region; the pool runs full; tasks are killed inside it | mutual exclusion; no id created twice; nothing half set up on offer; no slot lost; the lock comes back |
| host loop | the block is read twice; the vcpu may already be another's; KVM_RUN returns for three reasons with an old block | a task performs its own guest's call, once, and the guest gets its answer: threads behave as without Dune |
| clone | failure at each step; reuse of a vcpu; the answer's sign | one task per vcpu; nothing leaked; the answer is the kernel's |
| context | the block's word 0 changes meaning; reused vcpus keep old state; an a0 that KVM overwrites | the child's registers are what the kernel would give it |
| processes | a fork copies memory, descriptors and locks; KVM ties a vcpu to its maker; tables, pools and address spaces fill up | own vcpu, own descriptors, own stack; the child enters the guest |
| bring-up | a picture of registers taken while in use, two owners of one stack, arithmetic modulo 2^64 | the program goes on as if nothing had been |
| guest code | nested exceptions share registers; pairs of pages | identity mapping; the program notices nothing; it always goes on |

The full list of hazards, each at its line, with the properties that guard against it
or the reason there is none yet, is in `PROJECT.json` under "hazards".

## 2. The modules

| Module | What it is | Theorems | Runs |
|---|---|---|---|
| `NativeThreads` | abstract specification: the threads of one address space on a bare kernel | | |
| `DuneVm` | the threads of one VM: pool, host loop, guest side of a call, clone, exits | `DuneVmProofs` | `vm_race`, `vm_prompt`, `vm_live`, `exit_race` |
| `DuneVmRefinement` | the mapping of `DuneVm` onto `NativeThreads` | `DuneVmProofs` | `vm_prompt`, `vm_live` |
| `Examples` | `pthread.c`, `clone.c` or any program as guests of `DuneVm`, and the progress of their calls | `DuneVmProofs` | `vm_live` |
| `ForkTree` | the tree of processes: VMs, descriptors, host stacks, the C library's heap lock | `ForkTreeProofs` | `fork_tree`, `fork_live` |
| `ForkExamples` | `fork.c` and `clone2.c` as guests of `ForkTree` | | `fork_live` |
| `DuneEnter` | `kvm_launch` of both ports, the ebase pages, the two stacks | `DuneEnterProofs` | `dune_enter` |
| `StackGrowth` | `expand_stack` and the main thread's stack | `StackGrowthProofs` | `stack_growth` |
| `GuestEntry` | LoongArch code inside the guest, instruction by instruction | `GuestEntryProofs` | `guest_entry` |
| `MipsGuest` | MIPS code inside the guest, and the host's side of its calls | `MipsGuestProofs` | `mips_guest` |
| `ChildContext` | the registers of new threads and processes | `ChildContextProofs` | `child_context` |
| `HostErrno` | errno, shared by host and guest | `HostErrnoProofs` | `host_errno` |

`MCxxx` gives `xxx` the values of the runs. The modules compose by assumption and
promise: `ForkTree` takes `vcpu_pool` in one step because `DuneVm` shows that its
critical section excludes; `ChildContext` assumes that a vcpu has one task, which
`DuneVm` shows for prompt exits; `DuneVm` assumes a block and a handler that deliver
arguments and answers, which `GuestEntry` and `MipsGuest` show; and what a forked
child does before it is a guest again, one step "sys" in `DuneVm`, is `ForkTree`'s.

Definitions called *variant* in a comment are plausible mistakes in the operation
that follows. They are used by no specification; `PROJECT.json` ("mutants") says
which property each one breaks.

### 2.1 DuneVm

One host task per guest thread, `pc[t]` is its place in `host_loop` and in what that
calls. One step is one access to state other tasks can see, or one system call:

| `pc` | Code | Actions |
|---|---|---|
| `run`, `guest` | `KVM_RUN` (dune.c:441), entry.S:48-66 | `KvmRun`, `GuestSyscall`, `GuestReturn`, `GuestInterrupted`, `GuestFault` |
| `exited`, `dispatch` | dune.c:442-494 | `ReadSysno`, `DispatchIntr`, `DispatchDie`, `DispatchSyscall` |
| `call` .. `store` | arch.c:446-469 | `LoadNr`, `LoadArgs`, `SyscallAnswered`, `SyscallExit`, `SyscallEndsGroup`, `StoreRet` |
| `free_*` | dune.c:94-107 | `FreeLock`, `FreeClear`, `FreeAbort`, `FreeUnlock` |
| `alloc_*`, `full`, `calloc`, `create`, `mmap` | dune.c:109-163 | `AllocLock`, `AllocTake`, `AllocNone`, `AllocUnlock`, `NoMoreVcpu`, `Calloc`, `CreateVcpu`, `MmapRun`, `SetUpFails` |
| `init`, `clone`, `store_clone` | arch.c:472-542, dune.c:375-400 | `InitChild`, `SysClone`, `SysCloneFails`, `SysCloneLost`, `SysCloneGarbled`, `StoreClone` |

Abstractions, and why they keep what the properties look at:

- A call is its kind and the guest thread that made it (`param[v].nr`, `.by`). "sys"
  is every call that only computes an answer, fork included (its child is in another
  VM). It is taken to return; a call that blocks for ever blocks natively too.
- `init_child_thread_info` (KVM_SET_REGS, KVM_SET_FPU, KVM_SET_ONE_REG) is one step
  `InitChild`; ChildContext has its content. Like KVM_RUN these ioctls wait for KVM's
  `vcpu->mutex`, hence the guard that nobody is in the guest on that vcpu.
- When the block changed between dispatch and use (possible only in the exit race), a
  clone is made with a word 0 that is no clone flags (`FlagsIntact`), that is, with flags
  that may ask for anything: the child is a thread or a process in the new vcpu
  (`SysClone`, its kind one of the CONSTANT `Flags`), or one without CLONE_VM, which KVM
  refuses the vcpu, so that it dies alone and the parent goes on (`SysCloneLost`); or its
  thread pointer is an argument of another call and it crashes in `host_loop`, with its
  group (`SysCloneGarbled`); or the clone fails. A clone that is met by `arch_do_syscall`
  instead is answered by the kernel (`Answers`): with an error, with the pid of a process
  whose crash is its own, or not at all because the crash of a thread ends the group
  (`SyscallEndsGroup`).
- A fork that gets a new stack goes through `do_simulate_clone` as well, so that an error
  of it comes back with its sign turned (`Answers`, arch.c:540); any other call's error
  is negative.
- `PromptExit` restricts `FirstFree`: no clone takes a vcpu whose task has freed it
  and not ended. With FALSE the model is the code as it is; with TRUE it is the code
  on the runs in which exiting tasks win that race. Both are checked.
- All tasks share one descriptor table. SYS_FORK and SYS_CLONE3 have numbers in arch.h
  that no guest call has, so their branches are dead, and a real `clone3` is a plain
  call here as it is in the code. SYS_SET_THREAD_AREA is the number of
  `set_tid_address`, for which `arch_set_thread_area` does nothing.

### 2.2 GuestEntry

One vcpu. Both handlers are given as code, one instruction of entry.S per element, and
`Next` is a small processor: csrrd, csrwr, the arithmetic, tlbfill, ertn, a miss that
enters the refill handler, the loss of an entry at any time outside it, the program
computing, accessing memory and calling, the host answering. The program's own view of
its registers is kept in `want`, and compared with the machine's whenever it runs. a0
stands for the arguments that change, a7 for those that do not. The block is reached
through the DMW1 window and needs no TLB entry (arch.c:224-225). Pages are scaled: the
CONSTANT `PageSize` is 2^29 in the code and 128 in the run, above the attribute bits;
the theorem about it holds for every multiple of 64 that is larger than 64.

### 2.3 ChildContext

The threads of several processes, each named by its `struct kvm_cpu`; a vcpu left by
SYS_EXIT can be taken by a later clone of the same VM with everything it still holds:
registers, KS5, `hypercall.ret`, KVM's note that it left by HYPERCALL, and
`info.fpu`. `native` is the context the thread would have without Dune. That at most
one task uses a vcpu is assumed here and is what DuneVm shows for prompt exits. Host
calls succeed; failures are DuneVm's.

### 2.4 ForkTree

One task per guest thread of any process, an address space (`mm`, `pool`, `pages`,
`heap`) and a descriptor table (`files`, `table`) each named by the task that began
it. `pc[t]` is the task's place in `emulate_fork` and what that calls:

| `pc` | Code | Actions |
|---|---|---|
| `guest` | the guest, and dune.c:404-421 | `GuestOpens`, `GuestCloses`, `GuestLocksHeap`, `GuestUnlocksHeap`, `Call`, `Exit`, `ExitGroup` |
| `calloc_vm`, `open`, `create_vm`, `eintr` | `kvm_init_vm_with_one_cpu`, dune.c:172-235 | `CallocVm`, `OpenKvm`, `CreateVm`, `CreateVmInterrupted`, `CreateVmAgain` |
| `alloc`, `calloc_cpu`, `create_vcpu` | `kvm_alloc_vcpu`, dune.c:109-163 | `AllocVcpu`, `NoMoreVcpu`, `CallocCpu`, `CreateVcpu` |
| `init` | the ioctls of `kvm_launch`, `init_child_thread_info` | `InitVcpu`, `InitRefused` |
| `stack`, `args`, `clone` | `mmap_one_page`, `switch_stack`, `child_stack_para`, the host's clone | `MmapStack`, `MmapFails`, `SwitchStack`, `WriteArgs`, `BadStack`, `CloneVm`, `Fork`, `CloneFails` |

KVM refuses an ioctl on a vcpu of another address space (`Reaches`; Readme.md:67-80), a
descriptor is the lowest that is free, a fork copies the table, the stacks and the
locks as they are. `job` says what a vcpu is set up for. `Kinds` are the clones of the
guest: `fork_old`, `fork_new`, `fork_files` (the child's stack its parent's, a new one,
or the parent's with a shared table), `thread` and `process` (CLONE_VM with and
without CLONE_FILES).

### 2.5 DuneEnter and StackGrowth

`DuneEnter` is the main thread's way into the guest, for the port chosen in `Init`: the
asm that stores the registers and the label `guest_entry`, the ebase pages, the CSRs,
the floating point registers, and the switch of the host to a stack of its own. Host
and guest call and return at any time, each in frames of its stack.

The ebase pages are an array of instruction words, as `init_ebase` (`ebase_init` on MIPS)
makes them: zeroes from `mmap_pages`, the loop that fills in invalid hypercalls (`Fill`),
and one `memcpy` per handler, to an offset computed from `VEC_SIZE` and EXCCODE_SYS or
given by the EBASE_..._OFFSETs. A handler is the sequence of its words, of which only the
ones that branch or leave it are told apart. What an exception does is then read
off the pages: the hardware enters at the word `Vector` gives for the CSRs, MIPS's
general handler branches on the code (`Entry`), the first word that leaves decides
(`Leaves`, `Outcome`): back to the guest, to `host_loop`, or to an error of KVM_RUN.
A word that no copy and no fill has reached leads into nothing, from where no call comes back.

The floating point registers are those a C function keeps for its caller (24 to 31), the
others, and the control words. Every call of the host before `init_fpu` may change the
others. `get_fpu_regs`, `get_fcsr` and `get_msacsr` read them into `init_fpu`'s struct,
and `kvm_set_fpu_regs` gives the vcpu that struct on MIPS, and `cpu->info.fpu` on LoongArch.

`StackGrowth` has the arithmetic of `expand_stack`, modulo the number of addresses,
against the kernel's rule for growing a stack (`Allowed`). The limit is any of `Limits`,
0, infinite or not whole pages included, and changes at any time outside `expand_stack`.

### 2.6 MipsGuest and HostErrno

On MIPS both handlers run unmapped with k0 and k1 and interrupts off, so each is one
step; the words of EntryLo are computed as entry.S does. `do_syscall`, pipe with its two
results and `set_thread_area` are the host's side. `DelaySlots` says whether a syscall
may stand in the slot of a branch.

`HostErrno` has errno per thread area: the guest's failing calls and the `ioctl` that
KVM_RUN is write it, `host_loop` reads it to tell a signal from an error. A clone with
CLONE_SETTLS has an area of its own, any other shares its parent's. The program's signal
handlers run in the host (Readme.md:57), and their calls may fail too (`HandlerFails`):
that of the signal which interrupted KVM_RUN before the library stores EINTR, that of a
further one also behind it, before `host_loop` looks (`late`).

### 2.7 Examples and ForkExamples

`DuneVm` and `ForkTree` let the guest make any call at any time, and so do these modules
when `example` is "any". Otherwise the guest is a program of the repository: a text of
calls for each of its threads or processes, taken from the C source, and `made`, how far
each has come. Everything else is the step of the module
that is extended. What the C library does for a call is one call: `printf`, `sleep`
and `mmap` are a plain one; `pthread_join` and `waitpid` are plain ones that the host
answers when the thread has ended (`Waits`).

Their clones fail like any other's, and so does the set-up of the child's vcpu, which ends
the process. Because Dune answers a failed clone with a positive number, the program does
not see it: `pthread.c` (line 22) and `clone.c` (line 59) test for errors that do not come,
and go on to wait for a thread that never was (`failed`). `waitpid` then returns at once,
there being no such child. `pthread_join` waits for a word that the kernel clears when a
thread ends; whether it returns is left open (`JoinsNone`). The other calls of these
programs succeed, and the programs do not fault.

`fork.c` sends SIGALRM to each child as soon as `fork` returns, which is why
`kvm_init_vm_with_one_cpu` tries KVM_CREATE_VM again. A signal of this program can
interrupt it once (`alarm`); otherwise `set_create_procs` runs where the child is.

## 3. The runs

| Run | Question | Result |
|---|---|---|
| `vm_race` | after the exit race, with tasks running on in reused vcpus and freeing them twice, group ends and exhausted memory: does the pool's lock exclude, has it always a live holder, is an id created twice, a half made vcpu on offer? | holds |
| `vm_prompt` | with prompt exits: one task per vcpu, the assertion, each task its own call, `NativeThreads` implemented, no vcpu lost but by an end without SYS_EXIT | holds |
| `vm_live` | with failing clones, faults and exhausted memory: is every call performed, the lock always given back, does the VM never stop before its tasks have ended? And do `pthread.c` and `clone.c`, whose clones fail too, make all their calls, join a thread only then, and end? | holds, but for the join of a thread that was never made |
| `exit_race` | `assert(kvm->vcpu_pool[...].valid)`, dune.c:101, "one thread in the one vcpu" (Readme.md:55) | **violated** |
| `fork_tree` | own vcpu by an own descriptor, own and mapped stack, nothing made twice, through forks, threads, exits, full tables and pools, failures | holds |
| `fork_live` | does a forked child enter the guest, and every clone come back, under signals and heap locks? Do all processes of `fork.c` and `clone2.c` come to their end? | holds |
| `stack_growth` | for every limit, 0 included: does the guest have the stack its limit promises, does `expand_stack` write into the program's, does `dune_enter` succeed? | holds |
| `dune_enter` | on both ports: own registers, own frames; are the floating point registers read what the program relies on; with the ebase pages as they are filled, does a system call reach `host_loop`, a miss stay in the guest, all else end in an error? | holds |
| `guest_entry` | identity mapping, undisturbed program, delivered arguments, progress on LoongArch | holds |
| `mips_guest` | the same safety on MIPS, with pipe and thread area | holds |
| `child_context` | native registers and own block, in new and in reused vcpus | holds |
| `host_errno` | is a signal never taken for an error in a task with a thread area of its own, but where a further signal's handler has overwritten errno? | holds |

### 3.1 Bounds

- **DuneVm**: three tasks, two vcpus. With one vcpu less than tasks a clone meets a slot
  never used, one to reuse and none at all; an exiting task meets a running and a new
  one, which is what the exit race and its second free need; pids are reused, so
  executions are unbounded. Errors are one errno (EAGAIN): only its sign matters.
  `vm_race` makes only calls that move vcpus, without signals, which do not touch the
  pool, and its clones of garbled flags are threads (`Flags`; both kinds elsewhere). Its
  VIEW leaves out what calls are answered (a0, `ret`, word 0 of the blocks): no guard of
  DuneVm reads these, and of the run's properties only TypeOK, that they are integers
  (`TypeCorrect` proves it), so states that differ in them only have the same successors.
  `vm_prompt` has signals, faults and the calls whose answers the refinement looks at.
- **ForkTree**: three tasks are a VM whose process has a thread and a forked child, a
  child of a child, or a thread in a child. `fork_tree` has three vcpus, `MaxFd` 6 (a VM
  needs three descriptors and one for each further vcpu, so a child's child finds the
  table full), three stacks per address space (so that mmap fails by itself as well as
  by `Exhaustion`) and one file of the guest's own. `fork_live` has two vcpus, so that
  a pool is exhausted, and two stacks. Descriptors the guest closes are only its own.
- **DuneEnter**: seven frames, three more than `kvm_launch` is deep, three registers (the
  two the asm uses and another), one floating point register that functions keep and one
  they do not, two values, and two contents of the registers on entry (`Entered`), in
  which one or the other of the asm's registers differs from the rest. Pages of 128
  words, vectors of four words (`VS`, `Slot`), which keep the proportions that the
  BUILD_ASSERTs demand, and of each port the system call, its neighbour, a breakpoint, an
  interrupt and the miss. **StackGrowth**: pages of four words, room for a stack of six
  pages, limits of nothing, a page and a half, two, four, five and seven pages, and none.
  The theorems about both hold for all values, those about the ebase pages for every
  size of pages, vectors and slots that passes the code's own assertions.
- **GuestEntry**: two pairs of pages, addresses in an even page, in the odd page of the
  same pair and in another pair; the handler's code shares the latter's pair. So
  entries for the program and for the handler come and go independently or together.
- **MipsGuest**: a program of five instructions, addresses in both pages of two pairs,
  three values. **HostErrno**: three tasks and two errors, of calls and of handlers.
- **ChildContext**: two vcpus and one value besides 0. A child in a new vcpu, in one
  its parent's former child left, a parent that itself was a child, a main thread
  that left, and forked children are all there; the stale value and the right value
  differ because 0, the value and Handler differ. Three vcpus exceed 20 million states.
- **Examples** and **ForkExamples**: any program, with the bounds above; the one thread of
  `pthread.c` (pthread.c:94) and the one of `clone.c`; the two forks of `fork.c`
  (fork.c:89) and the child of `clone2.c`.
- Type invariants are checked by TLC where a run has room for it, and proved for
  every module but `ForkExamples` (of `Examples`: `ProgTypes`).

Deadlock is checked in the runs of DuneVm, where a VM whose tasks have all ended
stutters, and in `guest_entry`. Elsewhere the system may really stop: every task has
ended, or the program of MipsGuest is at its end. A group killed with the spin lock
taken can stop DuneVm too (section 5, item 3), but only with three tasks alive in two
groups, that is, with three vcpus.

### 3.2 Fairness

`DuneVm!FairSpec`: weak fairness for each host task's own next step (the kernel's
scheduler); strong fairness for taking the lock, because `pthread_spin_lock` gives no
order but a task that tries for ever does not lose every time; strong fairness for the
few guest instructions behind a HYPERCALL, because a signal may interrupt KVM_RUN before
them, but not for ever. Nothing is assumed of what the guest does, of signals, or of
failures.

`ForkTree!FairSpec`: weak fairness for every task's set-up and clone; weak fairness
for giving the heap lock back, because the C library holds it for a bounded time; strong
fairness for taking it and for KVM_CREATE_VM to be answered by something else than
EINTR. Signals may come for ever, but not in every KVM_CREATE_VM.

`GuestEntry!FairSpec`: weak fairness for instructions, misses and the host; strong
fairness for an access and for the handler's instructions while entries can be lost,
that is, a TLB does not lose for ever an entry just before its use.

`Examples!ExampleSpec` and `ForkExamples!ExampleSpec`: the same for the host's steps, but
that a call which waits for a thread is owed nothing before that thread has ended, nor
`pthread_join` when its thread was never made; and a
program comes to its next call, because these programs compute for a bounded time between
two calls. In `Examples` this is strong fairness, one with the return from the handler:
however often signals interrupt KVM_RUN, the guest gets on. In `ForkExamples` weak fairness
is enough, and its programs send a bounded number of signals.

## 4. What is proved

TLAPS checks, for all values of the constants that satisfy the modules' ASSUMEs:

- **DuneVmProofs.** `TypeCorrect`; it includes that exactly the live tasks have a vcpu and
  that a child vcpu is held from the scan to the clone. `MutexHolds`, `CreateOnceHolds`,
  `PoolPublishedHolds`, together `PoolSafe`, with all failures and the exit race. Their
  inductive invariant `PoolInv` adds that a slot in set-up is claimed and its `ptr` and
  `created` fit the stage (`SetUpStage`), that it stays valid meanwhile (`SetUpClaimed`),
  and that no two tasks set up one slot (`SetUpOwned`). Mutual exclusion alone is not
  inductive because the lock does not say who holds it, and `CreateOnce` not because the
  creation happens outside the lock. Under `PromptExit`, `PromptSafe`, `AssertHolds` and
  `OwnCallHolds`: `VcpuInv` adds that a vcpu in set-up belongs to one clone and to no task
  (`ChildApart`, `ChildOwned`); `OwnInv` adds that a task serving a call has the block,
  the decoded number and the guest it started with (`SysnoKept`, `ReqLoaded`), and that
  only an exiting task can be without its slot (`ExitPath`). The violation `exit_race`
  shows that the assumption cannot be dropped. All these invariants are kept by `AnyNext`,
  whose guest makes any call, and so hold of the programs of `Examples` too.
  `LockOwnedHolds` and `NoDeadlock`: a VM of one process never hangs (no `clone_process`,
  neither among the `Calls` nor among the `Flags` that a garbled block may stand for).
  `GroupInv` adds to `PoolInv` that the tasks are one thread group, so that whatever
  kills the task inside the lock kills all that wait for it. A task waits for the lock,
  for KVM's `vcpu->mutex` or, with prompt exits, for the end of one that has freed its
  vcpu (`Blocked`); some live task never waits. Whether the kernel has a pid for a clone
  is not part of it, and that the task which can go on does go on is `LockReleased`'s.
  `ImplementsNative`: under `PromptExit` and `CloneErrno = {}`, `Spec => NativeSpec`, for
  any number of tasks and vcpus. `NativeInv` adds to `OwnInv` what the mapping has to
  know of a vcpu: a task that serves its guest has it in the trap (`InTrap`); each
  call goes to the code that emulates it and every other exit is a fault (`Routed`,
  `FaultsOnly`); the vcpu of a clone is a new
  thread's, in user code with a0 = 0 (`ChildFresh`); a clone's answer is the child's pid
  (`PidAnswer`); no request outlives its call (`ReqCleared`), and a task that left has
  freed its slot (`LeftFreed`). Step by step, `StepMaps`: what happens between trap and
  system call, in the pool and in set-up stutters (`Hidden`, `Stutters`); the call itself
  is `Native!`'s call or exit (`OneMoves`, `StartMaps`), an end of a group ends the mapped
  group (`GroupMaps`, `EndMaps`), and the host's clone is `Native!Clone`.
  `NothingLeaks`: `Spec => NoLeak` from the same invariant, and from both `PoolAccounted`: in
  a VM of one process each claimed vcpu has a live task that runs it or sets it up. Both
  assumptions are needed: the exit race and an errno returned as a pid are not native, and
  a failed clone leaks (section 5, items 1 and 2).
  `NoEarlyJoin`: under `PromptExit`, `ExampleSpec => []JoinedWhenDone`, for every
  `thread_cnt`, whichever of the programs' clones fail: a thread that main has joined has made
  all its calls, or there never was one. Clones may fail here as they do in the code, so
  only `PromptExit` is assumed; `ProgFailed` is the step of a clone that fails, after
  which the thread main asked for is in `failed` and no task will ever bear its name. The
  texts of the programs are functions of
  `thread_cnt`, and what the proof needs of them is in `ChildTexts`, `PthreadMain`,
  `MainText` and `AskedNext`. `ProgInv` is `NativeInv` and `ProgParts`: `JoinedWhenDone`
  itself says nothing of the tasks that answer the calls. So it adds that the block of a
  vcpu holds the last call its thread made (`LastCall`), without which an end could
  come from an earlier call; that what main waited for is over, or was
  never made, as soon as the wait is answered (`Awaited`); and that threads are numbered in
  the order in which main asks for
  them (`Born`, `Wanted`), so that a new one is not over yet. `ExamplesSafe` gives these
  programs `OneThreadPerVcpu`, `AssertValid` and `OwnCall`.
- **ForkTreeProofs.** `TypeCorrect`, `VcpusOwn`, `StacksOwn`, `StacksMapped`,
  `DescriptorsOnce`, for any number of tasks, vcpus, descriptors, stacks and all `Kinds`.
  `Inv` consists of what each stage of a clone has prepared (`PhaseOK`), that a task not
  yet born shares nothing (`Fresh`), that stacks are numbered as they are mapped
  (`StacksOK`), that a vcpu in use has a descriptor (`HasFd`) which names it as long as
  its address space has one table (`FdOK`), that a slot is set up by one task and a VM
  in the address space of its maker (`Claims`), and that what a descriptor names has been
  made (`Named`): a descriptor of something not made yet would be made again.
- **DuneEnterProofs.** `TypeCorrect`, `FramesAreKept`, `GuestResumesNative`,
  `FpuIsPictured`, `EveryTrapServed`. `Inv` follows the picture of the registers from
  the asm to the vcpu (`Pictured`), the floating point registers through the host's calls
  into `init_fpu`'s struct and, on MIPS, the vcpu (`FpuPassed`), says that the host is off
  the program's stack before the guest runs (`Stacks`), and that the ebase pages are then
  complete (`Vectors`). What is in them follows from `Copied` and `Filled`, which say what
  one copy and the loop leave in a word: `LoongarchWords` and `MipsWords` find every
  word that a vector leads to, for which the copies must not overlap (`Sizes`, from the
  code's BUILD_ASSERTs), and `LoongarchTraps` and `MipsTraps` where an exception so gets.
- **StackGrowthProofs.** `TypeCorrect`, `GuestStackServed`, `ProgramStackKept`,
  `DuneEnterSucceeds`, for every page size, number of addresses and limits, 0 included; the
  arithmetic is modulo the number of addresses.
- **GuestEntryProofs.** `MemoryIdentity`, `TypeCorrect`, `NothingNoticed`
  (`ProgramUndisturbed`) and `ArgsAreDelivered`, for every page size, every set of
  addresses and every place of the system call handler. `EntryInv` says, per instruction of
  the refill
  handler, what t0, t1 and the TLB's CSRs hold for the pair `b` being mapped (`Computed`),
  that every entry is `EntryOf(b)` for some pair, that KS6 and KS7 are never written, and
  where the exception returns to. `EntryIdentity` is the arithmetic.
  `ProgramInv` adds the program's view. It is stated once, for a place of the program or
  of the system call handler and the t0 and t1 that belong there (`InUser`, `InCall`); a
  refill in progress stands for the place it interrupted, with t0 and t1 where the refill
  handler has saved them (`Here`, `T0`, `T1`). So the refill's own steps leave the view as
  it is, and the handler's steps need not know of refills.
- **MipsGuestProofs.** `TypeCorrect`, `MemoryIdentity`, `ArgsAreDelivered`, and
  `ProgramGoesOn` under `~DelaySlots`. `EntryWords` is the arithmetic of the shifts.
- **ChildContextProofs.** `TypeCorrect`, `ContextSafe`, `OwnBlockHolds`, for any number of
  vcpus and all register values, new vcpus and reused ones, threads and processes,
  children of children. `ContextInv` consists of types, `ChildLink` (whose child is being
  prepared), `Ks5Link` (KS5 of a vcpu in use points to its own block), and of one
  description of a thread's context for each phase it can be in. It is needed because the
  native registers of a new thread appear in the vcpu only when KVM_RUN completes the
  HYPERCALL and the handler reads word 0. The core is the lemma `ChildIsNative`.
- **HostErrnoProofs.** `TypeCorrect`, `SignalsNoError`. The strengthening is that an area
  with one user holds EINTR or EAGAIN between the failing `ioctl` and the look at errno,
  unless a handler has come in between (`late`).

The assumptions are on constants only: ids are positive, the pool is not empty, switches
are Booleans, values and addresses are natural numbers; pages are more than 64 and a
multiple of 64 (GuestEntry), a multiple of 4096 (MipsGuest), or positive (StackGrowth).

Every invariant of the passing runs is proved. Only model-checked are the liveness
properties (`CallsPerformed`, `LockReleased`, `ExamplesEnd`, `ForkChildRuns`,
`CloneReturns`, `ProcessesEnd`, `ProgramGoesOn` of `GuestEntry`), which are outside
TLAPS's reach, as is ENABLED. `NoDeadlock` therefore names the reasons to wait instead
of saying that an action is enabled. No theorem needs induction over data or a
recursive operator.

## 5. Where the code does less than one may expect

A property of a run says what holds; where it holds under a condition, this is why, and
which constant shows the case outside.

1. **exit_race** (dune.c:472). Task A exits: it frees its vcpu and is preempted. B clones,
   gets A's vcpu and starts C on it. A goes on, reads C's block and performs C's call;
   both loop on one vcpu, and the second exit on it finds the slot free. `PromptExit`
   leaves these runs out. `pthread.c` meets it as soon as `thread_cnt` is two (three tasks,
   three vcpus): `JoinedWhenDone` fails there without prompt exits, and is proved with them.
2. **A failed clone** (dune.c:393, interface.h:139) leaves its vcpu claimed, sixteen times
   until "No more vcpu", and its host stack mapped; and it is answered with a positive
   number (arch.c:540), which the guest takes for a pid. `CloneErrno = SomeErrno` in
   `vm_prompt` breaks `NativeSpec` and `NoLeak`. Of the examples, `clone.c` then waits for no
   child, with `waitpid` failing, and ends; `pthread.c` joins a thread that never was, and
   may wait for ever. Hence the exemption of such a join in `CallsPerformed` and of such a
   run of `pthread.c` in `ExamplesEnd`. `NoLeak` says that only a task that ends otherwise than
   by SYS_EXIT loses a vcpu, by the end in exit_group, execve or a signal: a CLONE_VM child
   without CLONE_THREAD (`vfork`, `posix_spawn`) does, and its parent's VM lives on.
3. **A killed group** may hold the pool's spin lock while another group of the same VM
   lives (dune.c:98): three vcpus, with `clone_process` and `exit_group` among the Calls,
   make DuneVm deadlock. Hence the condition of `LockOwned` and `NoDeadlock`.
4. **Descriptors**: each fork opens KVM again and keeps its ancestors' descriptors
   (dune.c:192), hence `OneDescriptor`, which says that at least nothing is made twice. A
   child with CLONE_VM and without CLONE_FILES has a copy of the table; vcpus made
   later are in one table only, hence the condition `OneTable` of `OwnVcpu`.
5. **Host stacks** are never unmapped (dune.c:386), and `mmap_pages` lets MAP_FAILED
   through (interface.h:71), so that the store behind it is what ends the process.
6. **expand_stack** (dune.c:308-320): with an infinite limit, one that is not whole pages
   or one with no room, `dune_enter` faults, and with the limit 0 too, although the
   stack the program has may go on being used: the address touched is then the stack's
   top itself, one word behind it (`EnterSucceeds`, whose condition names all four); a limit
   lowered below the
   stack's size makes it zero a word of the program (`StackKept`); a limit raised in the
   guest is not served (`StackServed` speaks of the limit on entry).
7. **Floating point** on LoongArch: `kvm_access_fpu_regs` passes on `cpu->info.fpu`
   whatever it is asked to (arch.c:123), so neither `dune_enter` nor a clone keeps these
   registers: what was read is right, on both ports, but only MIPS passes it on. Hence
   `Mips` in the second part of `FpuPictured`, and no such register in `ContextNative`. On
   MIPS `get_msacsr` writes the register it should read (mips/entry.S:217).
8. **Host registers**: the asm of LoongArch's `kvm_launch` saves $r6 at offset 48 and
   reloads it from 64 (arch.c:387). The guest's registers are right (`ResumesNative`).
9. **MIPS**: a syscall in the slot of a branch returns into the slot's successor
   (`DelaySlots = TRUE`); the thread area is copied before the call that sets it
   (arch.c of MIPS, `set_thread_area` here).
10. **errno**: two tasks with one thread area can overwrite EINTR before `host_loop` reads
    it (dune.c:445); so can the handler of a further signal, which runs in the host
    (Readme.md:57) behind KVM_RUN's return, if one of its calls fails and it does not put
    errno back. `host_loop` then ends the process. Hence the two conditions of
    `SignalsSurvived`. And a signal leaves EINTR in the errno that the program reads.
11. **Heap lock**: a child forked while another thread holds it never enters the guest
    (dune.c:177), hence the condition of `ForkChildRuns`.

## 6. Not modelled, and why

- The clone of the MIPS port: it does not build (mips/arch.c:482 uses an undeclared `cpu`,
  `arch_get_clone_type` and `arch_do_syscall` are missing), `__do_simulate_clone` starts
  `host_loop` with the flags of the clone where it expects a vcpu (mips/entry.S:96;
  interface.h:143 has the FIXME), and `dune/config.h` and the Makefile select LoongArch.
- Of the examples, `signal.c` and `vdso.c`, which loop for ever, `loongarch_sys.c`, which
  does not use Dune, and the functions of `fork.c` that nothing calls.
- KVM's headers, LTP patches, messages and `strace.txt`: no behaviour to
  check. `escape()` is `die("unimp")`.
- The depth of host stacks: one page without a guard, on which the guest's signal
  handlers run too (dune.c:167); how deep they go is the compiler's and the program's.
- Other locks of the C library than the heap's, and weak memory order: what tasks share
  without a lock is the vcpu pointer of a slot, written and read by its claimer.
- A `clone3`, which the code treats as a plain call, like the number it takes for `fork`.

## 7. What is left

1. `ForkTree` with `DuneVm`'s pool instead of its one step, so that a clone of a thread
   races an exit in a tree of processes as well.
2. `ContextNative` composed with `DuneVm`: one specification whose vcpus carry registers.
3. The wait of a parent for its children in a tree of processes.

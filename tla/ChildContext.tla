---------------------------- MODULE ChildContext ----------------------------
(***************************************************************************)
(* The context a new thread or process starts with: the path of a clone    *)
(* from the guest's registers through parent_cpu->info and                 *)
(* init_child_thread_info (src/dune/loongarch/arch.c) into the child's     *)
(* vcpu, which may be new or one that another thread has left.             *)
(*                                                                         *)
(* A thread is named by its struct kvm_cpu; that no other task uses a      *)
(* thread's vcpu meanwhile is what DuneVm shows.  Host calls succeed here. *)
(* Of the registers are kept a0, sp, tp, s0 for all that a clone leaves    *)
(* alone, the pc, and one floating point register.                         *)
(***************************************************************************)
EXTENDS Integers

CONSTANTS
  Cpu,    \* struct kvm_cpu's, of all processes
  Main,   \* the one of dune_enter
  Value   \* what registers hold; 0 besides

ASSUME CpuAssumption == Cpu \subseteq Nat \ {0} /\ Main \in Cpu
ASSUME ValueAssumption == Value \subseteq Nat \ {0}

Handler  == -1  \* a pc inside the system call handler
Pid      == -2  \* what the parent of a clone gets
NoCpu    == 0
Kinds    == {"sys", "exit", "clone_vm", "fork"}
Datum    == Value \union {0}
Reg      == {"a0", "sp", "tp", "s0", "pc"}
Gpr      == [Reg -> Int]
ZeroGpr  == [r \in Reg |-> 0]
Info     == [regs : Gpr, era : Int, fpu : Datum]
ZeroInfo == [regs |-> ZeroGpr, era |-> 0, fpu |-> 0]
\* The arguments of a clone: its flags, the stack and the tls; word 0 holds the
\* answer later.
CLONE_SETTLS == 524288
Block     == [w0 : Int, w1 : Datum, w4 : Datum]
ZeroBlock == [w0 |-> 0, w1 |-> 0, w4 |-> 0]
NoImage   == [info |-> ZeroInfo, block |-> ZeroBlock]

VARIABLES
  vm,      \* the process the cpu belongs to, named by its first cpu
  phase,   \* what its thread is doing
  call,    \* the system call being served
  asked,   \* its arguments, as the program gave them
  child,   \* the vcpu of the clone being served
  image,   \* in a forked child: its copy of parent_cpu
  \* struct kvm_cpu
  info, block,
  \* kvm_run->hypercall.ret
  ret,
  \* the vcpu in KVM
  gpr, era, fpu, ks5, is_hypcall,
  \* the same thread without Dune
  native

hostVars == <<vm, phase, call, asked, child, image, info>>
kvmVars  == <<ret, gpr, era, fpu, ks5, is_hypcall>>
vars     == <<hostVars, block, kvmVars, native>>

Phases == {"unused", "free", "user", "trap", "saved", "cloning", "prepared",
           "forked", "resume", "handler"}

All(x) == [c \in Cpu |-> x]

\* The registers g with register r set to v and the pc to p.
Go(g, r, v, p) == [g EXCEPT ![r] = v, !["pc"] = p]

Init ==
  /\ vm     = [c \in Cpu |-> IF c = Main THEN Main ELSE NoCpu]
  /\ phase  = [c \in Cpu |-> IF c = Main THEN "user" ELSE "unused"]
  /\ call   = All("sys") /\ asked = All(ZeroBlock) /\ child = All(NoCpu)
  /\ image  = All(NoImage)
  /\ info   = All(ZeroInfo) /\ block = All(ZeroBlock)
  /\ ret    = All(0) /\ gpr = All(ZeroGpr) /\ era = All(0) /\ fpu = All(0)
  /\ ks5    = [c \in Cpu |-> IF c = Main THEN Main ELSE NoCpu]
  /\ is_hypcall = All(FALSE)
  /\ native = All(ZeroGpr)

-----------------------------------------------------------------------------
(* The guest.                                                              *)

Moves(c, from, to) == phase[c] = from /\ phase' = [phase EXCEPT ![c] = to]

GuestComputes(c, v, f) ==
  /\ phase[c] = "user"
  /\ gpr'    = [gpr EXCEPT ![c] = Go(@, "s0", v, 0)]
  /\ native' = [native EXCEPT ![c] = Go(@, "s0", v, 0)]
  /\ fpu'    = [fpu EXCEPT ![c] = f]
  /\ UNCHANGED <<hostVars, block, ret, era, ks5, is_hypcall>>

\* The handler stores the arguments where KS5 points to and leaves by
\* HYPERCALL; KVM may leave anything in hypercall.ret.
GuestSyscall(c, k, args, r) ==
  /\ gpr[c]["pc"] = 0 /\ Moves(c, "user", "trap")
  /\ call'  = [call EXCEPT ![c] = k]
  /\ asked' = [asked EXCEPT ![c] = args]
  /\ block' = [block EXCEPT ![ks5[c]] = args]
  /\ era'   = [era EXCEPT ![c] = gpr[c]["pc"]]
  /\ gpr'   = [gpr EXCEPT ![c] = Go(@, "a0", 0, Handler)]
  /\ ret'   = [ret EXCEPT ![c] = r]
  /\ is_hypcall' = [is_hypcall EXCEPT ![c] = TRUE]
  /\ UNCHANGED <<vm, child, image, info, fpu, ks5, native>>

\* The handler takes the answer from the block and moves EPC on.
GuestReturn(c) ==
  /\ Moves(c, "handler", "user")
  /\ gpr' = [gpr EXCEPT ![c] = Go(@, "a0", block[ks5[c]].w0, era[c] + 1)]
  /\ UNCHANGED <<vm, call, asked, child, image, info, block, ret, era, fpu, ks5,
                 is_hypcall, native>>

\* Behind a hypercall KVM_RUN puts hypercall.ret into a0.
KvmRun(c) ==
  /\ Moves(c, "resume", IF gpr[c]["pc"] = Handler THEN "handler" ELSE "user")
  /\ gpr' = IF is_hypcall[c] THEN [gpr EXCEPT ![c]["a0"] = ret[c]] ELSE gpr
  /\ is_hypcall' = [is_hypcall EXCEPT ![c] = FALSE]
  /\ UNCHANGED <<vm, call, asked, child, image, info, block, ret, era, fpu, ks5,
                 native>>

-----------------------------------------------------------------------------
(* The host.                                                               *)

\* The call is over.
Served(c) ==
  /\ call'  = [call EXCEPT ![c] = "sys"]
  /\ asked' = [asked EXCEPT ![c] = ZeroBlock]

SyscallAnswered(c, r) ==
  /\ Moves(c, "trap", "resume") /\ call[c] = "sys"
  /\ block'  = [block EXCEPT ![c].w0 = r]
  /\ native' = [native EXCEPT ![c] = Go(@, "a0", r, @["pc"] + 1)]
  /\ Served(c)
  /\ UNCHANGED <<vm, child, image, info, kvmVars>>

\* The thread is gone, and its cpu is free.
Ended(c) ==
  /\ native' = [native EXCEPT ![c] = ZeroGpr]
  /\ Served(c)

\* (variant) A vcpu that goes back to the pool forgets its VM.
ExitForgetsVm(c) ==
  /\ Moves(c, "trap", "free") /\ call[c] = "exit"
  /\ vm' = [vm EXCEPT ![c] = NoCpu]
  /\ Ended(c)
  /\ UNCHANGED <<child, image, info, block, kvmVars>>

\* Nothing of a vcpu is reset when it goes back to the pool.
Exit(c) ==
  /\ Moves(c, "trap", "free") /\ call[c] = "exit"
  /\ Ended(c)
  /\ UNCHANGED <<vm, child, image, info, block, kvmVars>>

kvm_get_parent_thread_info(c) ==
  /\ Moves(c, "trap", "saved") /\ call[c] \in {"clone_vm", "fork"}
  /\ info' = [info EXCEPT ![c] = [regs |-> gpr[c], era |-> era[c], fpu |-> fpu[c]]]
  /\ UNCHANGED <<vm, call, asked, child, image, block, kvmVars, native>>

\* The registers of a child, from the parent's info and block.
ChildRegs(i, b) ==
  [r \in Reg |-> CASE r = "a0"                          -> 0
                   [] r = "tp" /\ b.w0 = CLONE_SETTLS -> b.w4
                   [] r = "sp" /\ b.w1 # 0            -> b.w1
                   [] r = "pc"                        -> i.era + 1
                   [] OTHER                           -> i.regs[r]]

\* (variants) of init_child_thread_info: hypercall.ret is left as it is; KS5 is
\* shared with the parent like ebase.
InitChildKeepsRet(d, i, b) ==
  /\ gpr' = [gpr EXCEPT ![d] = ChildRegs(i, b)]
  /\ fpu' = [fpu EXCEPT ![d] = info[d].fpu]
  /\ ks5' = [ks5 EXCEPT ![d] = d]
  /\ UNCHANGED <<ret, era, is_hypcall>>

InitChildSharesCsr(d, i, b) ==
  /\ gpr' = [gpr EXCEPT ![d] = ChildRegs(i, b)]
  /\ ret' = [ret EXCEPT ![d] = 0]
  /\ fpu' = [fpu EXCEPT ![d] = info[d].fpu]
  /\ ks5' = [ks5 EXCEPT ![d] = vm[d]]
  /\ UNCHANGED <<era, is_hypcall>>

\* dup_fpu loads the child's own info.fpu: kvm_access_fpu_regs ignores the
\* registers it is given.
init_child_thread_info(d, i, b) ==
  /\ gpr' = [gpr EXCEPT ![d] = ChildRegs(i, b)]
  /\ ret' = [ret EXCEPT ![d] = 0]
  /\ fpu' = [fpu EXCEPT ![d] = info[d].fpu]
  /\ ks5' = [ks5 EXCEPT ![d] = d]
  /\ UNCHANGED <<era, is_hypcall>>

\* emulate_fork_same_vm: a vcpu another thread of the VM has left, or a new one.
dup_vcpu(c, d) ==
  /\ phase[c] = "saved" /\ call[c] = "clone_vm"
  /\ phase[d] = "free" => vm[d] = vm[c]
  /\ phase[d] \in {"unused", "free"}
  /\ phase' = [phase EXCEPT ![c] = "cloning", ![d] = "prepared"]
  /\ vm'    = [vm EXCEPT ![d] = vm[c]]
  /\ child' = [child EXCEPT ![c] = d]
  /\ init_child_thread_info(d, info[c], block[c])
  /\ UNCHANGED <<call, asked, image, info, block, native>>

\* What the kernel gives a new thread: its parent's registers, a0 = 0, and the
\* stack and the thread pointer if the parent asked for them.
NativeChild(c) ==
  LET parent == Go(native[c], "a0", 0, native[c]["pc"] + 1)
      tp     == IF asked[c].w0 = CLONE_SETTLS THEN asked[c].w4 ELSE parent["tp"]
      sp     == IF asked[c].w1 # 0 THEN asked[c].w1 ELSE parent["sp"]
  IN  [parent EXCEPT !["tp"] = tp, !["sp"] = sp]

\* do_simulate_clone with both sides of the clone.
do_simulate_clone(c) ==
  LET d == child[c] IN
  /\ phase[c] = "cloning"
  /\ phase'  = [phase EXCEPT ![c] = "resume", ![d] = "resume"]
  /\ child'  = [child EXCEPT ![c] = NoCpu]
  /\ block'  = [block EXCEPT ![c].w0 = Pid]
  /\ native' = [native EXCEPT ![c] = Go(@, "a0", Pid, @["pc"] + 1), ![d] = NativeChild(c)]
  /\ Served(c)
  /\ UNCHANGED <<vm, image, info, kvmVars>>

\* A fork: d's process has a copy of the parent's memory.
Fork(c, d) ==
  /\ phase[c] = "saved" /\ call[c] = "fork" /\ phase[d] = "unused"
  /\ phase'  = [phase EXCEPT ![c] = "resume", ![d] = "forked"]
  /\ vm'     = [vm EXCEPT ![d] = d]
  /\ image'  = [image EXCEPT ![d] = [info |-> info[c], block |-> block[c]]]
  /\ block'  = [block EXCEPT ![c].w0 = Pid]
  /\ native' = [native EXCEPT ![c] = Go(@, "a0", Pid, @["pc"] + 1), ![d] = NativeChild(c)]
  /\ Served(c)
  /\ UNCHANGED <<child, info, kvmVars>>

\* The child's side: a VM of its own, with a new struct kvm_cpu.
dup_vm(d) ==
  /\ Moves(d, "forked", "resume")
  /\ init_child_thread_info(d, image[d].info, image[d].block)
  /\ image' = [image EXCEPT ![d] = NoImage]
  /\ UNCHANGED <<vm, call, asked, child, info, block, native>>

-----------------------------------------------------------------------------
Args(k) == IF k \in {"clone_vm", "fork"}
             THEN [w0 : {0, CLONE_SETTLS}, w1 : Datum, w4 : Value]
             ELSE {ZeroBlock}

Next ==
  \E c \in Cpu :
    \/ \E v, f \in Value : GuestComputes(c, v, f)
    \/ \E k \in Kinds, r \in Datum : \E args \in Args(k) : GuestSyscall(c, k, args, r)
    \/ GuestReturn(c) \/ KvmRun(c)
    \/ \E r \in Value : SyscallAnswered(c, r)
    \/ Exit(c)
    \/ kvm_get_parent_thread_info(c)
    \/ \E d \in Cpu : dup_vcpu(c, d) \/ Fork(c, d)
    \/ do_simulate_clone(c)
    \/ dup_vm(c)

Spec == Init /\ [][Next]_vars

-----------------------------------------------------------------------------
(* Properties.                                                             *)

\* Types; a cpu belongs to a process from its first use on.
TypeOK ==
  /\ vm \in [Cpu -> Cpu \union {NoCpu}]
  /\ \A c \in Cpu : vm[c] = NoCpu <=> phase[c] = "unused"
  /\ phase \in [Cpu -> Phases]
  /\ call \in [Cpu -> Kinds] /\ asked \in [Cpu -> Block]
  /\ child \in [Cpu -> Cpu \union {NoCpu}]
  /\ image \in [Cpu -> [info : Info, block : Block]]
  /\ info \in [Cpu -> Info] /\ block \in [Cpu -> Block]
  /\ ret \in [Cpu -> Datum] /\ gpr \in [Cpu -> Gpr] /\ era \in [Cpu -> Int]
  /\ fpu \in [Cpu -> Datum] /\ ks5 \in [Cpu -> Cpu \union {NoCpu}]
  /\ is_hypcall \in [Cpu -> BOOLEAN]
  /\ native \in [Cpu -> Gpr]

\* Whenever a thread runs, its registers are those it would have without Dune:
\* through system calls, clones and forks, in new vcpus and in reused ones
\* ("the child's gpr, especially the stack pointer, tls register and pc will
\* be initilized", Readme.md:106).
ContextNative == \A c \in Cpu : phase[c] = "user" => gpr[c] = native[c]

\* A thread that runs leaves its arguments in the block its host task reads.
OwnBlock == \A c \in Cpu : phase[c] = "user" => ks5[c] = c
=============================================================================

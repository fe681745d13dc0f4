------------------------------ MODULE DuneEnter ------------------------------
(***************************************************************************)
(* How a program's main thread becomes a guest: kvm_launch of both ports   *)
(* (src/dune/loongarch/arch.c, src/dune/mips/arch.c), vacate_current_stack *)
(* of src/dune/dune.c, switch_stack and get_fpu_regs of entry.S.           *)
(* kvm_launch takes a picture of the registers, sets up the vcpu and       *)
(* leaves the program's stack to the guest, which goes on from that        *)
(* picture, in the same frame, at the label guest_entry; the host loops on *)
(* a stack of its own from then on.                                        *)
(*                                                                         *)
(* A stack is a sequence of frames; a frame belongs to who wrote it last.  *)
(* The ebase pages are an array of instruction words; instructions that    *)
(* neither leave the handler nor branch are one word, "step".              *)
(***************************************************************************)
EXTENDS Integers, Sequences

CONSTANTS
  Ports,     \* the ports of Dune: "loongarch", "mips"
  Reg,       \* the registers looked at, as word numbers of struct kvm_regs
             \* (0 .. 31 are general; sp is apart)
  FReg,      \* the floating point registers looked at, by number
  Value,     \* what a register may hold; 0 is one
  Entered,   \* what the program's registers may be on entry
  Frame,     \* bound: how many frames a stack may have
  Exc,       \* the exceptions the guest raises, as exception codes
  VS,        \* ECFG.VS, of INIT_VALUE_ECFG
  Slot,      \* distance of MIPS's vectors, 0x80, in words
  PAGESIZE   \* in words

Launch == 4    \* frames of main, dune_enter, arch_dune_enter and kvm_launch

\* CRMD and ECFG, or Status: whether the guest is allowed interrupts, and memory
\* through the TLB; and how far LoongArch's vectors are apart (VS; 0: there is
\* one for all).
Reset             == [ie |-> FALSE, pg |-> FALSE, vs |-> 0]
INIT_VALUE_CRMD   == [ie |-> FALSE, pg |-> TRUE, vs |-> VS]  \* CRMD_PG
INIT_VALUE_STATUS == [ie |-> FALSE, pg |-> TRUE, vs |-> 0]   \* no KSU, ERL, IE

VEC_SIZE   == 2 ^ VS   \* in instructions, that is words
INT_OFFSET == 64

\* The handlers of entry.S, which are copied into the ebase pages.
tlb_refill_entry    == <<"step", "ertn">>
syscall_entry       == <<"step", "hypercall", "ertn">>
ebase_error_entry   == <<"codeflow">>
ebase_tlb_entry     == <<"step", "ertn">>
ebase_general_entry == <<"branch", "codeflow", "step", "hypercall", "ertn">>
SyscallLabel        == 2   \* where the branch goes if Cause.ExcCode is a call's

Instr == {"zero", "invalid", "codeflow", "step", "branch", "hypercall", "ertn"}

ASSUME PortAssumption == Ports \subseteq {"loongarch", "mips"}
ASSUME RegAssumption ==
  /\ {6, 8} \subseteq Reg /\ FReg \subseteq 0 .. 31 /\ 0 \in Value
  /\ Frame \in Nat /\ Frame >= Launch + 2
ASSUME ExcAssumption == Exc \subseteq 0 .. 77 \union {99}

\* The BUILD_ASSERTs of init_ebase, the assertion of ebase_alloc, and that the
\* handlers are not longer than the room they have.
ASSUME VectorAssumption ==
  /\ VS \in Nat \ {0} /\ VEC_SIZE \in Nat /\ PAGESIZE \in Nat /\ Slot \in Nat
  /\ INT_OFFSET * VEC_SIZE = 2 * PAGESIZE
  /\ Len(syscall_entry) <= VEC_SIZE /\ Len(tlb_refill_entry) <= VEC_SIZE
  /\ Len(ebase_error_entry) + Len(ebase_tlb_entry) < Slot
  /\ 3 * Slot + Len(ebase_general_entry) <= PAGESIZE

VARIABLES
  port,    \* what Dune was built for
  pc,      \* the host: a label of kvm_launch, "loop" in host_loop, "kvm_run"
           \* while the guest runs, "dead"
  reg,     \* the host's general registers, and its floating point registers
  fpu,     \*   (fpr, fcsr and the vector unit's vcsr or msacsr)
  fpu_regs,\* init_fpu's struct of these
  regs,    \* kvm_launch's struct kvm_regs: the registers and pc
  info,    \* cpu->info.fpu, from calloc
  ebase,   \* the words of the ebase pages
  csr,     \* the vcpu's CSRs (CP0 registers): what they allow the guest
  vcpu,    \* the vcpu's registers, pc and floating point registers
  trap,    \* the exception that the guest has just raised, or None
  hsp,     \* the host's stack, "program" or "own", and how many frames it has
  gsp,     \* how many frames the program has
  frame,   \* per stack and frame: who wrote it
  first    \* what the host's registers were on entry: the native execution's

vars == <<port, pc, reg, fpu, fpu_regs, regs, info, ebase, csr, vcpu, trap, hsp, gsp, frame, first>>

Mips == port = "mips"

\* The register in which the asm computes guest_entry, and the word of
\* struct kvm_regs from which it is reloaded (offset 64).
Scratch      == IF Mips THEN 8 ELSE 6
ReloadedFrom == 8

\* Exception codes.  A miss of the TLB has an entry of its own.
None        == -1
Refill      == 99
EXCCODE_SYS == IF Mips THEN 8 ELSE 11
Interrupt   == IF Mips THEN {0} ELSE INT_OFFSET .. INT_OFFSET + 13
Raised      == IF Mips THEN 0 .. 31 \union {Refill} ELSE 1 .. INT_OFFSET + 13 \union {Refill}

Fpu   == [fpr : [FReg -> Value], fcsr : Value, vec : Value]
Clear == [fpr |-> [x \in FReg |-> 0], fcsr |-> 0, vec |-> 0]
Saved == FReg \intersect 24 .. 31   \* a function leaves these as they were
Regs  == [r : [Reg -> Value], pc : {"none", "guest_entry", "later"}]
Empty == [r |-> [x \in Reg |-> 0], pc |-> "none"]

ASSUME EnteredAssumption == Entered \subseteq [r : [Reg -> Value], fpu : Fpu]

Init ==
  /\ port \in Ports /\ pc = "launch"
  /\ first \in Entered /\ reg = first.r /\ fpu = first.fpu
  /\ fpu_regs = Clear /\ regs = Empty /\ info = Clear
  /\ ebase = <<>> /\ csr = Reset
  /\ vcpu = [gpr |-> Empty, fpu |-> Clear]
  /\ trap = None
  /\ hsp = [stack |-> "program", depth |-> Launch] /\ gsp = Launch
  /\ frame = [s \in {"program", "own"} |->
               [d \in 1 .. Frame |-> IF s = "program" /\ d <= Launch THEN "program" ELSE "free"]]

-----------------------------------------------------------------------------
Goto(from, to) == pc = from /\ pc' = to

\* The host calls a function, which writes its frame and may use floating point
\* registers but not their control word, or returns from one.  The asm comes
\* before all calls.
HostCalls ==
  /\ pc \notin {"launch", "kvm_run", "dead"} /\ hsp.depth < Frame
  /\ hsp' = [hsp EXCEPT !.depth = @ + 1]
  /\ frame' = [frame EXCEPT ![hsp.stack][hsp.depth + 1] = "host"]
  /\ \E f \in [FReg -> Value] :
       /\ \A x \in Saved : f[x] = fpu.fpr[x]
       /\ fpu' = [fpu EXCEPT !.fpr = f]
  /\ UNCHANGED <<port, pc, reg, fpu_regs, regs, info, ebase, csr, vcpu, trap, gsp, first>>

\* Where kvm_launch's, or host_loop's own frame is.
Base == CASE pc \notin {"loop", "kvm_run"} -> Launch
          [] hsp.stack = "own"             -> 1
          [] OTHER                         -> Launch + 2

HostReturns ==
  /\ pc \notin {"kvm_run", "dead"} /\ hsp.depth > Base
  /\ hsp' = [hsp EXCEPT !.depth = @ - 1]
  /\ UNCHANGED <<port, pc, reg, fpu, fpu_regs, regs, info, ebase, csr, vcpu, trap, gsp, frame, first>>

\* An ioctl or mmap fails (LoongArch's kvm_access_fpu_regs does not look).
Fails ==
  /\ pc \in {"ebase", "csr", "fpu", "set_regs", "vacate"} \union IF Mips THEN {"set_fpu"} ELSE {}
  /\ pc' = "dead"
  /\ UNCHANGED <<port, reg, fpu, fpu_regs, regs, info, ebase, csr, vcpu, trap, hsp, gsp, frame, first>>

Own == hsp.depth = Base   \* kvm_launch itself goes on

\* What the asm stores: every register, on MIPS also hi and lo, and guest_entry.
Picture == [r |-> reg, pc |-> "guest_entry"]

\* (variant) guest_entry is computed before the registers are stored.
CaptureLate ==
  /\ Goto("launch", "ebase") /\ Own
  /\ regs' = [Picture EXCEPT !.r[Scratch] = 0]
  /\ UNCHANGED <<port, reg, fpu, fpu_regs, info, ebase, csr, vcpu, trap, hsp, gsp, frame, first>>

\* The asm takes a register to store guest_entry, and reloads it.
Capture ==
  /\ Goto("launch", "ebase") /\ Own
  /\ regs' = Picture
  /\ reg'  = [reg EXCEPT ![Scratch] = reg[ReloadedFrom]]
  /\ UNCHANGED <<port, fpu, fpu_regs, info, ebase, csr, vcpu, trap, hsp, gsp, frame, first>>

\* An array of words, from mmap; words written into it.
mmap_pages(n)      == [i \in 0 .. n * PAGESIZE - 1 |-> "zero"]
Fill(m, n)         == [i \in DOMAIN m |-> IF i < n THEN "invalid" ELSE m[i]]
memcpy(m, to, src) == [i \in DOMAIN m |-> IF i - to + 1 \in 1 .. Len(src)
                                           THEN src[i - to + 1] ELSE m[i]]

\* Four pages (the loop counts the bytes of one, and writes words), the handler
\* of the miss at the start and that of the system call at its own vector.
\* (variant) The handler is copied one vector further.
PagesOff ==
  LET filled == Fill(mmap_pages(4), 4 * PAGESIZE)
  IN  memcpy(memcpy(filled, 0, tlb_refill_entry), VEC_SIZE * (EXCCODE_SYS + 1), syscall_entry)
LoongarchPages ==
  LET filled == Fill(mmap_pages(4), 4 * PAGESIZE)
  IN  memcpy(memcpy(filled, 0, tlb_refill_entry), VEC_SIZE * EXCCODE_SYS, syscall_entry)

\* One page, with four handlers.
EBASE_TLB_OFFSET   == 0
EBASE_XTLB_OFFSET  == Slot
EBASE_CACHE_OFFSET == 2 * Slot
EBASE_GE_OFFSET    == 3 * Slot

MipsPages ==
  LET filled == Fill(mmap_pages(1), PAGESIZE)
      tlb    == memcpy(filled, EBASE_TLB_OFFSET, ebase_error_entry)
      xtlb   == memcpy(tlb, EBASE_XTLB_OFFSET, ebase_tlb_entry)
      cache  == memcpy(xtlb, EBASE_CACHE_OFFSET, ebase_error_entry)
  IN  memcpy(cache, EBASE_GE_OFFSET, ebase_general_entry)

\* On MIPS ebase_init.
init_ebase ==
  /\ Goto("ebase", "csr") /\ Own
  /\ ebase' = IF Mips THEN MipsPages ELSE LoongarchPages
  /\ UNCHANGED <<port, reg, fpu, fpu_regs, regs, info, csr, vcpu, trap, hsp, gsp, frame, first>>

\* On MIPS init_cp0.
init_csr ==
  /\ Goto("csr", "fpu") /\ Own
  /\ csr' = IF Mips THEN INIT_VALUE_STATUS ELSE INIT_VALUE_CRMD
  /\ UNCHANGED <<port, reg, fpu, fpu_regs, regs, info, ebase, vcpu, trap, hsp, gsp, frame, first>>

\* get_fpu_regs stores the registers, on LoongArch the control words too.
\* (variant) It clears fcsr0 before it has stored it.
ClearsFirst ==
  IF Mips THEN [fpu_regs EXCEPT !.fpr = fpu.fpr] ELSE [fpu EXCEPT !.fcsr = 0]
get_fpu_regs ==
  IF Mips THEN [fpu_regs EXCEPT !.fpr = fpu.fpr] ELSE fpu

\* LoongArch: having stored it, it clears fcsr0.
FpuLoongarch ==
  /\ ~Mips /\ Goto("fpu", "set_fpu") /\ Own
  /\ fpu_regs' = get_fpu_regs
  /\ fpu' = [fpu EXCEPT !.fcsr = 0]
  /\ UNCHANGED <<port, reg, regs, info, ebase, csr, vcpu, trap, hsp, gsp, frame, first>>

\* MIPS: three functions, one after the other.
FpuMips ==
  /\ Mips /\ Goto("fpu", "get_fcsr") /\ Own
  /\ fpu_regs' = get_fpu_regs
  /\ UNCHANGED <<port, reg, fpu, regs, info, ebase, csr, vcpu, trap, hsp, gsp, frame, first>>

get_fcsr ==
  /\ Goto("get_fcsr", "get_msacsr") /\ Own
  /\ fpu_regs' = [fpu_regs EXCEPT !.fcsr = fpu.fcsr]
  /\ UNCHANGED <<port, reg, fpu, regs, info, ebase, csr, vcpu, trap, hsp, gsp, frame, first>>

\* It writes register t0, with whatever it holds, to msacsr instead of reading it.
get_msacsr(t0) ==
  /\ Goto("get_msacsr", "set_fpu") /\ Own
  /\ fpu' = [fpu EXCEPT !.vec = t0]
  /\ fpu_regs' = [fpu_regs EXCEPT !.vec = t0]
  /\ UNCHANGED <<port, reg, regs, info, ebase, csr, vcpu, trap, hsp, gsp, frame, first>>

\* LoongArch's kvm_access_fpu_regs passes on cpu->info.fpu, whatever it is given.
kvm_set_fpu_regs ==
  /\ Goto("set_fpu", "set_regs") /\ Own
  /\ vcpu' = [vcpu EXCEPT !.fpu = IF Mips THEN fpu_regs ELSE info]
  /\ UNCHANGED <<port, reg, fpu, fpu_regs, regs, info, ebase, csr, trap, hsp, gsp, frame, first>>

init_fpu ==
  FpuLoongarch \/ FpuMips \/ get_fcsr \/ (\E t0 \in Value : get_msacsr(t0)) \/ kvm_set_fpu_regs

SetRegs ==
  /\ Goto("set_regs", "vacate") /\ Own
  /\ vcpu' = [vcpu EXCEPT !.gpr = regs]
  /\ UNCHANGED <<port, reg, fpu, fpu_regs, regs, info, ebase, csr, trap, hsp, gsp, frame, first>>

\* (variant) host_loop is called, above vacate_current_stack's frame.
VacateStays ==
  /\ Goto("vacate", "loop") /\ Own
  /\ hsp' = [stack |-> "program", depth |-> Launch + 2]
  /\ frame' = [frame EXCEPT !["program"][Launch + 1] = "host", !["program"][Launch + 2] = "host"]
  /\ UNCHANGED <<port, reg, fpu, fpu_regs, regs, info, ebase, csr, vcpu, trap, gsp, first>>

\* mmap_one_page and switch_stack: host_loop has the first frame of a new stack.
vacate_current_stack ==
  /\ Goto("vacate", "loop") /\ Own
  /\ hsp' = [stack |-> "own", depth |-> 1]
  /\ frame' = [frame EXCEPT !["own"][1] = "host"]
  /\ UNCHANGED <<port, reg, fpu, fpu_regs, regs, info, ebase, csr, vcpu, trap, gsp, first>>

\* host_loop, itself, runs the vcpu.
KvmRun ==
  /\ Goto("loop", "kvm_run") /\ Own
  /\ trap' = None
  /\ UNCHANGED <<port, reg, fpu, fpu_regs, regs, info, ebase, csr, vcpu, hsp, gsp, frame, first>>

-----------------------------------------------------------------------------
(* The guest.                                                              *)

Later == vcpu' = [vcpu EXCEPT !.gpr.pc = "later"] /\ trap' = None

GuestCalls ==
  /\ pc = "kvm_run" /\ gsp < Frame
  /\ gsp' = gsp + 1 /\ Later
  /\ frame' = [frame EXCEPT !["program"][gsp + 1] = "program"]
  /\ UNCHANGED <<port, pc, reg, fpu, fpu_regs, regs, info, ebase, csr, hsp, first>>

\* From kvm_launch on: the program finds its callers' frames.
GuestReturns ==
  /\ pc = "kvm_run" /\ gsp > 1
  /\ gsp' = gsp - 1 /\ Later
  /\ UNCHANGED <<port, pc, reg, fpu, fpu_regs, regs, info, ebase, csr, hsp, frame, first>>

\* The word an exception is taken to.  TLBREBASE and EBASE are the address of
\* the pages; on MIPS, where UX is set, the miss has the second slot.
Vector(e) ==
  IF Mips THEN IF e = Refill THEN EBASE_XTLB_OFFSET ELSE EBASE_GE_OFFSET
  ELSE IF e = Refill \/ csr.vs = 0 THEN 0 ELSE e * 2 ^ csr.vs

\* The general handler of MIPS branches on Cause.ExcCode.
Entry(e) ==
  CASE ebase[Vector(e)] # "branch" -> Vector(e)
    [] OTHER -> Vector(e) + IF e = EXCCODE_SYS THEN SyscallLabel ELSE 1

\* Word w is the first from a on that leaves the handler.
Leaves(a, w) ==
  /\ a <= w /\ ebase[w] # "step"
  /\ \A i \in a .. w - 1 : ebase[i] = "step"

\* Where it leads: ertn (eret) back to the guest, HYPERCALL out of KVM_RUN; other
\* hypercalls are an error of KVM_RUN.  From a page left empty nothing comes back.
Outcome(instr) ==
  CASE instr \in {"ertn", "zero"} -> "kvm_run" [] instr = "hypercall" -> "loop" [] OTHER -> "dead"

\* The guest traps into the ebase pages, by an interrupt only if it may.
GuestTraps(e) ==
  /\ pc = "kvm_run" /\ csr.pg /\ e \in Raised /\ (e \in Interrupt => csr.ie)
  /\ \E w \in DOMAIN ebase : Leaves(Entry(e), w) /\ pc' = Outcome(ebase[w])
  /\ trap' = e
  /\ UNCHANGED <<port, reg, fpu, fpu_regs, regs, info, ebase, csr, vcpu, hsp, gsp, frame, first>>

Next ==
  \/ HostCalls \/ HostReturns \/ Fails
  \/ Capture \/ init_ebase \/ init_csr \/ init_fpu \/ SetRegs
  \/ vacate_current_stack \/ KvmRun
  \/ GuestCalls \/ GuestReturns \/ \E e \in Exc : GuestTraps(e)

Spec == Init /\ [][Next]_vars

-----------------------------------------------------------------------------
(* Properties.                                                             *)

TypeOK ==
  /\ port \in Ports
  /\ pc \in {"launch", "ebase", "csr", "fpu", "get_fcsr", "get_msacsr", "set_fpu", "set_regs",
             "vacate", "loop", "kvm_run", "dead"}
  /\ reg \in [Reg -> Value] /\ fpu \in Fpu /\ fpu_regs \in Fpu
  /\ regs \in Regs /\ info \in Fpu
  /\ ebase = <<>> \/ ebase \in [0 .. (IF Mips THEN 1 ELSE 4) * PAGESIZE - 1 -> Instr]
  /\ csr \in {Reset, INIT_VALUE_CRMD, INIT_VALUE_STATUS}
  /\ vcpu \in [gpr : Regs, fpu : Fpu] /\ trap \in Exc \union {None}
  /\ hsp \in [stack : {"program", "own"}, depth : 1 .. Frame] /\ gsp \in 1 .. Frame
  /\ frame \in [{"program", "own"} -> [1 .. Frame -> {"free", "program", "host"}]]
  /\ first \in [r : [Reg -> Value], fpu : Fpu]

\* Neither the host nor the guest writes into the other's frames, however
\* deep each of them goes.
FramesKept ==
  /\ \A d \in 1 .. gsp : frame["program"][d] = "program"
  /\ pc \in {"loop", "kvm_run"} =>
       \A d \in Base .. hsp.depth : frame[hsp.stack][d] = "host"

\* At guest_entry the guest has the registers the program had when it called.
ResumesNative ==
  pc = "kvm_run" /\ vcpu.gpr.pc # "later" =>
    vcpu.gpr = [r |-> first.r, pc |-> "guest_entry"]

\* "hypercall instruction used for catching invalid access" (mips/arch.c:86): a
\* system call comes back to host_loop, a miss stays in the guest, and every
\* other exception the guest raises ends the process, wherever the vectors,
\* the handlers and the words around them lie in the ebase pages.
TrapsServed ==
  /\ trap = Refill => pc = "kvm_run"
  /\ trap \notin {None, Refill} => pc = IF trap = EXCCODE_SYS THEN "loop" ELSE "dead"

\* "kvm_set_fpu_regs(cpu, &fpu_regs)" (loongarch/arch.c:174, mips/arch.c:326):
\* although the calls before it use floating point registers, what init_fpu has
\* read is what kvm_launch's caller relies on: the registers a function keeps,
\* and the control words; on MIPS the guest gets it.
FpuPictured ==
  LET Native(f) == /\ \A x \in Saved : f.fpr[x] = first.fpu.fpr[x]
                   /\ f.fcsr = first.fpu.fcsr
  IN  /\ pc = "set_fpu" => Native(fpu_regs) /\ (~Mips => fpu_regs.vec = first.fpu.vec)
      /\ Mips /\ pc \in {"set_regs", "vacate", "loop", "kvm_run"} => Native(vcpu.fpu)
=============================================================================

----------------------------- MODULE MipsGuest -----------------------------
(***************************************************************************)
(* The MIPS port inside the guest, and the host's side of its system call  *)
(* convention (src/dune/mips/entry.S, do_syscall and                       *)
(* arch_handle_special_syscall of src/dune/mips/arch.c), on one vcpu.      *)
(*                                                                         *)
(* On MIPS both handlers run in the unmapped segment xkphys with           *)
(* interrupts off and use registers that no program uses, k0 and k1, so    *)
(* each is one step.  Calls take their number in $2 and arguments in       *)
(* $4 .. $9; they return in $2, with an error flag in $7, and pipe returns *)
(* a second result in $3.  Of the arguments $4 and $7 are kept; $16 stands *)
(* for all registers a call does not touch.                                *)
(***************************************************************************)
EXTENDS Integers

CONSTANTS
  PageSize,    \* 1G: the TLB maps pairs of such pages
  Addr,        \* addresses the program uses
  Value,       \* what the program and the kernel put into registers
  SYS_PIPE,    \* numbers of pipe and set_thread_area, in Value; all other
  SYS_SET_THREAD_AREA, \* calls are plain
  LastPc,      \* bound: length of the program
  DelaySlots   \* whether a syscall instruction may follow a branch, in its slot

ASSUME PageAssumption == PageSize \in Nat \ {0} /\ PageSize % 4096 = 0
ASSUME AddrAssumption == Addr \subseteq Nat
ASSUME ValueAssumption == Value \subseteq Nat /\ {SYS_PIPE, SYS_SET_THREAD_AREA} \subseteq Value
ASSUME ProgramAssumption == LastPc \in Nat /\ DelaySlots \in BOOLEAN

k0 == 26
k1 == 27
Reg      == {2, 3, 4, 7, 16, k0, k1}
AnyValue == -1

\* EntryLo: the page frame number begins at bit 6, the address at bit 12.
EntryLo_VPN_SHIFT == 64                 \* 2^6
EntryLo_FLAGS     == 3 * 8 + 4 + 2 + 1  \* C, D, V, G

VARIABLES
  at,     \* "user" or "host"
  pc,     \* the program's, in instructions
  epc,
  reg,
  tlb,    \* its entries: the pair of pages (EntryHi), EntryLo0 and EntryLo1
  block,  \* words 0, 1 and 4 of syscall_parameter
  want,   \* the registers as the program, or the kernel called, knows them
  next,   \* where the program goes on
  tp,     \* the host task's thread pointer
  userlocal \* the vcpu's: what the program reads as its own

vars == <<at, pc, epc, reg, tlb, block, want, next, tp, userlocal>>

\* rdhwr $29
get_tp == tp

Init ==
  /\ at = "user" /\ pc = 0 /\ epc = 0
  /\ reg \in {[r \in Reg |-> v] : v \in Value}
  /\ tlb = {}
  /\ block = [w \in {0, 1, 4} |-> 0]
  /\ want = reg /\ next = 0
  /\ tp = 0 /\ userlocal = get_tp

-----------------------------------------------------------------------------
(* The processor, and the program.                                         *)

PairOf(a) == a \div (2 * PageSize)
Hits(e, a) == e.pair = PairOf(a)
Translate(e, a) ==
  LET lo == IF (a \div PageSize) % 2 = 0 THEN e.lo0 ELSE e.lo1
  IN  (lo \div 64) * 4096 + (a % PageSize)
Mapped(a) == \E e \in tlb : Hits(e, a)

\* An instruction that changes a register.
Compute(r, v) ==
  /\ at = "user" /\ pc < LastPc /\ r \notin {k0, k1}
  /\ reg'  = [reg EXCEPT ![r] = v]
  /\ want' = [want EXCEPT ![r] = v]
  /\ pc'   = pc + 1 /\ next' = pc + 1
  /\ UNCHANGED <<at, epc, tlb, block, tp, userlocal>>

\* The TLB loses an entry, to a refill or to KVM.
TlbLoses(e) ==
  /\ e \in tlb
  /\ tlb' = tlb \ {e}
  /\ UNCHANGED <<at, pc, epc, reg, block, want, next, tp, userlocal>>

-----------------------------------------------------------------------------
(* entry.S.                                                                *)

\* (variant) The pair is aligned to one page.
PairAlignedToPage(badvaddr) ==
  LET lo == (((badvaddr \div PageSize) * PageSize) \div EntryLo_VPN_SHIFT) + EntryLo_FLAGS
  IN  [pair |-> PairOf(badvaddr), lo0 |-> lo, lo1 |-> lo + PageSize \div EntryLo_VPN_SHIFT]

\* What ebase_tlb_entry writes with tlbwr: badvaddr with the low bits cleared,
\* shifted to its place in EntryLo, for the second page one page further.
EntryFor(badvaddr) ==
  LET lo == ((PairOf(badvaddr) * 2 * PageSize) \div EntryLo_VPN_SHIFT) + EntryLo_FLAGS
  IN  [pair |-> PairOf(badvaddr), lo0 |-> lo, lo1 |-> lo + PageSize \div EntryLo_VPN_SHIFT]

ebase_tlb_entry(badvaddr) ==
  /\ at = "user" /\ ~Mapped(badvaddr)
  /\ tlb' = tlb \union {EntryFor(badvaddr)}
  /\ reg' = [reg EXCEPT ![k0] = PageSize \div EntryLo_VPN_SHIFT, ![k1] = EntryFor(badvaddr).lo1]
  /\ UNCHANGED <<at, pc, epc, block, want, next, tp, userlocal>>

\* The syscall instruction, in the slot of a branch or not, and the general
\* entry up to HYPERCALL.  In a slot EPC is the branch's address.
\* (variant) $7 is stored in the word of another argument.
SyscallSwaps(d) ==
  /\ at = "user" /\ pc \in 1 .. LastPc - 1 /\ (d => DelaySlots)
  /\ at' = "host"
  /\ epc' = IF d THEN pc - 1 ELSE pc
  /\ block' = [w \in {0, 1, 4} |-> CASE w = 0 -> reg[2] [] w = 1 -> reg[7] [] OTHER -> reg[4]]
  /\ reg' = [reg EXCEPT ![k1] = 0]
  /\ next' = pc + 1
  /\ UNCHANGED <<pc, tlb, want, tp, userlocal>>
ebase_general_entry(d) ==
  /\ at = "user" /\ pc \in 1 .. LastPc - 1 /\ (d => DelaySlots)
  /\ at' = "host"
  /\ epc' = IF d THEN pc - 1 ELSE pc
  /\ block' = [w \in {0, 1, 4} |-> CASE w = 0 -> reg[2] [] w = 1 -> reg[4] [] OTHER -> reg[7]]
  /\ reg' = [reg EXCEPT ![k1] = 0]
  /\ next' = pc + 1
  /\ UNCHANGED <<pc, tlb, want, tp, userlocal>>

\* Where the handler moves EPC.  (variant) It does not.
ReturnsAgain(e) == e
ReturnsTo(e)    == e + 1

\* KVM_RUN enters the guest behind HYPERCALL: the results are loaded and the
\* program goes on behind EPC.
Resume(answer) ==
  /\ reg' = [reg EXCEPT ![2] = answer[0], ![3] = answer[1], ![7] = answer[4], ![k0] = ReturnsTo(epc)]
  /\ at' = "user" /\ epc' = ReturnsTo(epc) /\ pc' = ReturnsTo(epc)

-----------------------------------------------------------------------------
(* The host.                                                               *)

\* arch_get_sysno
Sysno == block[0]

\* do_syscall: the kernel leaves $2 and the flag $7, and what it likes in $3.
\* (variant) The flag is not passed on.
DropFlag(r2, r7) == [block EXCEPT ![0] = r2]
Answer(r2, r7)   == [block EXCEPT ![0] = r2, ![4] = r7]

do_syscall(r2, r7) ==
  /\ at = "host" /\ Sysno \notin {SYS_PIPE, SYS_SET_THREAD_AREA}
  /\ block' = Answer(r2, r7)
  /\ want' = [want EXCEPT ![2] = r2, ![3] = AnyValue, ![7] = r7]
  /\ Resume(block')
  /\ UNCHANGED <<tlb, next, tp, userlocal>>

\* host_loop calls arch_set_thread_area, which copies the host's thread pointer,
\* and then makes the call, which changes it.
set_thread_area ==
  /\ at = "host" /\ Sysno = SYS_SET_THREAD_AREA
  /\ userlocal' = get_tp
  /\ tp' = block[1]
  /\ block' = Answer(0, 0)
  /\ want' = [want EXCEPT ![2] = 0, ![3] = AnyValue, ![7] = 0]
  /\ Resume(block')
  /\ UNCHANGED <<tlb, next>>

\* host_loop_pipe stores the two descriptors where libc would, at $4, and
\* returns 0; arch_handle_special_syscall reads them back.
PipeSucceeds(fd0, fd1) ==
  /\ at = "host" /\ Sysno = SYS_PIPE
  /\ block' = [block EXCEPT ![0] = fd0, ![1] = fd1, ![4] = 0]
  /\ want' = [want EXCEPT ![2] = fd0, ![3] = fd1, ![7] = 0]
  /\ Resume(block')
  /\ UNCHANGED <<tlb, next, tp, userlocal>>

\* Its failure is the error number, never 0.
PipeFails(errno) ==
  /\ at = "host" /\ Sysno = SYS_PIPE /\ errno # 0
  /\ block' = [block EXCEPT ![0] = errno, ![4] = 1]
  /\ want' = [want EXCEPT ![2] = errno, ![3] = AnyValue, ![7] = 1]
  /\ Resume(block')
  /\ UNCHANGED <<tlb, next, tp, userlocal>>

Next ==
  \/ \E r \in Reg, v \in Value : Compute(r, v)
  \/ \E e \in tlb : TlbLoses(e)
  \/ \E a \in Addr : ebase_tlb_entry(a)
  \/ \E d \in BOOLEAN : ebase_general_entry(d)
  \/ \E r2 \in Value, r7 \in {0, 1} : do_syscall(r2, r7)
  \/ set_thread_area
  \/ \E fd0, fd1 \in Value : PipeSucceeds(fd0, fd1)
  \/ \E errno \in Value : PipeFails(errno)

Spec == Init /\ [][Next]_vars

-----------------------------------------------------------------------------
(* Properties.                                                             *)

Entry == [pair : Nat, lo0 : Nat, lo1 : Nat]

TypeOK ==
  /\ at \in {"user", "host"} /\ pc \in 0 .. LastPc /\ epc \in 0 .. LastPc
  /\ reg \in [Reg -> Nat] /\ tlb \subseteq Entry
  /\ block \in [{0, 1, 4} -> Nat]
  /\ want \in [Reg -> Nat \union {AnyValue}] /\ next \in 0 .. LastPc
  /\ tp \in Nat /\ userlocal \in Nat

\* The program sees host virtual addresses: whatever was refilled and lost, an
\* entry maps each of its addresses to itself.
IdentityMap == \A e \in tlb, a \in Addr : Hits(e, a) => Translate(e, a) = a

\* Between calls the program finds its registers as it left them or as the
\* kernel answered, and is where it would be.
ProgramUndisturbed ==
  at = "user" =>
    /\ pc = next
    /\ \A r \in Reg \ {k0, k1} : want[r] # AnyValue => reg[r] = want[r]

\* The host finds the number and the arguments of the call.
ArgsDelivered == at = "host" => block[0] = want[2] /\ block[1] = want[4] /\ block[4] = want[7]
=============================================================================

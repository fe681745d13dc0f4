----------------------------- MODULE GuestEntry -----------------------------
(***************************************************************************)
(* What runs inside the guest besides the program: the TLB refill handler  *)
(* and the system call handler of src/dune/loongarch/entry.S, on one vcpu. *)
(* The guest has no page table: on a miss the refill handler maps the pair *)
(* of pages around the address to itself.  The system call handler runs    *)
(* mapped, so a refill can happen between any two of its instructions, and *)
(* the TLB can lose an entry at any time.                                  *)
(*                                                                         *)
(* The handlers are given as code, one instruction of entry.S per element, *)
(* and one step executes one instruction.  Of the argument registers a0    *)
(* and a7 are kept.  The syscall_parameter block is reached through the    *)
(* window DMW1, never through the TLB.                                     *)
(***************************************************************************)
EXTENDS Integers, Sequences

CONSTANTS
  TLB_PS, PageSize,  \* 29 and 2^29: the TLB maps pairs of such pages
  Ebase,             \* address of the system call handler
  Addr,              \* addresses the program uses
  Value              \* values it computes with

ASSUME PageAssumption ==
  /\ PageSize \in Nat \ {0} /\ PageSize % 64 = 0 /\ PageSize > 64
  /\ TLB_PS \in 1 .. 63
ASSUME AddrAssumption == Addr \subseteq Nat /\ Ebase \in Nat
ASSUME ValueAssumption == Value \subseteq Nat

TLBRELO0_STANDARD_BITS == 1 + 2 + 16 + 64  \* V, WE, CCA, GLOBAL
TLBRELO1_STANDARD_BITS == TLBRELO0_STANDARD_BITS + PageSize
SyscallParameter == -1  \* the value of KS5: the block, through DMW1
AnyValue         == -2  \* what the program cannot rely on
NoAddr           == -1

VARIABLES
  at,     \* where the vcpu is: in "user" and the pc, in "sys" or "refill" and
          \* the index of the next instruction, or in "host"
  reg,    \* t0, t1, a0, a7
  csr,
  tlb,    \* its entries: TLBREHI, TLBRELO0 and TLBRELO1 when filled
  block,  \* syscall_parameter: words 0 and 7
  goal,   \* the address the program is accessing
  want    \* the registers and the pc as the program knows them

vars == <<at, reg, csr, tlb, block, goal, want>>

Init ==
  /\ at    = <<"user", 0>>
  /\ reg   \in [{"t0", "t1", "a0", "a7"} -> Value]
  /\ csr   = [KS0 |-> 0, KS5 |-> SyscallParameter,
              KS6 |-> TLBRELO0_STANDARD_BITS, KS7 |-> TLBRELO1_STANDARD_BITS,
              TLBRSAVE |-> 0, TLBREHI |-> 0, TLBRELO0 |-> 0, TLBRELO1 |-> 0,
              EPC |-> 0, TLBREPC |-> <<"user", 0>>]
  /\ tlb   = {}
  /\ block = [a0 |-> 0, a7 |-> 0]
  /\ goal  = NoAddr
  /\ want  = [t0 |-> reg["t0"], t1 |-> reg["t1"], a0 |-> reg["a0"],
              a7 |-> reg["a7"], pc |-> 0]

-----------------------------------------------------------------------------
(* entry.S.                                                                *)

\* The refill handler, with the register that saves t1, the alignment of the
\* pair and the page size as parameters.
RefillCode(save, pair, ps) == <<
  <<"csrwr", "t0", "TLBRSAVE">>, <<"csrwr", "t1", save>>,
  <<"csrrd", "t0", "TLBREHI">>, <<"srli", "t0", pair>>, <<"slli", "t0", pair>>,
  <<"li", "t1", ps>>, <<"add", "t1", "t0">>, <<"csrwr", "t1", "TLBREHI">>,
  <<"csrrd", "t1", "KS6">>, <<"add", "t1", "t0">>, <<"csrwr", "t1", "TLBRELO0">>,
  <<"csrrd", "t1", "KS7">>, <<"add", "t1", "t0">>, <<"csrwr", "t1", "TLBRELO1">>,
  <<"tlbfill">>,
  <<"csrrd", "t0", "TLBRSAVE">>, <<"csrrd", "t1", save>>, <<"ertn">> >>

\* (variants) The pair is aligned to one page; the page size is left out; t1
\* is saved where the system call handler has the address of the block.
RefillAlignedToPage == RefillCode("KS0", PageSize, TLB_PS)
RefillNoPageSize    == RefillCode("KS0", 2 * PageSize, 0)
RefillSavesInKS5    == RefillCode("KS5", 2 * PageSize, TLB_PS)

tlb_refill_entry == RefillCode("KS0", 2 * PageSize, TLB_PS)

\* The system call handler, with the distance it moves EPC as a parameter.
SyscallCode(move) == <<
  <<"csrrd", "t0", "KS5">>, <<"st", "a0">>, <<"st", "a7">>, <<"clear", "a0">>,
  <<"hypercall">>, <<"ld", "a0">>,
  <<"csrrd", "t0", "EPC">>, <<"addi", "t0", move>>, <<"csrwr", "t0", "EPC">>,
  <<"ertn">> >>

\* (variant) The program goes on at the syscall instruction itself.
SyscallNotSkipped == SyscallCode(0)

syscall_entry == SyscallCode(4)

-----------------------------------------------------------------------------
(* The processor.                                                          *)

PairOf(a) == a \div (2 * PageSize)

\* An entry maps the pair of pages of the size in its low bits; the low bits
\* of its halves are attributes.
Hits(e, a) == e.hi % 64 = TLB_PS /\ PairOf(e.hi) = PairOf(a)
Translate(e, a) ==
  LET lo == IF (a \div PageSize) % 2 = 0 THEN e.lo0 ELSE e.lo1
  IN  ((lo \div PageSize) * PageSize) + (a % PageSize)
Mapped(a) == \E e \in tlb : Hits(e, a)

\* The next instruction of a handler.  The refill handler runs unmapped.
Handler == IF at[1] = "sys" THEN syscall_entry ELSE tlb_refill_entry
Fetch(op) ==
  /\ at[1] \in {"sys", "refill"} /\ (at[1] = "sys" => Mapped(Ebase))
  /\ Handler[at[2]][1] = op
Rd == Handler[at[2]][2]
Src == Handler[at[2]][3]
Forward == at' = <<at[1], at[2] + 1>>
Sets(v) == reg' = [reg EXCEPT ![Rd] = v]

Csrrd ==
  /\ Fetch("csrrd") /\ Forward
  /\ Sets(csr[Src])
  /\ UNCHANGED <<csr, tlb, block, goal, want>>

\* csrwr exchanges the register and the CSR.
Csrwr ==
  /\ Fetch("csrwr") /\ Forward
  /\ Sets(csr[Src])
  /\ csr' = [csr EXCEPT ![Src] = reg[Rd]]
  /\ UNCHANGED <<tlb, block, goal, want>>

Compute ==
  /\ \/ Fetch("srli")  /\ Sets(reg[Rd] \div Src)
     \/ Fetch("slli")  /\ Sets(reg[Rd] * Src)
     \/ Fetch("li")    /\ Sets(Src)
     \/ Fetch("add")   /\ Sets(reg[Rd] + reg[Src])
     \/ Fetch("addi")  /\ Sets(reg[Rd] + Src)
     \/ Fetch("clear") /\ Sets(0)
  /\ Forward
  /\ UNCHANGED <<csr, tlb, block, goal, want>>

Tlbfill ==
  /\ Fetch("tlbfill") /\ Forward
  /\ tlb' = tlb \union
       {[hi |-> csr["TLBREHI"], lo0 |-> csr["TLBRELO0"], lo1 |-> csr["TLBRELO1"]]}
  /\ UNCHANGED <<reg, csr, block, goal, want>>

\* The block is the only memory the handlers use; a wrong pointer goes astray.
Store ==
  /\ Fetch("st") /\ Forward
  /\ block' = IF reg["t0"] = SyscallParameter THEN [block EXCEPT ![Rd] = reg[Rd]]
                                              ELSE block
  /\ UNCHANGED <<reg, csr, tlb, goal, want>>

Load ==
  /\ Fetch("ld") /\ Forward
  /\ Sets(IF reg["t0"] = SyscallParameter THEN block["a0"] ELSE AnyValue)
  /\ UNCHANGED <<csr, tlb, block, goal, want>>

Ertn ==
  /\ Fetch("ertn")
  /\ at' = IF at[1] = "refill" THEN csr["TLBREPC"] ELSE <<"user", csr["EPC"]>>
  /\ UNCHANGED <<reg, csr, tlb, block, goal, want>>

Hypercall ==
  /\ Fetch("hypercall")
  /\ at' = <<"host", at[2]>>
  /\ UNCHANGED <<reg, csr, tlb, block, goal, want>>

\* The host performs the call: arch_do_syscall stores the answer, and KVM_RUN
\* goes on behind the HYPERCALL with a0 = hypercall.ret.
HostAnswers(r) ==
  /\ at[1] = "host"
  /\ at'    = <<"sys", at[2] + 1>>
  /\ block' = [block EXCEPT !["a0"] = r]
  /\ reg'   = [reg EXCEPT !["a0"] = 0]
  /\ want'  = [want EXCEPT !["a0"] = r, !["t0"] = AnyValue, !["pc"] = 4]
  /\ UNCHANGED <<csr, tlb, goal>>

\* An access, or the fetch of an instruction, finds no entry.
Refill(a) ==
  /\ ~Mapped(a)
  /\ at'  = <<"refill", 1>>
  /\ csr' = [csr EXCEPT !["TLBREPC"] = at,
                        !["TLBREHI"] = ((a \div 64) * 64) + (@ % 64)]
  /\ UNCHANGED <<reg, tlb, block, goal, want>>

Miss ==
  \/ at[1] = "user" /\ goal # NoAddr /\ Refill(goal)
  \/ at[1] = "sys" /\ Refill(Ebase)

\* A replacement, another guest, or a move to another processor.  The refill
\* handler does not look at the TLB, so losses during it can happen behind it.
Evict(e) ==
  /\ at[1] # "refill"
  /\ tlb' = tlb \ {e}
  /\ UNCHANGED <<at, reg, csr, block, goal, want>>

-----------------------------------------------------------------------------
(* The program.                                                            *)

Quiet == at[1] = "user" /\ goal = NoAddr

ProgramComputes(r, v) ==
  /\ Quiet
  /\ at'   = <<"user", 0>>
  /\ reg'  = [reg EXCEPT ![r] = v]
  /\ want' = [want EXCEPT ![r] = v, !["pc"] = 0]
  /\ UNCHANGED <<csr, tlb, block, goal>>

ProgramAccesses(a) ==
  /\ Quiet
  /\ goal' = a
  /\ UNCHANGED <<at, reg, csr, tlb, block, want>>

AccessDone ==
  /\ at[1] = "user" /\ goal # NoAddr /\ Mapped(goal)
  /\ goal' = NoAddr
  /\ UNCHANGED <<at, reg, csr, tlb, block, want>>

ProgramCalls ==
  /\ Quiet /\ at[2] = 0
  /\ at'  = <<"sys", 1>>
  /\ csr' = [csr EXCEPT !["EPC"] = at[2]]
  /\ UNCHANGED <<reg, tlb, block, goal, want>>

-----------------------------------------------------------------------------
Instruction ==
  Csrrd \/ Csrwr \/ Compute \/ Tlbfill \/ Store \/ Load \/ Ertn \/ Hypercall

Program ==
  \/ \E r \in DOMAIN reg, v \in Value : ProgramComputes(r, v)
  \/ \E a \in Addr : ProgramAccesses(a)
  \/ ProgramCalls

Next ==
  \/ Instruction \/ Miss \/ AccessDone \/ Program
  \/ \E r \in Value : HostAnswers(r)
  \/ \E e \in tlb : Evict(e)

Spec == Init /\ [][Next]_vars

\* The processor and the host go on, and an entry just filled is not lost for
\* ever before the instruction that needs it.
Fairness ==
  /\ WF_vars(Miss) /\ WF_vars(Instruction)
  /\ SF_vars(AccessDone) /\ SF_vars(at[1] = "sys" /\ Instruction)
  /\ WF_vars(\E r \in Value : HostAnswers(r))

FairSpec == Spec /\ Fairness

-----------------------------------------------------------------------------
(* Properties.                                                             *)

TypeOK ==
  /\ at \in ({"user"} \X {0, 4}) \union ({"sys"} \X (1 .. Len(syscall_entry)))
              \union ({"refill"} \X (1 .. Len(tlb_refill_entry)))
              \union ({"host"} \X {5})
  /\ DOMAIN reg = {"t0", "t1", "a0", "a7"} /\ \A r \in DOMAIN reg : reg[r] \in Int
  /\ \A c \in DOMAIN csr \ {"TLBREPC"} : csr[c] \in Int
  /\ csr["TLBREPC"][1] \in {"user", "sys"}
  /\ goal \in Addr \union {NoAddr}

\* "GVA mapped to HVA 1:1" (Readme.md:25): whatever the TLB holds translates an
\* address to itself.
IdentityMap ==
  \A e \in tlb, a \in Addr \union {Ebase} : Hits(e, a) => Translate(e, a) = a

\* The program does not notice the refills, and of a system call nothing but
\* its result, the pc, and t0, which the caller saves (entry.S:44).
ProgramUndisturbed ==
  at[1] = "user" =>
    /\ \A r \in DOMAIN reg : want[r] # AnyValue => reg[r] = want[r]
    /\ at[2] = want.pc

\* The host finds the program's arguments in the block.
ArgsDelivered ==
  at[1] = "host" => block["a0"] = want.a0 /\ block["a7"] = want.a7

\* Accesses and calls come to an end.
ProgramGoesOn == ~Quiet ~> Quiet
=============================================================================

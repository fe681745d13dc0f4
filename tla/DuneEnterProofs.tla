--------------------------- MODULE DuneEnterProofs ---------------------------
(***************************************************************************)
(* DuneEnter's properties hold for any registers and values, any depth of  *)
(* the stacks, any exceptions and any size of pages and vectors that passes *)
(* the code's own assertions.  Inv, the inductive invariant, follows the   *)
(* picture of the registers from kvm_launch's struct kvm_regs to the vcpu, *)
(* the floating point registers likewise, and says whose stack is whose    *)
(* and what the ebase pages hold.                                          *)
(***************************************************************************)
EXTENDS DuneEnter, TLAPS

\* TypeOK, without the frames and the ebase pages.
Types ==
  /\ port \in Ports
  /\ pc \in {"launch", "ebase", "csr", "fpu", "get_fcsr", "get_msacsr", "set_fpu", "set_regs",
             "vacate", "loop", "kvm_run", "dead"}
  /\ reg \in [Reg -> Value] /\ fpu \in Fpu /\ fpu_regs \in Fpu
  /\ regs \in Regs /\ info \in Fpu
  /\ csr \in {Reset, INIT_VALUE_CRMD, INIT_VALUE_STATUS}
  /\ vcpu \in [gpr : Regs, fpu : Fpu] /\ trap \in Exc \union {None}
  /\ first \in [r : [Reg -> Value], fpu : Fpu]

\* The picture of the registers reaches the vcpu.
Pictured ==
  /\ pc = "launch" => reg = first.r
  /\ pc \in {"ebase", "csr", "fpu", "get_fcsr", "get_msacsr", "set_fpu", "set_regs"} =>
       regs = [r |-> first.r, pc |-> "guest_entry"]
  /\ pc \in {"vacate", "loop", "kvm_run"} /\ vcpu.gpr.pc # "later" =>
       vcpu.gpr = [r |-> first.r, pc |-> "guest_entry"]

\* The registers that functions keep, in the unit or in a picture of it.
SavedIn(f) == \A x \in Saved : f.fpr[x] = first.fpu.fpr[x]

\* The floating point registers are native until they are read, and so are
\* then, one after the other, those read and those set.
FpuPassed ==
  /\ pc \in {"launch", "ebase", "csr", "fpu"} =>
       SavedIn(fpu) /\ fpu.fcsr = first.fpu.fcsr /\ fpu.vec = first.fpu.vec
  /\ pc = "get_fcsr" => fpu.fcsr = first.fpu.fcsr
  /\ pc \in {"get_fcsr", "get_msacsr"} => Mips
  /\ pc \in {"get_fcsr", "get_msacsr", "set_fpu"} => SavedIn(fpu_regs)
  /\ pc \in {"get_msacsr", "set_fpu"} => fpu_regs.fcsr = first.fpu.fcsr
  /\ FpuPictured

\* The ebase pages and the vcpu's CSRs are set up before the vcpu runs; what an
\* exception then came to.
Pages == IF Mips THEN MipsPages ELSE LoongarchPages

Vectors ==
  /\ ebase \in {<<>>, Pages}
  /\ pc \notin {"launch", "ebase", "dead"} => ebase = Pages
  /\ pc \notin {"launch", "ebase", "csr", "dead"} =>
       csr = IF Mips THEN INIT_VALUE_STATUS ELSE INIT_VALUE_CRMD
  /\ TrapsServed

\* The host works above the program's frames, or on its own stack.
Stacks ==
  /\ hsp \in [stack : {"program", "own"}, depth : 1 .. Frame] /\ gsp \in 1 .. Frame
  /\ frame \in [{"program", "own"} -> [1 .. Frame -> {"free", "program", "host"}]]
  /\ hsp.stack = "program" => pc \notin {"loop", "kvm_run"} /\ gsp = Launch /\ hsp.depth >= Launch
  /\ hsp.stack = "own" => pc \in {"loop", "kvm_run", "dead"}
  /\ FramesKept

\* The inductive invariant.
Inv == Types /\ Pictured /\ FpuPassed /\ Vectors /\ Stacks

-----------------------------------------------------------------------------
(* The ebase pages.                                                        *)

\* Copied words, and the words around them.
LEMMA Copied ==
  ASSUME NEW m, NEW to, NEW src
  PROVE  /\ DOMAIN memcpy(m, to, src) = DOMAIN m
         /\ \A i \in DOMAIN m : memcpy(m, to, src)[i] =
              IF i - to + 1 \in 1 .. Len(src) THEN src[i - to + 1] ELSE m[i]
  BY DEF memcpy

\* Filled pages.
LEMMA Filled ==
  ASSUME NEW n \in Nat
  PROVE  /\ DOMAIN Fill(mmap_pages(n), n * PAGESIZE) = 0 .. n * PAGESIZE - 1
         /\ \A i \in 0 .. n * PAGESIZE - 1 : Fill(mmap_pages(n), n * PAGESIZE)[i] = "invalid"
  BY VectorAssumption DEF Fill, mmap_pages

\* The sizes at work.
LEMMA Sizes ==
  /\ VEC_SIZE \in Nat /\ VEC_SIZE >= 3 /\ PAGESIZE \in Nat /\ PAGESIZE = 32 * VEC_SIZE
  /\ Slot \in Nat /\ Slot > 3 /\ 3 * Slot + 5 <= PAGESIZE
  /\ Len(tlb_refill_entry) = 2 /\ Len(syscall_entry) = 3 /\ Len(ebase_error_entry) = 1
  /\ Len(ebase_tlb_entry) = 2 /\ Len(ebase_general_entry) = 5
<1>1. /\ Len(tlb_refill_entry) = 2 /\ Len(syscall_entry) = 3 /\ Len(ebase_error_entry) = 1
      /\ Len(ebase_tlb_entry) = 2 /\ Len(ebase_general_entry) = 5
  BY DEF tlb_refill_entry, syscall_entry, ebase_error_entry, ebase_tlb_entry, ebase_general_entry
<1> QED
  BY <1>1, VectorAssumption DEF INT_OFFSET

\* LoongArch: the two handlers, each at its vector.
LEMMA LoongarchWords ==
  ASSUME ~Mips
  PROVE  /\ DOMAIN LoongarchPages = 0 .. 4 * PAGESIZE - 1
         /\ \A i \in 0 .. 4 * PAGESIZE - 1 : LoongarchPages[i] =
              IF i - VEC_SIZE * 11 + 1 \in 1 .. 3 THEN syscall_entry[i - VEC_SIZE * 11 + 1]
              ELSE IF i - 0 + 1 \in 1 .. 2 THEN tlb_refill_entry[i - 0 + 1] ELSE "invalid"
<1> DEFINE f == Fill(mmap_pages(4), 4 * PAGESIZE)
           g == memcpy(f, 0, tlb_refill_entry)
<1>1. DOMAIN f = 0 .. 4 * PAGESIZE - 1 /\ \A i \in 0 .. 4 * PAGESIZE - 1 : f[i] = "invalid"
  BY Filled
<1>2. LoongarchPages = memcpy(g, VEC_SIZE * 11, syscall_entry)
  BY DEF LoongarchPages, EXCCODE_SYS
<1> HIDE DEF f
<1>3. /\ DOMAIN g = DOMAIN f
      /\ \A i \in DOMAIN f : g[i] = IF i - 0 + 1 \in 1 .. 2 THEN tlb_refill_entry[i - 0 + 1] ELSE f[i]
  BY Copied, Sizes
<1> HIDE DEF g
<1>4. /\ DOMAIN LoongarchPages = DOMAIN g
      /\ \A i \in DOMAIN g : LoongarchPages[i] =
           IF i - VEC_SIZE * 11 + 1 \in 1 .. 3 THEN syscall_entry[i - VEC_SIZE * 11 + 1] ELSE g[i]
  BY <1>2, Copied, Sizes
<1> QED
  BY <1>1, <1>3, <1>4

\* MIPS: the words of the handlers that the guest's exceptions reach.
LEMMA MipsWords ==
  /\ DOMAIN MipsPages = 0 .. PAGESIZE - 1
  /\ \A i \in 0 .. PAGESIZE - 1 : MipsPages[i] \in Instr
  /\ MipsPages[Slot] = "step" /\ MipsPages[Slot + 1] = "ertn"
  /\ MipsPages[3 * Slot] = "branch" /\ MipsPages[3 * Slot + 1] = "codeflow"
  /\ MipsPages[3 * Slot + 2] = "step" /\ MipsPages[3 * Slot + 3] = "hypercall"
<1> DEFINE f == Fill(mmap_pages(1), PAGESIZE)
           a == memcpy(f, 0, ebase_error_entry)
           b == memcpy(a, Slot, ebase_tlb_entry)
           c == memcpy(b, 2 * Slot, ebase_error_entry)
<1>1. DOMAIN f = 0 .. PAGESIZE - 1 /\ \A i \in 0 .. PAGESIZE - 1 : f[i] = "invalid"
  <2>1. 1 * PAGESIZE = PAGESIZE
    BY Sizes
  <2> QED
    BY <2>1, Filled
<1>2. MipsPages = memcpy(c, 3 * Slot, ebase_general_entry)
  BY DEF MipsPages, EBASE_TLB_OFFSET, EBASE_XTLB_OFFSET, EBASE_CACHE_OFFSET, EBASE_GE_OFFSET
<1> HIDE DEF f
<1>3. /\ DOMAIN a = DOMAIN f
      /\ \A i \in DOMAIN f : a[i] = IF i - 0 + 1 \in 1 .. 1 THEN ebase_error_entry[i - 0 + 1] ELSE f[i]
  <2>1. Len(ebase_error_entry) = 1
    BY Sizes
  <2> QED
    BY <2>1, Copied
<1> HIDE DEF a
<1>4. /\ DOMAIN b = DOMAIN a
      /\ \A i \in DOMAIN a : b[i] = IF i - Slot + 1 \in 1 .. 2 THEN ebase_tlb_entry[i - Slot + 1] ELSE a[i]
  BY Copied, Sizes
<1> HIDE DEF b
<1>5. /\ DOMAIN c = DOMAIN b
      /\ \A i \in DOMAIN b : c[i] =
           IF i - 2 * Slot + 1 \in 1 .. 1 THEN ebase_error_entry[i - 2 * Slot + 1] ELSE b[i]
  BY Copied, Sizes
<1> HIDE DEF c
<1>6. /\ DOMAIN MipsPages = DOMAIN c
      /\ \A i \in DOMAIN c : MipsPages[i] =
           IF i - 3 * Slot + 1 \in 1 .. 5 THEN ebase_general_entry[i - 3 * Slot + 1] ELSE c[i]
  BY <1>2, Copied, Sizes
<1>7. /\ ebase_error_entry[1] = "codeflow" /\ ebase_tlb_entry[1] = "step" /\ ebase_tlb_entry[2] = "ertn"
      /\ ebase_general_entry[1] = "branch" /\ ebase_general_entry[2] = "codeflow"
      /\ ebase_general_entry[3] = "step" /\ ebase_general_entry[4] = "hypercall"
      /\ ebase_general_entry[5] = "ertn"
  BY DEF ebase_error_entry, ebase_tlb_entry, ebase_general_entry
<1>8. DOMAIN MipsPages = 0 .. PAGESIZE - 1
  BY <1>1, <1>3, <1>4, <1>5, <1>6
<1>9. \A i \in 0 .. PAGESIZE - 1 : MipsPages[i] \in Instr
  <2> SUFFICES ASSUME NEW i \in 0 .. PAGESIZE - 1 PROVE MipsPages[i] \in Instr
    OBVIOUS
  <2>1. a[i] \in Instr
    BY <1>1, <1>3, <1>7, Sizes DEF Instr
  <2>2. b[i] \in Instr
    <3>1. \A k \in 1 .. 2 : ebase_tlb_entry[k] \in Instr
      BY <1>7 DEF Instr
    <3> QED
      BY <2>1, <3>1, <1>1, <1>3, <1>4
  <2>3. c[i] \in Instr
    BY <2>2, <1>1, <1>3, <1>4, <1>5, <1>7, Sizes DEF Instr
  <2>4. CASE i - 3 * Slot + 1 \in 1 .. 5
    <3>1. \A k \in 1 .. 5 : ebase_general_entry[k] \in Instr
      BY <1>7 DEF Instr
    <3>2. MipsPages[i] = ebase_general_entry[i - 3 * Slot + 1]
      BY <2>4, <1>1, <1>3, <1>4, <1>5, <1>6
    <3> QED
      BY <2>4, <3>1, <3>2
  <2>5. CASE i - 3 * Slot + 1 \notin 1 .. 5
    BY <2>3, <2>5, <1>1, <1>3, <1>4, <1>5, <1>6
  <2> QED
    BY <2>4, <2>5
<1>10. MipsPages[Slot] = "step" /\ MipsPages[Slot + 1] = "ertn"
  <2>1. Slot \in DOMAIN c /\ Slot + 1 \in DOMAIN c
    BY <1>1, <1>3, <1>4, <1>5, Sizes
  <2>2. MipsPages[Slot] = c[Slot] /\ MipsPages[Slot + 1] = c[Slot + 1]
    BY <2>1, <1>6, Sizes
  <2>3. c[Slot] = b[Slot] /\ c[Slot + 1] = b[Slot + 1]
    BY <2>1, <1>5, Sizes
  <2>4. b[Slot] = ebase_tlb_entry[1] /\ b[Slot + 1] = ebase_tlb_entry[2]
    BY <2>1, <1>4, <1>5, Sizes
  <2> QED
    BY <2>2, <2>3, <2>4, <1>7
<1>11. /\ MipsPages[3 * Slot] = "branch" /\ MipsPages[3 * Slot + 1] = "codeflow"
       /\ MipsPages[3 * Slot + 2] = "step" /\ MipsPages[3 * Slot + 3] = "hypercall"
  <2>1. \A k \in 0 .. 3 : 3 * Slot + k \in DOMAIN c
    BY <1>1, <1>3, <1>4, <1>5, Sizes
  <2>2. \A k \in 0 .. 3 : MipsPages[3 * Slot + k] = ebase_general_entry[k + 1]
    BY <2>1, <1>6, Sizes
  <2>3. MipsPages[3 * Slot + 0] = ebase_general_entry[0 + 1]
    BY <2>2
  <2> QED
    BY <2>2, <2>3, <1>7, Sizes
<1> QED
  BY <1>8, <1>9, <1>10, <1>11

\* The pages are arrays of instructions.
LEMMA PagesType == Pages \in [0 .. (IF Mips THEN 1 ELSE 4) * PAGESIZE - 1 -> Instr]
<1>1. CASE Mips
  <2>1. \A i \in DOMAIN MipsPages : MipsPages[i] \in Instr
    BY MipsWords
  <2>2. MipsPages = [i \in DOMAIN MipsPages |-> MipsPages[i]]
    BY DEF MipsPages, memcpy
  <2>3. 1 * PAGESIZE = PAGESIZE
    BY Sizes
  <2> QED
    BY <1>1, <2>1, <2>2, <2>3, MipsWords DEF Pages
<1>2. CASE ~Mips
  <2>1. \A i \in DOMAIN LoongarchPages : LoongarchPages[i] \in Instr
    <3>1. \A k \in 1 .. 3 : syscall_entry[k] \in Instr
      BY DEF syscall_entry, Instr
    <3>2. \A k \in 1 .. 2 : tlb_refill_entry[k] \in Instr
      BY DEF tlb_refill_entry, Instr
    <3>3. "invalid" \in Instr
      BY DEF Instr
    <3> QED
      BY <1>2, <3>1, <3>2, <3>3, LoongarchWords
  <2>2. LoongarchPages = [i \in DOMAIN LoongarchPages |-> LoongarchPages[i]]
    BY DEF LoongarchPages, memcpy
  <2> QED
    BY <1>2, <2>1, <2>2, LoongarchWords DEF Pages
<1> QED
  BY <1>1, <1>2

\* From a word that leaves the handler nothing further is reached, and from the
\* one before it only that.
LEMMA Straight ==
  ASSUME NEW a \in Int, NEW w \in Int, Leaves(a, w)
  PROVE  /\ ebase[a] # "step" => w = a
         /\ ebase[a] = "step" /\ ebase[a + 1] # "step" => w = a + 1
  BY DEF Leaves

\* What each exception comes to on LoongArch ...
LEMMA LoongarchTraps ==
  ASSUME ~Mips, ebase = LoongarchPages, csr = INIT_VALUE_CRMD,
         NEW e \in Raised, e \in Interrupt => csr.ie,
         NEW w \in DOMAIN ebase, Leaves(Entry(e), w)
  PROVE  Outcome(ebase[w]) =
           IF e = Refill THEN "kvm_run" ELSE IF e = EXCCODE_SYS THEN "loop" ELSE "dead"
<1> DEFINE V == VEC_SIZE
<1>1. e \in Nat /\ w \in Int /\ (e = Refill \/ e \in 1 .. 63)
  BY LoongarchWords, Sizes DEF Raised, Interrupt, INT_OFFSET, Mips, INIT_VALUE_CRMD, Refill
<1>2. Vector(e) = IF e = Refill THEN 0 ELSE e * V
  BY VectorAssumption DEF Vector, INIT_VALUE_CRMD, VEC_SIZE
<1> HIDE DEF V
<1>3. V \in Nat /\ V >= 3 /\ 4 * PAGESIZE = 128 * V
  BY Sizes DEF V
<1>4. \A i \in 0 .. 4 * PAGESIZE - 1 : ebase[i] =
        IF i - V * 11 + 1 \in 1 .. 3 THEN syscall_entry[i - V * 11 + 1]
        ELSE IF i - 0 + 1 \in 1 .. 2 THEN tlb_refill_entry[i - 0 + 1] ELSE "invalid"
  BY LoongarchWords DEF V
<1>5. syscall_entry[1] = "step" /\ syscall_entry[2] = "hypercall"
      /\ tlb_refill_entry[1] = "step" /\ tlb_refill_entry[2] = "ertn"
  BY DEF syscall_entry, tlb_refill_entry
<1>6. ASSUME NEW v \in 0 .. 4 * PAGESIZE - 1, Vector(e) = v, ebase[v] # "branch"
      PROVE  Entry(e) = v
  BY <1>6 DEF Entry
<1>7. CASE e = Refill
  <2>1. 0 \in 0 .. 4 * PAGESIZE - 1 /\ 1 \in 0 .. 4 * PAGESIZE - 1
    BY <1>3
  <2>2. ebase[0] = "step" /\ ebase[0 + 1] = "ertn"
    BY <2>1, <1>3, <1>4, <1>5
  <2>3. Entry(e) = 0
    BY <1>2, <1>6, <1>7, <2>1, <2>2
  <2>4. w = 0 + 1
    BY <1>1, <2>2, <2>3, Straight
  <2> QED
    BY <1>7, <2>2, <2>4 DEF Outcome
<1>8. CASE e = 11
  <2>1. V * 11 \in 0 .. 4 * PAGESIZE - 1 /\ V * 11 + 1 \in 0 .. 4 * PAGESIZE - 1 /\ Vector(e) = V * 11
    BY <1>2, <1>3, <1>8 DEF Refill
  <2>2. ebase[V * 11] = "step" /\ ebase[V * 11 + 1] = "hypercall"
    BY <2>1, <1>3, <1>4, <1>5
  <2>3. Entry(e) = V * 11
    BY <1>6, <2>1, <2>2
  <2>4. w = V * 11 + 1
    BY <1>1, <2>1, <2>2, <2>3, Straight
  <2> QED
    BY <1>8, <2>2, <2>4 DEF Outcome, Refill, EXCCODE_SYS
<1>9. CASE e # Refill /\ e # 11
  <2> DEFINE v == e * V
  <2>1. v \in Int /\ Vector(e) = v
    BY <1>1, <1>2, <1>3, <1>9
  <2>2. v >= V /\ v <= 63 * V
    BY <1>1, <1>3, <1>9
  <2>3. v <= V * 10 \/ v >= V * 12
    <3>1. e <= 10 \/ e >= 12
      BY <1>1, <1>9
    <3> QED
      BY <3>1, <1>1, <1>3
  <2> HIDE DEF v
  <2>4. v \in 0 .. 4 * PAGESIZE - 1 /\ ebase[v] = "invalid"
    BY <2>1, <2>2, <2>3, <1>3, <1>4
  <2>5. Entry(e) = v
    BY <1>6, <2>1, <2>4
  <2>6. w = v
    BY <1>1, <2>1, <2>4, <2>5, Straight
  <2> QED
    BY <1>9, <2>4, <2>6 DEF Outcome, EXCCODE_SYS
<1> QED
  BY <1>7, <1>8, <1>9

\* ... and on MIPS.
LEMMA MipsTraps ==
  ASSUME Mips, ebase = MipsPages, NEW e \in Raised,
         NEW w \in DOMAIN ebase, Leaves(Entry(e), w)
  PROVE  Outcome(ebase[w]) =
           IF e = Refill THEN "kvm_run" ELSE IF e = EXCCODE_SYS THEN "loop" ELSE "dead"
<1>1. w \in Int /\ Slot \in Nat
  BY MipsWords, Sizes
<1>2. Vector(e) = IF e = Refill THEN Slot ELSE 3 * Slot
  BY DEF Vector, EBASE_XTLB_OFFSET, EBASE_GE_OFFSET
<1>3. CASE e = Refill
  <2>1. Entry(e) = Slot
    BY <1>2, <1>3, MipsWords DEF Entry
  <2>2. w = Slot + 1
    BY <1>1, <2>1, MipsWords, Straight
  <2> QED
    BY <1>3, <2>2, MipsWords DEF Outcome
<1>4. CASE e = EXCCODE_SYS
  <2>1. e # Refill
    BY <1>4 DEF EXCCODE_SYS, Refill
  <2>2. Entry(e) = 3 * Slot + 2
    BY <1>2, <1>4, <2>1, MipsWords DEF Entry, SyscallLabel
  <2>3. ebase[3 * Slot + 2] = "step" /\ ebase[3 * Slot + 2 + 1] = "hypercall"
    BY <1>1, MipsWords
  <2>4. w = 3 * Slot + 2 + 1
    <3>1. 3 * Slot + 2 \in Int
      BY <1>1
    <3> QED
      BY <1>1, <2>2, <2>3, <3>1, Straight
  <2> QED
    BY <1>4, <2>1, <2>3, <2>4 DEF Outcome
<1>5. CASE e # Refill /\ e # EXCCODE_SYS
  <2>1. Entry(e) = 3 * Slot + 1
    BY <1>2, <1>5, MipsWords DEF Entry
  <2>2. w = 3 * Slot + 1
    <3>1. 3 * Slot + 1 \in Int
      BY <1>1
    <3> QED
      BY <1>1, <2>1, <3>1, MipsWords, Straight
  <2> QED
    BY <1>5, <2>2, MipsWords DEF Outcome
<1> QED
  BY <1>3, <1>4, <1>5

-----------------------------------------------------------------------------
\* A record of registers, built and taken apart.
LEMMA RegsFacts ==
  /\ \A f \in [Reg -> Value] : [r |-> f, pc |-> "guest_entry"] \in Regs
  /\ \A g \in Regs : [g EXCEPT !.pc = "later"] \in Regs /\ [g EXCEPT !.pc = "later"].pc = "later"
  /\ Empty \in Regs /\ Clear \in Fpu
  BY RegAssumption DEF Regs, Empty, Clear, Fpu

\* A picture of the floating point registers, changed in part.
LEMMA FpuFacts ==
  \A f \in Fpu, v \in Value, h \in [FReg -> Value] :
    /\ [f EXCEPT !.fpr = h] \in Fpu /\ [f EXCEPT !.fcsr = v] \in Fpu /\ [f EXCEPT !.vec = v] \in Fpu
    /\ f.fpr \in [FReg -> Value] /\ f.fcsr \in Value /\ f.vec \in Value
  BY DEF Fpu

\* The program counter moves on.
LEMMA LaterType ==
  ASSUME vcpu \in [gpr : Regs, fpu : Fpu], Later
  PROVE  vcpu' \in [gpr : Regs, fpu : Fpu] /\ vcpu'.gpr.pc = "later" /\ vcpu'.fpu = vcpu.fpu
         /\ trap' = None
<1> DEFINE g == [vcpu.gpr EXCEPT !.pc = "later"]
<1>1. g \in Regs /\ g.pc = "later"
  BY RegsFacts
<1>2. vcpu' = [vcpu EXCEPT !.gpr = g] /\ trap' = None
  BY DEF Later
<1> HIDE DEF g
<1> QED
  BY <1>1, <1>2

\* An exception ends the guest's turn or not, and changes nothing else.
LEMMA TrapGoes ==
  ASSUME NEW e \in Exc, GuestTraps(e)
  PROVE  /\ pc = "kvm_run" /\ pc' \in {"kvm_run", "loop", "dead"} /\ trap' = e
         /\ UNCHANGED <<port, reg, fpu, fpu_regs, regs, info, ebase, csr, vcpu, hsp, gsp, frame, first>>
  BY DEF GuestTraps, Outcome

\* A function keeps the registers that are its caller's.
LEMMA CallKeeps ==
  ASSUME fpu \in Fpu, HostCalls
  PROVE  /\ fpu' \in Fpu /\ fpu'.fcsr = fpu.fcsr /\ fpu'.vec = fpu.vec
         /\ \A x \in Saved : fpu'.fpr[x] = fpu.fpr[x]
<1>1. PICK f \in [FReg -> Value] :
        (\A x \in Saved : f[x] = fpu.fpr[x]) /\ fpu' = [fpu EXCEPT !.fpr = f]
  BY DEF HostCalls
<1>2. fpu'.fpr = f /\ fpu'.fcsr = fpu.fcsr /\ fpu'.vec = fpu.vec
  BY <1>1 DEF Fpu
<1>3. fpu' \in Fpu
  BY <1>1 DEF Fpu
<1> QED
  BY <1>1, <1>2, <1>3

\* Every step keeps the types.
LEMMA TypesStep == Types /\ [Next]_vars => Types'
<1> SUFFICES ASSUME Types, [Next]_vars PROVE Types'
  OBVIOUS
<1> USE RegsFacts DEF Types
<1>0. CASE UNCHANGED vars
  BY <1>0 DEF vars
<1>1. CASE HostCalls
  BY <1>1, CallKeeps DEF HostCalls
<1>2. CASE HostReturns
  BY <1>2 DEF HostReturns
<1>3. CASE Fails
  BY <1>3 DEF Fails
<1>4. CASE Capture
  BY <1>4, RegAssumption DEF Capture, Goto, Picture, Scratch, ReloadedFrom
<1>5. CASE init_ebase
  BY <1>5 DEF init_ebase, Goto
<1>6. CASE init_csr
  BY <1>6 DEF init_csr, Goto, INIT_VALUE_STATUS, INIT_VALUE_CRMD
<1>7. CASE FpuLoongarch
  BY <1>7, RegAssumption DEF FpuLoongarch, Goto, get_fpu_regs, Fpu
<1>8. ASSUME NEW t0 \in Value, get_msacsr(t0) PROVE Types'
  <2>1. fpu' \in Fpu /\ fpu_regs' \in Fpu
    BY <1>8 DEF get_msacsr, Fpu
  <2> QED
    BY <1>8, <2>1 DEF get_msacsr, Goto
<1>15. CASE FpuMips
  <2>1. fpu_regs' \in Fpu
    BY <1>15 DEF FpuMips, get_fpu_regs, Fpu
  <2> QED
    BY <1>15, <2>1 DEF FpuMips, Goto
<1>16. CASE get_fcsr
  <2>1. fpu_regs' \in Fpu
    BY <1>16 DEF get_fcsr, Fpu
  <2> QED
    BY <1>16, <2>1 DEF get_fcsr, Goto
<1>17. CASE kvm_set_fpu_regs
  BY <1>17 DEF kvm_set_fpu_regs, Goto
<1>9. CASE SetRegs
  BY <1>9 DEF SetRegs, Goto
<1>10. CASE vacate_current_stack
  BY <1>10 DEF vacate_current_stack, Goto
<1>11. CASE KvmRun
  BY <1>11 DEF KvmRun, Goto
<1>12. CASE GuestCalls
  BY <1>12, LaterType DEF GuestCalls
<1>13. CASE GuestReturns
  BY <1>13, LaterType DEF GuestReturns
<1>14. ASSUME NEW e \in Exc, GuestTraps(e) PROVE Types'
  BY <1>14, TrapGoes
<1> QED
  BY <1>0, <1>1, <1>2, <1>3, <1>4, <1>5, <1>6, <1>7,
     <1>8, <1>9, <1>10, <1>11, <1>12, <1>13, <1>14, <1>15, <1>16, <1>17
     DEF Next, init_fpu

\* No step between two that pass the picture on changes it.
LEMMA PicturedStep == Types /\ Pictured /\ [Next]_vars => Pictured'
<1> SUFFICES ASSUME Types, Pictured, [Next]_vars PROVE Pictured'
  OBVIOUS
<1> USE DEF Types, Pictured
<1>0. CASE UNCHANGED vars
  BY <1>0 DEF vars
<1>1. CASE HostCalls
  BY <1>1 DEF HostCalls
<1>2. CASE HostReturns
  BY <1>2 DEF HostReturns
<1>3. CASE Fails
  BY <1>3 DEF Fails
<1>4. CASE Capture
  BY <1>4 DEF Capture, Goto, Picture
<1>5. CASE init_ebase
  BY <1>5 DEF init_ebase, Goto
<1>6. CASE init_csr
  BY <1>6 DEF init_csr, Goto
<1>7. CASE FpuLoongarch
  BY <1>7 DEF FpuLoongarch, Goto
<1>8. ASSUME NEW t0 \in Value, get_msacsr(t0) PROVE Pictured'
  BY <1>8 DEF get_msacsr, Goto
<1>15. CASE FpuMips
  BY <1>15 DEF FpuMips, Goto
<1>16. CASE get_fcsr
  BY <1>16 DEF get_fcsr, Goto
<1>17. CASE kvm_set_fpu_regs
  BY <1>17 DEF kvm_set_fpu_regs, Goto
<1>9. CASE SetRegs
  BY <1>9 DEF SetRegs, Goto
<1>10. CASE vacate_current_stack
  BY <1>10 DEF vacate_current_stack, Goto
<1>11. CASE KvmRun
  BY <1>11 DEF KvmRun, Goto
<1>12. CASE GuestCalls
  BY <1>12, LaterType DEF GuestCalls
<1>13. CASE GuestReturns
  BY <1>13, LaterType DEF GuestReturns
<1>14. ASSUME NEW e \in Exc, GuestTraps(e) PROVE Pictured'
  BY <1>14, TrapGoes
<1> QED
  BY <1>0, <1>1, <1>2, <1>3, <1>4, <1>5, <1>6, <1>7,
     <1>8, <1>9, <1>10, <1>11, <1>12, <1>13, <1>14, <1>15, <1>16, <1>17
     DEF Next, init_fpu

\* The FPU is read as the program left it; the guest keeps what was set.
LEMMA FpuStep == Types /\ FpuPassed /\ [Next]_vars => FpuPassed'
<1> SUFFICES ASSUME Types, FpuPassed, [Next]_vars PROVE FpuPassed'
  OBVIOUS
<1> USE FpuFacts DEF Types, FpuPassed, FpuPictured, SavedIn, Mips
<1>0. CASE UNCHANGED vars
  BY <1>0 DEF vars
<1>1. CASE HostCalls
  BY <1>1, CallKeeps DEF HostCalls
<1>2. CASE HostReturns
  BY <1>2 DEF HostReturns
<1>3. CASE Fails
  BY <1>3 DEF Fails
<1>4. CASE Capture
  BY <1>4 DEF Capture, Goto
<1>5. CASE init_ebase
  BY <1>5 DEF init_ebase, Goto
<1>6. CASE init_csr
  BY <1>6 DEF init_csr, Goto
<1>7. CASE FpuLoongarch
  BY <1>7 DEF FpuLoongarch, Goto, get_fpu_regs
<1>8. ASSUME NEW t0 \in Value, get_msacsr(t0) PROVE FpuPassed'
  BY <1>8 DEF get_msacsr, Goto
<1>15. CASE FpuMips
  BY <1>15 DEF FpuMips, Goto, get_fpu_regs
<1>16. CASE get_fcsr
  BY <1>16 DEF get_fcsr, Goto
<1>17. CASE kvm_set_fpu_regs
  BY <1>17 DEF kvm_set_fpu_regs, Goto
<1>9. CASE SetRegs
  BY <1>9 DEF SetRegs, Goto
<1>10. CASE vacate_current_stack
  BY <1>10 DEF vacate_current_stack, Goto
<1>11. CASE KvmRun
  BY <1>11 DEF KvmRun, Goto
<1>12. CASE GuestCalls
  BY <1>12 DEF GuestCalls, Later
<1>13. CASE GuestReturns
  BY <1>13 DEF GuestReturns, Later
<1>14. ASSUME NEW e \in Exc, GuestTraps(e) PROVE FpuPassed'
  BY <1>14, TrapGoes
<1> QED
  BY <1>0, <1>1, <1>2, <1>3, <1>4, <1>5, <1>6, <1>7,
     <1>8, <1>9, <1>10, <1>11, <1>12, <1>13, <1>14, <1>15, <1>16, <1>17
     DEF Next, init_fpu

\* What is written does not change with the state.
LEMMA PagesConstant == port' = port => Pages' = Pages
  BY DEF Pages, LoongarchPages, MipsPages, EXCCODE_SYS, Mips, Fill, mmap_pages, memcpy

\* The pages are written once.
LEMMA VectorsStep == Vectors /\ [Next]_vars => Vectors'
<1> SUFFICES ASSUME Vectors, [Next]_vars PROVE Vectors'
  OBVIOUS
<1> USE PagesConstant DEF Vectors, TrapsServed, EXCCODE_SYS, None, Refill, Mips
<1>0. CASE UNCHANGED vars
  BY <1>0 DEF vars
<1>1. CASE HostCalls
  BY <1>1 DEF HostCalls
<1>2. CASE HostReturns
  BY <1>2 DEF HostReturns
<1>3. CASE Fails
  BY <1>3 DEF Fails
<1>4. CASE Capture
  BY <1>4 DEF Capture, Goto
<1>5. CASE init_ebase
  BY <1>5 DEF init_ebase, Goto, Pages
<1>6. CASE init_csr
  BY <1>6 DEF init_csr, Goto
<1>7. CASE FpuLoongarch
  BY <1>7 DEF FpuLoongarch, Goto
<1>8. ASSUME NEW t0 \in Value, get_msacsr(t0) PROVE Vectors'
  BY <1>8 DEF get_msacsr, Goto
<1>15. CASE FpuMips
  BY <1>15 DEF FpuMips, Goto
<1>16. CASE get_fcsr
  BY <1>16 DEF get_fcsr, Goto
<1>17. CASE kvm_set_fpu_regs
  BY <1>17 DEF kvm_set_fpu_regs, Goto
<1>9. CASE SetRegs
  BY <1>9 DEF SetRegs, Goto
<1>10. CASE vacate_current_stack
  BY <1>10 DEF vacate_current_stack, Goto
<1>11. CASE KvmRun
  BY <1>11 DEF KvmRun, Goto
<1>12. CASE GuestCalls
  BY <1>12 DEF GuestCalls, Later
<1>13. CASE GuestReturns
  BY <1>13 DEF GuestReturns, Later
<1>14. ASSUME NEW e \in Exc, GuestTraps(e) PROVE Vectors'
  <2>1. PICK w \in DOMAIN ebase : Leaves(Entry(e), w) /\ pc' = Outcome(ebase[w])
    BY <1>14 DEF GuestTraps
  <2>2. ebase = Pages /\ csr = IF Mips THEN INIT_VALUE_STATUS ELSE INIT_VALUE_CRMD
    BY <1>14, TrapGoes
  <2>3. e \in Raised /\ (e \in Interrupt => csr.ie)
    BY <1>14 DEF GuestTraps
  <2>4. pc' = IF e = Refill THEN "kvm_run" ELSE IF e = EXCCODE_SYS THEN "loop" ELSE "dead"
    BY ONLY <2>1, <2>2, <2>3, LoongarchTraps, MipsTraps DEF Pages
  <2> QED
    BY <1>14, <2>2, <2>4, TrapGoes
<1> QED
  BY <1>0, <1>1, <1>2, <1>3, <1>4, <1>5, <1>6, <1>7,
     <1>8, <1>9, <1>10, <1>11, <1>12, <1>13, <1>14, <1>15, <1>16, <1>17
     DEF Next, init_fpu

\* The host leaves the program's stack before the program goes on.
LEMMA StacksStep == Stacks /\ [Next]_vars => Stacks'
<1> SUFFICES ASSUME Stacks, [Next]_vars PROVE Stacks'
  OBVIOUS
<1> USE RegAssumption DEF Stacks, FramesKept, Base, Launch
<1>0. CASE UNCHANGED vars
  BY <1>0 DEF vars
<1>1. CASE HostCalls
  <2>1. /\ pc \notin {"kvm_run", "dead"} /\ hsp.depth < Frame
        /\ hsp' = [hsp EXCEPT !.depth = hsp.depth + 1]
        /\ frame' = [frame EXCEPT ![hsp.stack][hsp.depth + 1] = "host"]
        /\ pc' = pc /\ gsp' = gsp
    BY <1>1 DEF HostCalls
  <2>2. hsp' \in [stack : {"program", "own"}, depth : 1 .. Frame] /\ hsp.depth + 1 \in 1 .. Frame
    BY <2>1
  <2>3. frame' \in [{"program", "own"} -> [1 .. Frame -> {"free", "program", "host"}]]
    BY <2>1, <2>2
  <2>4. CASE pc = "loop"
    BY <2>1, <2>2, <2>3, <2>4
  <2>5. CASE pc # "loop"
    BY <2>1, <2>2, <2>3, <2>5
  <2> QED
    BY <2>4, <2>5
<1>2. CASE HostReturns
  <2>1. /\ pc \notin {"kvm_run", "dead"} /\ hsp.depth > Base
        /\ hsp' = [hsp EXCEPT !.depth = hsp.depth - 1]
        /\ pc' = pc /\ gsp' = gsp /\ frame' = frame
    BY <1>2 DEF HostReturns
  <2>2. CASE pc = "loop"
    <3>1. hsp.stack = "own" /\ hsp.depth > 1
      BY <2>1, <2>2
    <3>2. hsp'.stack = "own" /\ hsp'.depth \in 1 .. Frame /\ hsp'.depth < hsp.depth
      BY <2>1, <3>1
    <3>3. hsp' \in [stack : {"program", "own"}, depth : 1 .. Frame]
      BY <2>1, <3>1, <3>2
    <3> QED
      BY <2>1, <2>2, <3>1, <3>2, <3>3
  <2>3. CASE pc # "loop"
    <3>1. hsp.stack = "program" /\ hsp.depth > Launch
      BY <2>1, <2>3
    <3>2. hsp'.stack = "program" /\ hsp'.depth \in 1 .. Frame /\ hsp'.depth >= Launch
      BY <2>1, <3>1
    <3>3. hsp' \in [stack : {"program", "own"}, depth : 1 .. Frame]
      BY <2>1, <3>1, <3>2
    <3> QED
      BY <2>1, <2>3, <3>1, <3>2, <3>3
  <2> QED
    BY <2>2, <2>3
<1>3. CASE Fails
  BY <1>3 DEF Fails
<1>4. CASE Capture
  BY <1>4 DEF Capture, Goto
<1>5. CASE init_ebase
  BY <1>5 DEF init_ebase, Goto
<1>6. CASE init_csr
  BY <1>6 DEF init_csr, Goto
<1>7. CASE FpuLoongarch
  BY <1>7 DEF FpuLoongarch, Goto
<1>8. ASSUME NEW t0 \in Value, get_msacsr(t0) PROVE Stacks'
  BY <1>8 DEF get_msacsr, Goto
<1>15. CASE FpuMips
  BY <1>15 DEF FpuMips, Goto
<1>16. CASE get_fcsr
  BY <1>16 DEF get_fcsr, Goto
<1>17. CASE kvm_set_fpu_regs
  BY <1>17 DEF kvm_set_fpu_regs, Goto
<1>9. CASE SetRegs
  BY <1>9 DEF SetRegs, Goto
<1>10. CASE vacate_current_stack
  BY <1>10 DEF vacate_current_stack, Goto
<1>11. CASE KvmRun
  BY <1>11 DEF KvmRun, Goto
<1>12. CASE GuestCalls
  BY <1>12 DEF GuestCalls, Later
<1>13. CASE GuestReturns
  BY <1>13 DEF GuestReturns, Later
<1>14. ASSUME NEW e \in Exc, GuestTraps(e) PROVE Stacks'
  BY <1>14, TrapGoes
<1> QED
  BY <1>0, <1>1, <1>2, <1>3, <1>4, <1>5, <1>6, <1>7,
     <1>8, <1>9, <1>10, <1>11, <1>12, <1>13, <1>14, <1>15, <1>16, <1>17
     DEF Next, init_fpu

\* The program's main thread, in kvm_launch.
LEMMA InitInv == Init => Inv
<1> SUFFICES ASSUME Init PROVE Inv
  OBVIOUS
<1> USE RegsFacts DEF Init
<1>1. Types
  BY EnteredAssumption DEF Types, None
<1>2. Pictured /\ FpuPassed
  BY DEF Pictured, FpuPassed, FpuPictured, SavedIn
<1>3. Vectors
  BY DEF Vectors, TrapsServed, None, Refill
<1>4. Stacks
  BY RegAssumption DEF Stacks, FramesKept, Base, Launch
<1> QED
  BY <1>1, <1>2, <1>3, <1>4 DEF Inv

\* Inv holds throughout.
THEOREM Invariance == Spec => []Inv
<1>1. Inv /\ [Next]_vars => Inv'
  BY TypesStep, PicturedStep, FpuStep, VectorsStep, StacksStep DEF Inv
<1> QED
  BY <1>1, InitInv, PTL DEF Spec

\* TypeOK, for any registers, values, exceptions and depth of the stacks.
THEOREM TypeCorrect == Spec => []TypeOK
<1>1. Inv => TypeOK
  BY PagesType DEF Inv, Types, Vectors, Stacks, TypeOK
<1> QED
  BY <1>1, Invariance, PTL

\* FramesKept: vacate_current_stack leaves the program's stack in time.
THEOREM FramesAreKept == Spec => []FramesKept
<1>1. Inv => FramesKept
  BY DEF Inv, Stacks
<1> QED
  BY <1>1, Invariance, PTL

\* ResumesNative: the vcpu starts at guest_entry with the registers that the
\* asm of kvm_launch found.
THEOREM GuestResumesNative == Spec => []ResumesNative
<1>1. Inv => ResumesNative
  BY DEF Inv, Pictured, ResumesNative
<1> QED
  BY <1>1, Invariance, PTL

\* FpuPictured: init_fpu's picture is the program's registers, although calls
\* come before it, and kvm_set_fpu_regs of the MIPS port passes it on.
THEOREM FpuIsPictured == Spec => []FpuPictured
<1>1. Inv => FpuPictured
  BY DEF Inv, FpuPassed
<1> QED
  BY <1>1, Invariance, PTL

\* TrapsServed: with what init_ebase (ebase_init) and init_csr write, a call
\* comes to host_loop, a miss back to the guest, and all else to an end.
THEOREM EveryTrapServed == Spec => []TrapsServed
<1>1. Inv => TrapsServed
  BY DEF Inv, Vectors
<1> QED
  BY <1>1, Invariance, PTL
=============================================================================

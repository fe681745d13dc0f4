------------------------- MODULE ChildContextProofs -------------------------
(***************************************************************************)
(* Theorems about ChildContext: for any number of vcpus and all values of  *)
(* registers, a running thread has its native context.                     *)
(***************************************************************************)
EXTENDS ChildContext, TLAPS

-----------------------------------------------------------------------------
(* Registers.                                                              *)

\* Data are numbers.
LEMMA DatumInt == Datum \subseteq Int
  BY ValueAssumption DEF Datum

\* What Go does, register by register.
LEMMA GoFacts ==
  ASSUME NEW g \in Gpr, NEW r \in Reg, NEW v \in Int, NEW p \in Int
  PROVE  /\ Go(g, r, v, p) \in Gpr
         /\ Go(g, r, v, p)["pc"] = p
         /\ r # "pc" => Go(g, r, v, p)[r] = v
         /\ \A x \in Reg \ {r, "pc"} : Go(g, r, v, p)[x] = g[x]
  BY DEF Go, Gpr, Reg

\* Registers with the same contents are equal.
LEMMA GprEqual ==
  ASSUME NEW g \in Gpr, NEW h \in Gpr, \A r \in Reg : g[r] = h[r]
  PROVE  g = h
  BY DEF Gpr

\* A child's registers, one by one.
LEMMA ChildRegsFacts ==
  ASSUME NEW i \in Info, NEW b \in Block
  PROVE  /\ ChildRegs(i, b) \in Gpr
         /\ ChildRegs(i, b)["a0"] = 0 /\ ChildRegs(i, b)["pc"] = i.era + 1
         /\ ChildRegs(i, b)["s0"] = i.regs["s0"]
         /\ ChildRegs(i, b)["tp"] = IF b.w0 = CLONE_SETTLS THEN b.w4 ELSE i.regs["tp"]
         /\ ChildRegs(i, b)["sp"] = IF b.w1 # 0 THEN b.w1 ELSE i.regs["sp"]
<1>1. i.regs \in [Reg -> Int] /\ i.era \in Int /\ b.w1 \in Int /\ b.w4 \in Int
  BY DatumInt DEF Info, Block, Gpr
<1> QED
  BY <1>1 DEF ChildRegs, Gpr, Reg

\* A native child's registers, one by one.
LEMMA NativeChildFacts ==
  ASSUME TypeOK, NEW c \in Cpu
  PROVE  /\ NativeChild(c) \in Gpr
         /\ NativeChild(c)["a0"] = 0 /\ NativeChild(c)["pc"] = native[c]["pc"] + 1
         /\ NativeChild(c)["s0"] = native[c]["s0"]
         /\ NativeChild(c)["tp"] = IF asked[c].w0 = CLONE_SETTLS THEN asked[c].w4
                                                                  ELSE native[c]["tp"]
         /\ NativeChild(c)["sp"] = IF asked[c].w1 # 0 THEN asked[c].w1
                                                      ELSE native[c]["sp"]
<1> DEFINE parent == Go(native[c], "a0", 0, native[c]["pc"] + 1)
           tp == IF asked[c].w0 = CLONE_SETTLS THEN asked[c].w4 ELSE parent["tp"]
           sp == IF asked[c].w1 # 0 THEN asked[c].w1 ELSE parent["sp"]
<1>1. native[c] \in Gpr /\ asked[c] \in Block /\ native[c]["pc"] + 1 \in Int
  BY DEF TypeOK, Gpr, Reg
<1>2. /\ parent \in Gpr /\ parent["a0"] = 0 /\ parent["pc"] = native[c]["pc"] + 1
      /\ \A x \in {"s0", "tp", "sp"} : parent[x] = native[c][x]
  BY <1>1, GoFacts DEF Reg
<1>3. tp \in Int /\ sp \in Int
  BY <1>1, <1>2, DatumInt DEF Block, Gpr, Reg
<1>4. NativeChild(c) = [parent EXCEPT !["tp"] = tp, !["sp"] = sp]
  BY DEF NativeChild
<1> HIDE DEF parent, tp, sp
<1>5. /\ NativeChild(c) \in Gpr
      /\ \A x \in {"a0", "pc", "s0"} : NativeChild(c)[x] = parent[x]
      /\ NativeChild(c)["tp"] = tp /\ NativeChild(c)["sp"] = sp
  BY <1>2, <1>3, <1>4 DEF Gpr, Reg
<1> QED
  BY <1>2, <1>5 DEF tp, sp

-----------------------------------------------------------------------------
(* Type correctness.                                                       *)

\* The arguments of a call fit into a block.
LEMMA ArgsType == \A k \in Kinds : Args(k) \subseteq Block
  BY DEF Args, Kinds, Block, ZeroBlock, Datum, CLONE_SETTLS

\* Registers, blocks and contexts of zeroes are well typed.
LEMMA ZeroType ==
  /\ ZeroGpr \in Gpr /\ ZeroBlock \in Block /\ ZeroInfo \in Info
  /\ NoImage \in [info : Info, block : Block]
<1>1. ZeroGpr \in Gpr /\ ZeroBlock \in Block
  BY DEF ZeroGpr, Gpr, ZeroBlock, Block, Datum
<1>2. ZeroInfo \in Info
  BY <1>1 DEF ZeroInfo, Info, Datum
<1> QED
  BY <1>1, <1>2 DEF NoImage

\* What TypeOK says of phases.
PhaseOK ==
  /\ phase \in [Cpu -> Phases]
  /\ \A x \in Cpu : vm[x] = NoCpu <=> phase[x] = "unused"

\* A cpu's phase changes, but for its first and last one.
LEMMA PhaseType ==
  ASSUME TypeOK, NEW c \in Cpu, NEW f, NEW t \in Phases \ {"unused"}, f # "unused",
         Moves(c, f, t), UNCHANGED vm
  PROVE  PhaseOK'
  BY DEF Moves, TypeOK, PhaseOK

\* The end of a call keeps the types.
LEMMA ServedType ==
  ASSUME TypeOK, NEW c \in Cpu, Served(c)
  PROVE  call' \in [Cpu -> Kinds] /\ asked' \in [Cpu -> Block]
  BY ZeroType DEF Served, TypeOK, Kinds

\* So does the set-up of a child.
LEMMA InitChildType ==
  ASSUME TypeOK, NEW d \in Cpu, NEW i \in Info, NEW b \in Block,
         init_child_thread_info(d, i, b)
  PROVE  /\ gpr' \in [Cpu -> Gpr] /\ ret' \in [Cpu -> Datum]
         /\ fpu' \in [Cpu -> Datum] /\ ks5' \in [Cpu -> Cpu \union {NoCpu}]
         /\ era' \in [Cpu -> Int] /\ is_hypcall' \in [Cpu -> BOOLEAN]
<1>1. gpr' \in [Cpu -> Gpr]
  BY ChildRegsFacts DEF init_child_thread_info, TypeOK
<1>2. ret' \in [Cpu -> Datum] /\ fpu' \in [Cpu -> Datum]
  BY DEF init_child_thread_info, TypeOK, Info, Datum
<1> QED
  BY <1>1, <1>2 DEF init_child_thread_info, TypeOK

\* Setting registers of a thread.
LEMMA GoType ==
  ASSUME NEW g \in [Cpu -> Gpr], NEW c \in Cpu, NEW r \in Reg, NEW v \in Int,
         NEW p \in Int
  PROVE  [g EXCEPT ![c] = Go(@, r, v, p)] \in [Cpu -> Gpr]
  BY GoFacts

\* A child being set up belongs to one clone.
ChildLink ==
  \A c \in Cpu : phase[c] = "cloning" =>
    /\ child[c] \in Cpu /\ phase[child[c]] = "prepared"
    /\ \A e \in Cpu : phase[e] = "cloning" /\ child[e] = child[c] => e = c

\* KS5 of a vcpu in use, or free, is its own block.
Ks5Link ==
  \A c \in Cpu : phase[c] \notin {"unused", "forked"} => ks5[c] = c

TypeInv == TypeOK /\ ChildLink /\ Ks5Link

\* The initial state is well typed.
LEMMA TypeInit == Init => TypeInv
<1> SUFFICES ASSUME Init PROVE TypeInv
  OBVIOUS
<1>1. TypeOK
  BY CpuAssumption, ZeroType DEF Init, TypeOK, All, Phases, Kinds, Datum, NoCpu
<1>2. ChildLink /\ Ks5Link
  BY DEF Init, ChildLink, Ks5Link
<1> QED
  BY <1>1, <1>2 DEF TypeInv

\* A step of one cpu that neither clones nor prepares keeps the links.
LEMMA LinkQuiet ==
  ASSUME TypeOK, ChildLink, NEW c \in Cpu, NEW f, NEW t, Moves(c, f, t),
         f \notin {"cloning", "prepared"}, t # "cloning", UNCHANGED child
  PROVE  ChildLink'
  BY DEF Moves, TypeOK, ChildLink

\* Every step keeps the links of clones to their children.
LEMMA LinkStep == TypeInv /\ [Next]_vars => ChildLink'
<1> SUFFICES ASSUME TypeOK, ChildLink, [Next]_vars PROVE ChildLink'
  BY DEF TypeInv
<1>0. CASE UNCHANGED vars
  BY <1>0 DEF vars, hostVars, ChildLink
<1>1. ASSUME NEW c \in Cpu, NEW v \in Value, NEW f \in Value, GuestComputes(c, v, f)
      PROVE  ChildLink'
  BY <1>1 DEF GuestComputes, hostVars, ChildLink
<1>2. ASSUME NEW c \in Cpu, NEW k \in Kinds, NEW r \in Datum, NEW args \in Args(k),
             GuestSyscall(c, k, args, r)
      PROVE  ChildLink'
  BY <1>2, LinkQuiet DEF GuestSyscall
<1>3. ASSUME NEW c \in Cpu, GuestReturn(c) PROVE ChildLink'
  BY <1>3, LinkQuiet DEF GuestReturn
<1>4. ASSUME NEW c \in Cpu, KvmRun(c) PROVE ChildLink'
  BY <1>4, LinkQuiet DEF KvmRun
<1>5. ASSUME NEW c \in Cpu, NEW r \in Value, SyscallAnswered(c, r) PROVE ChildLink'
  BY <1>5, LinkQuiet DEF SyscallAnswered
<1>6. ASSUME NEW c \in Cpu, Exit(c) PROVE ChildLink'
  BY <1>6, LinkQuiet DEF Exit
<1>7. ASSUME NEW c \in Cpu, kvm_get_parent_thread_info(c) PROVE ChildLink'
  BY <1>7, LinkQuiet DEF kvm_get_parent_thread_info
<1>8. ASSUME NEW c \in Cpu, NEW d \in Cpu, dup_vcpu(c, d) PROVE ChildLink'
  BY <1>8 DEF dup_vcpu, TypeOK, ChildLink
<1>9. ASSUME NEW c \in Cpu, NEW d \in Cpu, Fork(c, d) PROVE ChildLink'
  BY <1>9 DEF Fork, TypeOK, ChildLink
<1>10. ASSUME NEW c \in Cpu, do_simulate_clone(c) PROVE ChildLink'
  BY <1>10, CpuAssumption DEF do_simulate_clone, TypeOK, ChildLink, NoCpu
<1>11. ASSUME NEW c \in Cpu, dup_vm(c) PROVE ChildLink'
  BY <1>11, LinkQuiet DEF dup_vm
<1> QED
  BY <1>0, <1>1, <1>2, <1>3, <1>4, <1>5, <1>6, <1>7, <1>8, <1>9, <1>10, <1>11
     DEF Next

\* Every step keeps KS5 in order.
LEMMA Ks5Step == TypeInv /\ [Next]_vars => Ks5Link'
<1> SUFFICES ASSUME TypeOK, ChildLink, Ks5Link, [Next]_vars PROVE Ks5Link'
  BY DEF TypeInv
<1>0. CASE UNCHANGED vars
  BY <1>0 DEF vars, hostVars, kvmVars, Ks5Link
<1>1. ASSUME NEW c \in Cpu, NEW v \in Value, NEW f \in Value, GuestComputes(c, v, f)
      PROVE  Ks5Link'
  BY <1>1 DEF GuestComputes, hostVars, Ks5Link
<1>2. ASSUME NEW c \in Cpu, NEW k \in Kinds, NEW r \in Datum, NEW args \in Args(k),
             GuestSyscall(c, k, args, r)
      PROVE  Ks5Link'
  BY <1>2 DEF GuestSyscall, Moves, kvmVars, TypeOK, Ks5Link
<1>3. ASSUME NEW c \in Cpu, GuestReturn(c) PROVE Ks5Link'
  BY <1>3 DEF GuestReturn, Moves, kvmVars, TypeOK, Ks5Link
<1>4. ASSUME NEW c \in Cpu, KvmRun(c) PROVE Ks5Link'
  BY <1>4 DEF KvmRun, Moves, kvmVars, TypeOK, Ks5Link
<1>5. ASSUME NEW c \in Cpu, NEW r \in Value, SyscallAnswered(c, r) PROVE Ks5Link'
  BY <1>5 DEF SyscallAnswered, Moves, kvmVars, TypeOK, Ks5Link
<1>6. ASSUME NEW c \in Cpu, Exit(c) PROVE Ks5Link'
  BY <1>6 DEF Exit, Moves, kvmVars, TypeOK, Ks5Link
<1>7. ASSUME NEW c \in Cpu, kvm_get_parent_thread_info(c) PROVE Ks5Link'
  BY <1>7 DEF kvm_get_parent_thread_info, Moves, kvmVars, TypeOK, Ks5Link
<1>8. ASSUME NEW c \in Cpu, NEW d \in Cpu, dup_vcpu(c, d) PROVE Ks5Link'
  BY <1>8 DEF dup_vcpu, init_child_thread_info, TypeOK, Ks5Link
<1>9. ASSUME NEW c \in Cpu, NEW d \in Cpu, Fork(c, d) PROVE Ks5Link'
  BY <1>9 DEF Fork, kvmVars, TypeOK, Ks5Link
<1>10. ASSUME NEW c \in Cpu, do_simulate_clone(c) PROVE Ks5Link'
  BY <1>10 DEF do_simulate_clone, kvmVars, TypeOK, ChildLink, Ks5Link
<1>11. ASSUME NEW c \in Cpu, dup_vm(c) PROVE Ks5Link'
  BY <1>11 DEF dup_vm, init_child_thread_info, Moves, TypeOK, Ks5Link
<1> QED
  BY <1>0, <1>1, <1>2, <1>3, <1>4, <1>5, <1>6, <1>7, <1>8, <1>9, <1>10, <1>11
     DEF Next

\* Every step keeps the types.
LEMMA TypeStep == TypeInv /\ [Next]_vars => TypeOK'
<1> SUFFICES ASSUME TypeOK, ChildLink, Ks5Link, [Next]_vars PROVE TypeOK'
  BY DEF TypeInv
<1> USE DEF PhaseOK
<1>t. /\ gpr \in [Cpu -> Gpr] /\ native \in [Cpu -> Gpr] /\ block \in [Cpu -> Block]
      /\ ret \in [Cpu -> Int] /\ era \in [Cpu -> Int]
  BY DatumInt DEF TypeOK
<1>p. \A c \in Cpu : native[c]["pc"] + 1 \in Int
  BY <1>t DEF Gpr, Reg
<1>r. "s0" \in Reg /\ "a0" \in Reg /\ Handler \in Int /\ Pid \in Int
  BY DEF Reg, Handler, Pid
<1>0. CASE UNCHANGED vars
  BY <1>0 DEF vars, hostVars, kvmVars, TypeOK
<1>1. ASSUME NEW c \in Cpu, NEW v \in Value, NEW f \in Value, GuestComputes(c, v, f)
      PROVE  TypeOK'
  <2>1. v \in Int /\ v \in Datum /\ f \in Datum
    BY DatumInt DEF Datum
  <2>4. Go(gpr[c], "s0", v, 0) \in Gpr /\ Go(native[c], "s0", v, 0) \in Gpr
    BY <1>t, <1>r, <2>1, GoFacts
  <2>2. gpr' \in [Cpu -> Gpr]
    BY <1>t, <1>1, <2>4 DEF GuestComputes
  <2>3. native' \in [Cpu -> Gpr]
    BY <1>t, <1>1, <2>4 DEF GuestComputes
  <2> QED
    BY <1>1, <2>1, <2>2, <2>3 DEF GuestComputes, TypeOK, hostVars
<1>2. ASSUME NEW c \in Cpu, NEW k \in Kinds, NEW r \in Datum, NEW args \in Args(k),
             GuestSyscall(c, k, args, r)
      PROVE  TypeOK'
  <2>1. args \in Block
    BY ArgsType
  <2>5. Go(gpr[c], "a0", 0, Handler) \in Gpr
    BY <1>t, <1>r, GoFacts
  <2>2. gpr' \in [Cpu -> Gpr]
    BY <1>t, <1>2, <2>5 DEF GuestSyscall
  <2>3. era' \in [Cpu -> Int]
    BY <1>2 DEF GuestSyscall, TypeOK, Gpr, Reg
  <2>4. PhaseOK'
    BY <1>2, PhaseType DEF GuestSyscall, Phases
  <2> QED
    BY <1>2, <2>1, <2>2, <2>3, <2>4 DEF GuestSyscall, TypeOK
<1>3. ASSUME NEW c \in Cpu, GuestReturn(c) PROVE TypeOK'
  <2>1. ks5[c] = c
    BY <1>3 DEF GuestReturn, Moves, Ks5Link
  <2>4. Go(gpr[c], "a0", block[c].w0, era[c] + 1) \in Gpr
    BY <1>t, <1>r, GoFacts DEF Block
  <2>2. gpr' \in [Cpu -> Gpr]
    BY <1>t, <1>3, <2>1, <2>4 DEF GuestReturn
  <2>3. PhaseOK'
    BY <1>3, PhaseType DEF GuestReturn, Phases
  <2> QED
    BY <1>3, <2>2, <2>3 DEF GuestReturn, TypeOK
<1>4. ASSUME NEW c \in Cpu, KvmRun(c) PROVE TypeOK'
  <2>1. gpr' \in [Cpu -> Gpr]
    BY <1>t, <1>4 DEF KvmRun, Gpr, Reg
  <2>2. PhaseOK'
    BY <1>4, PhaseType DEF KvmRun, Phases
  <2> QED
    BY <1>4, <2>1, <2>2 DEF KvmRun, TypeOK
<1>5. ASSUME NEW c \in Cpu, NEW r \in Value, SyscallAnswered(c, r) PROVE TypeOK'
  <2>1. r \in Int
    BY DatumInt DEF Datum
  <2>2. native' \in [Cpu -> Gpr]
    BY <1>t, <1>p, <1>r, <1>5, <2>1, GoType DEF SyscallAnswered
  <2>3. block' \in [Cpu -> Block]
    <3>1. block[c] \in Block /\ block \in [Cpu -> Block]
      BY DEF TypeOK
    <3>2. [block[c] EXCEPT !.w0 = r] \in Block
      BY <2>1, <3>1 DEF Block
    <3>3. block' = [block EXCEPT ![c] = [block[c] EXCEPT !.w0 = r]]
      BY <1>5 DEF SyscallAnswered
    <3>4. QED
      BY <3>1, <3>2, <3>3
  <2>4. PhaseOK'
    BY <1>5, PhaseType DEF SyscallAnswered, Phases
  <2> QED
    BY <1>5, <2>2, <2>3, <2>4, ServedType DEF SyscallAnswered, kvmVars, TypeOK
<1>6. ASSUME NEW c \in Cpu, Exit(c) PROVE TypeOK'
  <2>1. PhaseOK'
    BY <1>6, PhaseType DEF Exit, Phases
  <2> QED
    BY <1>6, <2>1, ServedType, ZeroType DEF Exit, Ended, kvmVars, TypeOK, Datum
<1>7. ASSUME NEW c \in Cpu, kvm_get_parent_thread_info(c) PROVE TypeOK'
  <2>1. PhaseOK'
    BY <1>7, PhaseType DEF kvm_get_parent_thread_info, Phases
  <2> QED
    BY <1>7, <2>1 DEF kvm_get_parent_thread_info, kvmVars, TypeOK, Info
<1>8. ASSUME NEW c \in Cpu, NEW d \in Cpu, dup_vcpu(c, d) PROVE TypeOK'
  BY <1>8, InitChildType, CpuAssumption DEF dup_vcpu, TypeOK, Phases, NoCpu
<1>9. ASSUME NEW c \in Cpu, NEW d \in Cpu, Fork(c, d) PROVE TypeOK'
  <2>1. NativeChild(c) \in Gpr /\ Go(native[c], "a0", Pid, native[c]["pc"] + 1) \in Gpr
    BY <1>t, <1>p, <1>r, NativeChildFacts, GoFacts
  <2>5. native' \in [Cpu -> Gpr]
    BY <1>t, <1>9, <2>1 DEF Fork
  <2>2. PhaseOK' /\ vm' \in [Cpu -> Cpu \union {NoCpu}]
    BY <1>9, CpuAssumption DEF Fork, TypeOK, Phases, NoCpu
  <2>3. block' \in [Cpu -> Block]
    BY <1>t, <1>r, <1>9 DEF Fork, Block
  <2> QED
    BY <1>9, <2>2, <2>3, <2>5, ServedType DEF Fork, kvmVars, TypeOK
<1>10. ASSUME NEW c \in Cpu, do_simulate_clone(c) PROVE TypeOK'
  <2>1. NativeChild(c) \in Gpr /\ Go(native[c], "a0", Pid, native[c]["pc"] + 1) \in Gpr
    BY <1>t, <1>p, <1>r, NativeChildFacts, GoFacts
  <2>5. native' \in [Cpu -> Gpr]
    BY <1>t, <1>10, <2>1 DEF do_simulate_clone
  <2>2. PhaseOK'
    BY <1>10, CpuAssumption DEF do_simulate_clone, TypeOK, ChildLink, Phases, NoCpu
  <2>3. block' \in [Cpu -> Block]
    BY <1>t, <1>r, <1>10 DEF do_simulate_clone, Block
  <2> QED
    BY <1>10, <2>2, <2>3, <2>5, ServedType DEF do_simulate_clone, kvmVars, TypeOK
<1>11. ASSUME NEW c \in Cpu, dup_vm(c) PROVE TypeOK'
  <2>1. PhaseOK'
    BY <1>11, PhaseType DEF dup_vm, Phases
  <2>2. image[c].info \in Info /\ image[c].block \in Block
    BY DEF TypeOK
  <2> QED
    BY <1>11, <2>1, <2>2, InitChildType, ZeroType DEF dup_vm, TypeOK
<1> QED
  BY <1>0, <1>1, <1>2, <1>3, <1>4, <1>5, <1>6, <1>7, <1>8, <1>9, <1>10, <1>11
     DEF Next

\* Types hold in every state of the contexts of threads.
THEOREM TypeCorrect == Spec => []TypeOK
<1>1. TypeInv /\ [Next]_vars => TypeInv'
  BY TypeStep, LinkStep, Ks5Step DEF TypeInv
<1>2. TypeInv => TypeOK
  BY DEF TypeInv
<1> QED
  BY TypeInit, <1>1, <1>2, PTL DEF Spec

-----------------------------------------------------------------------------
(* The context of every thread, in every phase.                            *)

\* The registers a call leaves alone.
Kept(c) == \A r \in Reg \ {"a0", "pc"} : gpr[c][r] = native[c][r]

\* In the handler, before the answer: the arguments are in the block.
Trapped(c) ==
  /\ Kept(c) /\ gpr[c]["pc"] = Handler
  /\ era[c] = 0 /\ native[c]["pc"] = 0 /\ block[c] = asked[c]

\* The parent's context has been saved.
Saved(c) == info[c].regs = gpr[c] /\ info[c].era = era[c]

\* In the handler, the answer in the block.
Answered(c) ==
  /\ Kept(c) /\ gpr[c]["pc"] = Handler
  /\ block[c].w0 = native[c]["a0"] /\ native[c]["pc"] = era[c] + 1

\* A child that has not run yet.
Fresh(c) ==
  /\ gpr[c] = native[c] /\ ret[c] = 0
  /\ native[c]["a0"] = 0 /\ native[c]["pc"] = 1

\* A forked child whose VM does not exist yet.
Forked(c) ==
  /\ ChildRegs(image[c].info, image[c].block) = native[c]
  /\ native[c]["a0"] = 0 /\ native[c]["pc"] = 1

\* A child whose parent has not called clone yet.
Prepared(c) == gpr[child[c]] = NativeChild(c) /\ ret[child[c]] = 0

Context(c) ==
  /\ phase[c] = "user" => gpr[c] = native[c]
  /\ phase[c] \in {"trap", "saved", "cloning"} => Trapped(c)
  /\ phase[c] \in {"saved", "cloning"} => Saved(c)
  /\ phase[c] = "resume" => Answered(c) \/ Fresh(c)
  /\ phase[c] = "handler" => Answered(c)
  /\ phase[c] = "forked" => Forked(c)

Contexts ==
  /\ \A c \in Cpu : Context(c)
  /\ \A c \in Cpu : phase[c] = "cloning" => Prepared(c)

ContextInv == TypeInv /\ Contexts

\* What init_child_thread_info computes is what the kernel would.
LEMMA ChildIsNative ==
  ASSUME TypeOK, NEW c \in Cpu, Trapped(c), Saved(c)
  PROVE  /\ ChildRegs(info[c], block[c]) = NativeChild(c)
         /\ NativeChild(c)["a0"] = 0 /\ NativeChild(c)["pc"] = 1
<1> DEFINE regs == ChildRegs(info[c], block[c])
<1>1. info[c] \in Info /\ block[c] \in Block
  BY DEF TypeOK
<1>2. regs \in Gpr /\ NativeChild(c) \in Gpr
  BY <1>1, ChildRegsFacts, NativeChildFacts
<1>3. \A r \in {"sp", "tp", "s0"} : info[c].regs[r] = native[c][r]
  BY DEF Trapped, Saved, Kept, Reg
<1>4. regs["a0"] = NativeChild(c)["a0"] /\ regs["pc"] = NativeChild(c)["pc"]
  BY <1>1, ChildRegsFacts, NativeChildFacts DEF Trapped, Saved
<1>5. \A r \in {"sp", "tp", "s0"} : regs[r] = NativeChild(c)[r]
  BY <1>1, <1>3, ChildRegsFacts, NativeChildFacts DEF Trapped
<1>6. \A r \in Reg : regs[r] = NativeChild(c)[r]
  BY <1>4, <1>5 DEF Reg
<1>7. NativeChild(c)["a0"] = 0 /\ NativeChild(c)["pc"] = 1
  BY NativeChildFacts DEF Trapped
<1> HIDE DEF regs
<1>8. regs = NativeChild(c)
  BY <1>2, <1>6, GprEqual
<1> QED
  BY <1>7, <1>8 DEF regs

\* A step that leaves a thread alone leaves its context alone.
LEMMA ContextFrame ==
  ASSUME NEW x \in Cpu, Context(x),
         phase'[x] = phase[x], asked'[x] = asked[x], image'[x] = image[x],
         info'[x] = info[x], block'[x] = block[x], ret'[x] = ret[x],
         gpr'[x] = gpr[x], era'[x] = era[x], native'[x] = native[x]
  PROVE  Context(x)'
  BY DEF Context, Trapped, Saved, Answered, Fresh, Forked, Kept, ChildRegs

\* The same for a clone and its child.
LEMMA PreparedFrame ==
  ASSUME NEW x \in Cpu, Prepared(x),
         child'[x] = child[x], asked'[x] = asked[x], native'[x] = native[x],
         gpr'[child[x]] = gpr[child[x]], ret'[child[x]] = ret[child[x]]
  PROVE  Prepared(x)'
  BY DEF Prepared, NativeChild, Go

\* The initial state satisfies ContextInv.
LEMMA ContextInit == Init => ContextInv
<1> SUFFICES ASSUME Init PROVE ContextInv
  OBVIOUS
<1>1. \A c \in Cpu : Context(c)
  BY DEF Init, Context, All
<1>2. \A c \in Cpu : phase[c] # "cloning"
  BY DEF Init
<1> QED
  BY TypeInit, <1>1, <1>2 DEF ContextInv, Contexts

\* A step of one thread, outside of clones, leaves the others' contexts alone.
LEMMA ContextOthers ==
  ASSUME TypeInv, Contexts, NEW c \in Cpu, Context(c)',
         phase[c] # "prepared", phase'[c] # "cloning",
         \A x \in Cpu \ {c} :
           /\ phase'[x] = phase[x] /\ child'[x] = child[x] /\ asked'[x] = asked[x]
           /\ image'[x] = image[x] /\ info'[x] = info[x] /\ block'[x] = block[x]
           /\ ret'[x] = ret[x] /\ gpr'[x] = gpr[x] /\ era'[x] = era[x]
           /\ native'[x] = native[x]
  PROVE  Contexts'
<1>1. \A x \in Cpu \ {c} : Context(x)'
  BY ContextFrame DEF Contexts
<1>2. ASSUME NEW x \in Cpu, phase'[x] = "cloning" PROVE Prepared(x)'
  <2>1. x # c /\ phase[x] = "cloning"
    BY <1>2
  <2>2. child[x] \in Cpu /\ child[x] # c
    BY <2>1 DEF TypeInv, ChildLink
  <2> QED
    BY <2>1, <2>2, PreparedFrame DEF Contexts
<1> QED
  BY <1>1, <1>2 DEF Contexts

\* Every step keeps the contexts.
LEMMA ContextStep == ContextInv /\ [Next]_vars => ContextInv'
<1> SUFFICES ASSUME ContextInv, [Next]_vars
             PROVE  Contexts'
  BY TypeStep, LinkStep, Ks5Step DEF ContextInv, TypeInv
<1>i. TypeInv /\ TypeOK /\ ChildLink /\ Ks5Link
  BY DEF ContextInv, TypeInv
<1>c. Contexts /\ \A x \in Cpu : Context(x)
  BY DEF ContextInv, Contexts
<1>t. /\ gpr \in [Cpu -> Gpr] /\ native \in [Cpu -> Gpr] /\ block \in [Cpu -> Block]
      /\ ret \in [Cpu -> Int] /\ era \in [Cpu -> Int]
  BY <1>i, DatumInt DEF TypeOK
<1>p. \A c \in Cpu : native[c]["pc"] + 1 \in Int /\ native[c]["a0"] \in Int
  BY <1>t DEF Gpr, Reg
<1>r. "s0" \in Reg /\ "a0" \in Reg /\ Handler \in Int /\ Pid \in Int
  BY DEF Reg, Handler, Pid
<1>0. CASE UNCHANGED vars
  <2>1. \A x \in Cpu : Context(x)'
    BY <1>0, <1>c, ContextFrame DEF vars, hostVars, kvmVars
  <2>2. \A x \in Cpu : phase'[x] = "cloning" => Prepared(x)'
    BY <1>0, <1>c, PreparedFrame DEF vars, hostVars, kvmVars, Contexts
  <2> QED
    BY <2>1, <2>2 DEF Contexts
<1>1. ASSUME NEW c \in Cpu, NEW v \in Value, NEW f \in Value, GuestComputes(c, v, f)
      PROVE  Contexts'
  <2>1. gpr'[c] = Go(gpr[c], "s0", v, 0) /\ native'[c] = Go(native[c], "s0", v, 0)
    BY <1>t, <1>1 DEF GuestComputes
  <2>2. phase'[c] = "user" /\ phase[c] = "user" /\ gpr[c] = native[c]
    BY <1>c, <1>1 DEF GuestComputes, hostVars, Context
  <2>3. Context(c)'
    BY <2>1, <2>2 DEF Context
  <2> QED
    BY <1>i, <1>c, <1>t, <1>1, <2>2, <2>3, ContextOthers DEF GuestComputes, hostVars
<1>2. ASSUME NEW c \in Cpu, NEW k \in Kinds, NEW r \in Datum, NEW args \in Args(k),
             GuestSyscall(c, k, args, r)
      PROVE  Contexts'
  <2>1. phase[c] = "user" /\ phase'[c] = "trap" /\ gpr[c] = native[c] /\ gpr[c]["pc"] = 0
    BY <1>i, <1>c, <1>2 DEF GuestSyscall, Moves, Context, TypeOK
  <2>2. gpr'[c] = Go(gpr[c], "a0", 0, Handler) /\ native'[c] = native[c] /\ era'[c] = 0
    BY <1>t, <1>2, <2>1 DEF GuestSyscall
  <2>3. ks5[c] = c
    BY <1>i, <2>1 DEF Ks5Link
  <2>4. block'[c] = args /\ asked'[c] = args /\ \A x \in Cpu \ {c} : block'[x] = block[x]
    BY <1>i, <1>2, <2>3 DEF GuestSyscall, TypeOK
  <2>5. Kept(c)' /\ gpr'[c]["pc"] = Handler
    <3>1. /\ Go(gpr[c], "a0", 0, Handler)["pc"] = Handler
          /\ \A x \in Reg \ {"a0", "pc"} : Go(gpr[c], "a0", 0, Handler)[x] = gpr[c][x]
      BY <1>t, <1>r, GoFacts
    <3> QED
      BY <2>1, <2>2, <3>1 DEF Kept
  <2>6. Context(c)'
    BY <2>1, <2>2, <2>4, <2>5 DEF Context, Trapped
  <2> QED
    BY <1>i, <1>c, <1>t, <1>2, <2>1, <2>4, <2>6, ContextOthers
       DEF GuestSyscall, Moves, TypeOK
<1>3. ASSUME NEW c \in Cpu, GuestReturn(c)
      PROVE  Contexts'
  <2>1. phase[c] = "handler" /\ phase'[c] = "user" /\ Answered(c) /\ ks5[c] = c
    BY <1>i, <1>c, <1>3 DEF GuestReturn, Moves, Context, TypeOK, Ks5Link
  <2>2. gpr'[c] = Go(gpr[c], "a0", block[c].w0, era[c] + 1) /\ native'[c] = native[c]
    BY <1>t, <1>3, <2>1 DEF GuestReturn
  <2>3. block[c].w0 \in Int /\ era[c] + 1 \in Int
    BY <1>t DEF Block
  <2>4. /\ gpr'[c] \in Gpr /\ gpr'[c]["a0"] = native[c]["a0"]
        /\ gpr'[c]["pc"] = native[c]["pc"]
        /\ \A x \in Reg \ {"a0", "pc"} : gpr'[c][x] = native[c][x]
    <3> DEFINE g == Go(gpr[c], "a0", block[c].w0, era[c] + 1)
    <3>1. /\ g \in Gpr /\ g["a0"] = block[c].w0 /\ g["pc"] = era[c] + 1
          /\ \A x \in Reg \ {"a0", "pc"} : g[x] = gpr[c][x]
      BY <1>t, <1>r, <2>3, GoFacts
    <3> QED
      BY <2>1, <2>2, <3>1 DEF Answered, Kept
  <2>5. gpr'[c] = native'[c]
    BY <1>t, <2>2, <2>4, GprEqual
  <2> QED
    BY <1>i, <1>c, <1>t, <1>3, <2>1, <2>5, ContextOthers
       DEF GuestReturn, Moves, TypeOK, Context
<1>4. ASSUME NEW c \in Cpu, KvmRun(c) PROVE Contexts'
  <2>1. phase[c] = "resume" /\ (Answered(c) \/ Fresh(c)) /\ native'[c] = native[c]
    BY <1>c, <1>4 DEF KvmRun, Moves, Context
  <2>2. /\ gpr'[c] \in Gpr
        /\ \A x \in Reg \ {"a0"} : gpr'[c][x] = gpr[c][x]
        /\ gpr'[c]["a0"] \in {gpr[c]["a0"], ret[c]}
    BY <1>t, <1>r, <1>4 DEF KvmRun, Gpr, Reg
  <2>3. CASE Answered(c)
    <3>1. phase'[c] = "handler"
      BY <1>i, <1>4, <2>3 DEF KvmRun, Moves, Answered, TypeOK
    <3>2. Answered(c)'
      BY <1>4, <2>2, <2>3 DEF KvmRun, Answered, Kept, Reg
    <3> QED
      BY <1>i, <1>c, <1>t, <1>4, <2>1, <3>1, <3>2, ContextOthers
         DEF KvmRun, Moves, TypeOK, Context
  <2>4. CASE Fresh(c)
    <3>1. phase'[c] = "user"
      BY <1>i, <1>4, <2>4 DEF KvmRun, Moves, Fresh, TypeOK, Handler
    <3>2. gpr'[c] = native'[c]
      BY <1>t, <2>1, <2>2, <2>4, GprEqual DEF Fresh
    <3> QED
      BY <1>i, <1>c, <1>t, <1>4, <2>1, <3>1, <3>2, ContextOthers
         DEF KvmRun, Moves, TypeOK, Context
  <2> QED
    BY <2>1, <2>3, <2>4
<1>5. ASSUME NEW c \in Cpu, NEW r \in Value, SyscallAnswered(c, r) PROVE Contexts'
  <2>1. phase[c] = "trap" /\ phase'[c] = "resume" /\ Trapped(c)
    BY <1>i, <1>c, <1>5 DEF SyscallAnswered, Moves, Context, TypeOK
  <2>2. native'[c] = Go(native[c], "a0", r, native[c]["pc"] + 1) /\ r \in Int
    BY <1>t, <1>5, DatumInt DEF SyscallAnswered, Datum
  <2>3. block'[c].w0 = r /\ gpr' = gpr /\ era' = era
    BY <1>t, <1>5 DEF SyscallAnswered, kvmVars, Block
  <2>4. /\ native'[c]["a0"] = r /\ native'[c]["pc"] = native[c]["pc"] + 1
        /\ \A x \in Reg \ {"a0", "pc"} : native'[c][x] = native[c][x]
    BY <1>t, <1>p, <1>r, <2>2, GoFacts
  <2>5. Answered(c)'
    BY <2>1, <2>3, <2>4 DEF Answered, Trapped, Kept
  <2> QED
    BY <1>i, <1>c, <1>t, <1>5, <2>1, <2>5, ContextOthers
       DEF SyscallAnswered, Served, Moves, kvmVars, TypeOK, Context
<1>6. ASSUME NEW c \in Cpu, Exit(c) PROVE Contexts'
  <2>1. phase[c] = "trap" /\ phase'[c] = "free"
    BY <1>i, <1>6 DEF Exit, Moves, TypeOK
  <2> QED
    BY <1>i, <1>c, <1>t, <1>6, <2>1, ContextOthers
       DEF Exit, Ended, Served, Moves, kvmVars, TypeOK, Context
<1>7. ASSUME NEW c \in Cpu, kvm_get_parent_thread_info(c) PROVE Contexts'
  <2>1. phase[c] = "trap" /\ phase'[c] = "saved" /\ Trapped(c)
    BY <1>i, <1>c, <1>7 DEF kvm_get_parent_thread_info, Moves, Context, TypeOK
  <2>2. Trapped(c)' /\ Saved(c)'
    BY <1>i, <1>7, <2>1
       DEF kvm_get_parent_thread_info, kvmVars, Trapped, Kept, Saved, TypeOK
  <2> QED
    BY <1>i, <1>c, <1>t, <1>7, <2>1, <2>2, ContextOthers
       DEF kvm_get_parent_thread_info, Moves, kvmVars, TypeOK, Context
<1>8. ASSUME NEW c \in Cpu, NEW d \in Cpu, dup_vcpu(c, d) PROVE Contexts'
  <2>1. /\ phase[c] = "saved" /\ phase[d] \in {"unused", "free"} /\ c # d
        /\ phase'[c] = "cloning" /\ phase'[d] = "prepared"
        /\ \A x \in Cpu \ {c, d} : phase'[x] = phase[x]
    BY <1>i, <1>8 DEF dup_vcpu, TypeOK
  <2>2. Trapped(c) /\ Saved(c)
    BY <1>c, <2>1 DEF Context
  <2>3. /\ gpr'[d] = ChildRegs(info[c], block[c]) /\ ret'[d] = 0
        /\ \A x \in Cpu \ {d} : gpr'[x] = gpr[x] /\ ret'[x] = ret[x]
    BY <1>t, <1>8 DEF dup_vcpu, init_child_thread_info
  <2>4. child'[c] = d /\ \A x \in Cpu \ {c} : child'[x] = child[x]
    BY <1>i, <1>8 DEF dup_vcpu, TypeOK
  <2>5. UNCHANGED <<asked, image, info, block, era, native>>
    BY <1>8 DEF dup_vcpu, init_child_thread_info
  <2>6. Context(c)'
    BY <2>1, <2>2, <2>3, <2>5 DEF Context, Trapped, Saved, Kept
  <2>7. Context(d)'
    BY <2>1 DEF Context
  <2>8. ASSUME NEW x \in Cpu \ {c, d} PROVE Context(x)'
    BY <1>c, <2>1, <2>3, <2>5, ContextFrame
  <2>9. Prepared(c)'
    <3>1. gpr'[d] = NativeChild(c)
      BY <1>i, <2>2, <2>3, ChildIsNative
    <3> QED
      BY <2>3, <2>4, <2>5, <3>1 DEF Prepared, NativeChild, Go
  <2>10. ASSUME NEW x \in Cpu \ {c}, phase'[x] = "cloning" PROVE Prepared(x)'
    <3>1. phase[x] = "cloning" /\ child[x] \in Cpu \ {d}
      BY <1>i, <2>1, <2>10 DEF ChildLink
    <3> QED
      BY <1>c, <2>3, <2>4, <2>5, <3>1, PreparedFrame DEF Contexts
  <2> QED
    BY <2>6, <2>7, <2>8, <2>9, <2>10 DEF Contexts
<1>9. ASSUME NEW c \in Cpu, NEW d \in Cpu, Fork(c, d) PROVE Contexts'
  <2>1. /\ phase[c] = "saved" /\ phase[d] = "unused" /\ c # d
        /\ phase'[c] = "resume" /\ phase'[d] = "forked"
        /\ \A x \in Cpu \ {c, d} : phase'[x] = phase[x]
    BY <1>i, <1>9 DEF Fork, TypeOK
  <2>2. Trapped(c) /\ Saved(c)
    BY <1>c, <2>1 DEF Context
  <2>3. /\ native'[c] = Go(native[c], "a0", Pid, native[c]["pc"] + 1)
        /\ native'[d] = NativeChild(c)
        /\ \A x \in Cpu \ {c, d} : native'[x] = native[x]
    BY <1>t, <1>9, <2>1 DEF Fork
  <2>4. /\ image'[d].info = info[c] /\ image'[d].block = block[c]
        /\ \A x \in Cpu \ {d} : image'[x] = image[x]
    BY <1>i, <1>9 DEF Fork, TypeOK
  <2>5. /\ block'[c].w0 = Pid /\ \A x \in Cpu \ {c} : block'[x] = block[x]
        /\ \A x \in Cpu \ {c} : asked'[x] = asked[x]
    BY <1>i, <1>9 DEF Fork, Served, TypeOK, Block
  <2>6. UNCHANGED <<child, info, gpr, era, ret>>
    BY <1>9 DEF Fork, kvmVars
  <2>7. Answered(c)'
    <3>1. /\ native'[c]["a0"] = Pid /\ native'[c]["pc"] = native[c]["pc"] + 1
          /\ \A x \in Reg \ {"a0", "pc"} : native'[c][x] = native[c][x]
      BY <1>t, <1>p, <1>r, <2>3, GoFacts
    <3> QED
      BY <2>2, <2>5, <2>6, <3>1 DEF Answered, Trapped, Kept
  <2>8. Forked(d)'
    <3>1. /\ ChildRegs(info[c], block[c]) = native'[d]
          /\ native'[d]["a0"] = 0 /\ native'[d]["pc"] = 1
      BY <1>i, <2>2, <2>3, ChildIsNative
    <3> QED
      BY <2>4, <3>1 DEF Forked, ChildRegs
  <2>9. ASSUME NEW x \in Cpu \ {c, d} PROVE Context(x)'
    BY <1>c, <2>1, <2>3, <2>4, <2>5, <2>6, ContextFrame
  <2>10. ASSUME NEW x \in Cpu, phase'[x] = "cloning" PROVE Prepared(x)'
    <3>1. phase[x] = "cloning" /\ x \notin {c, d}
      BY <2>1, <2>10
    <3> QED
      BY <1>c, <2>3, <2>5, <2>6, <3>1, PreparedFrame DEF Contexts
  <2> QED
    BY <2>1, <2>7, <2>8, <2>9, <2>10 DEF Contexts, Context
<1>10. ASSUME NEW c \in Cpu, do_simulate_clone(c) PROVE Contexts'
  <2>0. PICK d \in Cpu : d = child[c]
    BY <1>i, <1>10 DEF do_simulate_clone, ChildLink
  <2>1. /\ phase[c] = "cloning" /\ phase[d] = "prepared" /\ c # d
        /\ Prepared(c) /\ Trapped(c) /\ Saved(c)
    BY <1>i, <1>c, <1>10, <2>0 DEF do_simulate_clone, ChildLink, Contexts, Context
  <2>2. /\ phase'[c] = "resume" /\ phase'[d] = "resume"
        /\ \A x \in Cpu \ {c, d} : phase'[x] = phase[x]
    BY <1>i, <1>10, <2>0, <2>1 DEF do_simulate_clone, TypeOK
  <2>3. /\ native'[c] = Go(native[c], "a0", Pid, native[c]["pc"] + 1)
        /\ native'[d] = NativeChild(c)
        /\ \A x \in Cpu \ {c, d} : native'[x] = native[x]
    BY <1>t, <1>10, <2>0, <2>1 DEF do_simulate_clone
  <2>4. \A x \in Cpu \ {c} : child'[x] = child[x]
    BY <1>i, <1>10 DEF do_simulate_clone, TypeOK
  <2>5. /\ block'[c].w0 = Pid /\ \A x \in Cpu \ {c} : block'[x] = block[x]
        /\ \A x \in Cpu \ {c} : asked'[x] = asked[x]
    BY <1>i, <1>10 DEF do_simulate_clone, Served, TypeOK, Block
  <2>6. UNCHANGED <<image, info, gpr, era, ret>>
    BY <1>10 DEF do_simulate_clone, kvmVars
  <2>7. Answered(c)'
    <3>1. /\ native'[c]["a0"] = Pid /\ native'[c]["pc"] = native[c]["pc"] + 1
          /\ \A x \in Reg \ {"a0", "pc"} : native'[c][x] = native[c][x]
      BY <1>t, <1>p, <1>r, <2>3, GoFacts
    <3> QED
      BY <2>1, <2>5, <2>6, <3>1 DEF Answered, Trapped, Kept
  <2>8. Fresh(d)'
    <3>1. gpr[d] = NativeChild(c) /\ ret[d] = 0
      BY <2>0, <2>1 DEF Prepared
    <3> QED
      BY <1>i, <2>1, <2>3, <2>6, <3>1, ChildIsNative DEF Fresh
  <2>9. ASSUME NEW x \in Cpu \ {c, d} PROVE Context(x)'
    BY <1>c, <2>2, <2>3, <2>5, <2>6, ContextFrame
  <2>10. ASSUME NEW x \in Cpu, phase'[x] = "cloning" PROVE Prepared(x)'
    <3>1. phase[x] = "cloning" /\ x \notin {c, d}
      BY <2>1, <2>2, <2>10
    <3> QED
      BY <1>c, <2>3, <2>4, <2>5, <2>6, <3>1, PreparedFrame DEF Contexts
  <2> QED
    BY <2>2, <2>7, <2>8, <2>9, <2>10 DEF Contexts, Context
<1>11. ASSUME NEW c \in Cpu, dup_vm(c) PROVE Contexts'
  <2>1. phase[c] = "forked" /\ phase'[c] = "resume" /\ Forked(c)
    BY <1>i, <1>c, <1>11 DEF dup_vm, Moves, Context, TypeOK
  <2>2. gpr'[c] = native[c] /\ ret'[c] = 0 /\ native' = native
    BY <1>t, <1>11, <2>1 DEF dup_vm, init_child_thread_info, Forked
  <2>3. Fresh(c)'
    BY <2>1, <2>2 DEF Fresh, Forked
  <2> QED
    BY <1>i, <1>c, <1>t, <1>11, <2>1, <2>3, ContextOthers
       DEF dup_vm, init_child_thread_info, Moves, TypeOK, Context
<1> QED
  BY <1>0, <1>1, <1>2, <1>3, <1>4, <1>5, <1>6, <1>7, <1>8, <1>9, <1>10, <1>11
     DEF Next

\* A thread that runs has the registers it would have without Dune, and leaves
\* its arguments in its own block: in new vcpus, in reused ones and after forks.
THEOREM ContextSafe == Spec => [](ContextNative /\ OwnBlock)
<1>1. ContextInv => ContextNative /\ OwnBlock
  BY DEF ContextInv, Contexts, Context, TypeInv, Ks5Link, ContextNative, OwnBlock
<1> QED
  BY ContextInit, ContextStep, <1>1, PTL DEF Spec

\* The system call handler of a thread stores into the block of its own vcpu.
THEOREM OwnBlockHolds == Spec => []OwnBlock
  BY ContextSafe, PTL
=============================================================================

--------------------------- MODULE ForkTreeProofs ---------------------------
(***************************************************************************)
(* ForkTree's safety properties hold for any set of tasks, any size of the *)
(* pool and of a descriptor table, any Kinds and either value of HeapLocks *)
(* and Exhaustion.  Inv is their inductive invariant:                      *)
(*  - Types and PhaseOK: TypeOK, and what each step of a clone has          *)
(*    prepared;                                                            *)
(*  - Fresh: a task not yet born shares nothing;                           *)
(*  - StacksOK: stacks are numbered in the order they are mapped;          *)
(*  - HasFd and FdOK: vcpu_fd is set, and names the vcpu of its slot;       *)
(*  - Claims and Named: nothing is made that a descriptor names already.   *)
(***************************************************************************)
EXTENDS ForkTree, TLAPS

\* What descriptors name differs.
LEMMA Objects ==
  /\ Nothing # File
  /\ \A m \in Task : Dev(m) \notin {Nothing, File} /\ Vm(m) \notin {Nothing, File}
  /\ \A m \in Task, s \in Slot : Vcpu(m, s) \notin {Nothing, File}
  /\ \A m, k \in Task : Dev(m) # Vm(k) /\ (Dev(m) = Dev(k) => m = k) /\ (Vm(m) = Vm(k) => m = k)
  /\ \A m, k \in Task, s \in Slot : Vcpu(m, s) # Dev(k) /\ Vcpu(m, s) # Vm(k)
  /\ \A m, k \in Task, s, r \in Slot : Vcpu(m, s) = Vcpu(k, r) => m = k /\ s = r
<1>1. Nothing # File
  BY DEF Nothing, File
<1>2. \A m \in Task : Dev(m) \notin {Nothing, File} /\ Vm(m) \notin {Nothing, File}
  BY DEF Nothing, File, Dev, Vm
<1>3. \A m \in Task, s \in Slot : Vcpu(m, s) \notin {Nothing, File}
  BY DEF Nothing, File, Vcpu
<1>4. \A m, k \in Task : Dev(m) # Vm(k) /\ (Dev(m) = Dev(k) => m = k) /\ (Vm(m) = Vm(k) => m = k)
  BY DEF Dev, Vm
<1>5. \A m, k \in Task, s \in Slot : Vcpu(m, s) # Dev(k) /\ Vcpu(m, s) # Vm(k)
  BY DEF Dev, Vm, Vcpu
<1>6. \A m, k \in Task, s, r \in Slot : Vcpu(m, s) = Vcpu(k, r) => m = k /\ s = r
  BY DEF Vcpu
<1> QED
  BY <1>1, <1>2, <1>3, <1>4, <1>5, <1>6

-----------------------------------------------------------------------------
\* The type of vcpu_pool in every address space.
PoolType == [Task -> [Slot -> [claimed : BOOLEAN, fd : Fd \union {NoFd}]]]

\* The types of the variables, by which TypeOK begins.
Types ==
  /\ pc \in [Task -> Labels]
  /\ job \in [Task -> {"none", "enter", "boot"} \union ForkKinds \union VmKinds]
  /\ mm \in [Task -> Task] /\ files \in [Task -> Task] /\ grp \in [Task -> Task]
  /\ slot \in [Task -> Slot \union {NoSlot}] /\ new \in [Task -> Slot \union {NoSlot}]
  /\ stack \in [Task -> Nat \union {MapFailed}] /\ stk \in [Task -> Nat \union {MapFailed}]
  /\ table \in [Task -> [Fd -> Object]]
  /\ pool \in PoolType
  /\ pages \in [Task -> Nat] /\ heap \in [Task -> Task \union {NoTask}]

\* What a task has prepared, by where it is.
PhaseOf(t) ==
  /\ pc[t] = "unborn" =>
       job[t] = "none" /\ slot[t] = NoSlot /\ new[t] = NoSlot /\ stk[t] = NoStack
  /\ pc[t] = "guest" =>
       job[t] = "none" /\ slot[t] \in Slot /\ new[t] = NoSlot /\ stk[t] = NoStack
  /\ pc[t] \in Boot =>
       job[t] \in {"enter", "boot"} /\ new[t] = NoSlot /\ stk[t] = NoStack
  /\ pc[t] = "alloc" =>
       job[t] \in {"enter", "boot"} \union VmKinds /\ new[t] = NoSlot /\ stk[t] = NoStack
  /\ pc[t] \in {"calloc_cpu", "create_vcpu", "init"} =>
       job[t] \in {"enter", "boot"} \union VmKinds /\ new[t] \in Slot /\ stk[t] = NoStack
  /\ pc[t] = "stack" =>
       /\ job[t] \in {"enter", "fork_new"} \union VmKinds /\ stk[t] = NoStack
       /\ job[t] # "fork_new" => new[t] \in Slot
  /\ pc[t] = "args" =>
       /\ job[t] \in {"enter", "fork_new"} \union VmKinds /\ stk[t] # NoStack
       /\ job[t] # "fork_new" => new[t] \in Slot
  /\ pc[t] = "clone" =>
       /\ job[t] \in ForkKinds \union VmKinds /\ stk[t] # MapFailed
       /\ job[t] \in VmKinds => new[t] \in Slot /\ stk[t] # NoStack
  /\ job[t] \in ForkKinds \union VmKinds => slot[t] \in Slot
PhaseOK == \A t \in Task : PhaseOf(t)

\* What a step may do, with the actions that end a process taken together.
Step(t) ==
  \/ \E n \in Fd : GuestOpens(t, n)
  \/ \E n \in Fd : GuestCloses(t, n)
  \/ GuestLocksHeap(t)
  \/ GuestUnlocksHeap(t)
  \/ \E k \in Kinds : Call(t, k)
  \/ Exit(t)
  \/ CallocVm(t)
  \/ \E n \in Fd : OpenKvm(t, n)
  \/ \E n \in Fd : CreateVm(t, n)
  \/ CreateVmInterrupted(t)
  \/ CreateVmAgain(t)
  \/ \E s \in Slot : AllocVcpu(t, s)
  \/ CallocCpu(t)
  \/ \E n \in Fd : CreateVcpu(t, n)
  \/ InitVcpu(t)
  \/ MmapStack(t)
  \/ MmapFails(t)
  \/ SwitchStack(t)
  \/ WriteArgs(t)
  \/ \E u \in Task : CloneVm(t, u)
  \/ \E u \in Task : Fork(t, u)
  \/ CloneFails(t)

\* Every step is one of Step's, the end of some tasks, or none.
LEMMA Steps ==
  ASSUME [Next]_vars
  PROVE  UNCHANGED vars \/ (\E S \in SUBSET Task : End(S)) \/ \E t \in Task : Step(t)
<1>1. \A t \in Task : Group(t) \in SUBSET Task
  BY DEF Group, Live
<1> QED
  BY <1>1 DEF Next, GuestStep, SetUpStep, CloneStep, Step, Die, ExitGroup, NoMoreVcpu,
     InitRefused, SetUpFails, BadStack

\* Labels has every value of pc.
LEMMA LabelFacts ==
  /\ {"unborn", "dead", "guest", "stack", "args", "clone"} \subseteq Labels
  /\ {"calloc_vm", "open", "create_vm", "eintr"} \subseteq Labels
  /\ {"alloc", "calloc_cpu", "create_vcpu", "init"} \subseteq Labels
  BY DEF Labels, Boot, Making

\* Object has everything a descriptor names.
LEMMA ObjectTypes ==
  /\ Nothing \in Object /\ File \in Object
  /\ \A m \in Task : Dev(m) \in Object /\ Vm(m) \in Object
  /\ \A m \in Task, s \in Slot : Vcpu(m, s) \in Object
  BY DEF Object

\* Setting one field of one vcpu keeps vcpu_pool's type.
LEMMA PoolExcept ==
  ASSUME pool \in PoolType, NEW m \in Task, NEW s \in Slot
  PROVE  /\ \A b \in BOOLEAN : [pool EXCEPT ![m][s].claimed = b] \in PoolType
         /\ \A n \in Fd : [pool EXCEPT ![m][s].fd = n] \in PoolType
<1> DEFINE Ele == [claimed : BOOLEAN, fd : Fd \union {NoFd}]
<1>1. pool \in [Task -> [Slot -> Ele]] /\ pool[m] \in [Slot -> Ele] /\ pool[m][s] \in Ele
  BY DEF PoolType
<1>2. \A e \in Ele : [pool EXCEPT ![m][s] = e] \in PoolType
  <2> HIDE DEF Ele
  <2>1. \A e \in Ele : [pool EXCEPT ![m][s] = e] \in [Task -> [Slot -> Ele]]
    BY <1>1
  <2> QED
    BY <2>1 DEF PoolType, Ele
<1>3. ASSUME NEW b \in BOOLEAN PROVE [pool EXCEPT ![m][s].claimed = b] \in PoolType
  <2>1. [pool[m][s] EXCEPT !.claimed = b] \in Ele
    BY <1>1
  <2>2. [pool EXCEPT ![m][s].claimed = b] = [pool EXCEPT ![m][s] = [pool[m][s] EXCEPT !.claimed = b]]
    OBVIOUS
  <2> QED
    BY <1>2, <2>1, <2>2
<1>4. ASSUME NEW n \in Fd PROVE [pool EXCEPT ![m][s].fd = n] \in PoolType
  <2>1. [pool[m][s] EXCEPT !.fd = n] \in Ele
    BY <1>1
  <2>2. [pool EXCEPT ![m][s].fd = n] = [pool EXCEPT ![m][s] = [pool[m][s] EXCEPT !.fd = n]]
    OBVIOUS
  <2> QED
    BY <1>2, <2>1, <2>2
<1> QED
  BY <1>3, <1>4

\* So does the pool kvm_init_vm_with_one_cpu makes.
LEMMA EmptyPoolType == EmptyPool \in [Slot -> [claimed : BOOLEAN, fd : Fd \union {NoFd}]]
  BY DEF EmptyPool, FreeSlot

\* Every step keeps the types, and what tasks have prepared.
LEMMA TypesStep == Types /\ PhaseOK /\ [Next]_vars => Types'
<1> SUFFICES ASSUME Types, PhaseOK, [Next]_vars PROVE Types'
  OBVIOUS
<1> USE LabelFacts, ObjectTypes, KindsAssumption DEF Types
<1>n. NoStack \in Nat
  BY DEF NoStack
<1>0. CASE UNCHANGED vars
  BY <1>0 DEF vars, taskVars
<1>1. ASSUME NEW S \in SUBSET Task, End(S) PROVE Types'
  BY <1>1 DEF End, taskVars
<1>2. ASSUME NEW t \in Task, NEW n \in Fd, GuestOpens(t, n) PROVE Types'
  BY <1>2 DEF GuestOpens, Opens, taskVars
<1>3. ASSUME NEW t \in Task, NEW n \in Fd, GuestCloses(t, n) PROVE Types'
  BY <1>3 DEF GuestCloses, taskVars
<1>4. ASSUME NEW t \in Task, GuestLocksHeap(t) PROVE Types'
  BY <1>4 DEF GuestLocksHeap, taskVars
<1>5. ASSUME NEW t \in Task, GuestUnlocksHeap(t) PROVE Types'
  BY <1>5 DEF GuestUnlocksHeap, taskVars
<1>6. ASSUME NEW t \in Task, NEW k \in Kinds, Call(t, k) PROVE Types'
  BY <1>6 DEF Call, Transition, taskVars
<1>7. ASSUME NEW t \in Task, Exit(t) PROVE Types'
  <2>1. slot[t] \in Slot
    BY <1>7 DEF Exit, PhaseOK, PhaseOf
  <2>2. pool' \in PoolType
    BY <1>7, <2>1, PoolExcept DEF Exit
  <2> QED
    BY <1>7, <2>2 DEF Exit, taskVars
<1>8. ASSUME NEW t \in Task, CallocVm(t) PROVE Types'
  BY <1>8 DEF CallocVm, Transition, taskVars
<1>9. ASSUME NEW t \in Task, NEW n \in Fd, OpenKvm(t, n) PROVE Types'
  BY <1>9 DEF OpenKvm, Transition, Opens, taskVars
<1>10. ASSUME NEW t \in Task, NEW n \in Fd, CreateVm(t, n) PROVE Types'
  BY <1>10 DEF CreateVm, Transition, Opens, taskVars
<1>11. ASSUME NEW t \in Task, CreateVmInterrupted(t) PROVE Types'
  BY <1>11 DEF CreateVmInterrupted, Transition, taskVars
<1>12. ASSUME NEW t \in Task, CreateVmAgain(t) PROVE Types'
  BY <1>12 DEF CreateVmAgain, Transition, taskVars
<1>13. ASSUME NEW t \in Task, NEW s \in Slot, AllocVcpu(t, s) PROVE Types'
  <2>1. pool' \in PoolType
    BY <1>13, PoolExcept DEF AllocVcpu
  <2> QED
    BY <1>13, <2>1 DEF AllocVcpu, Transition, taskVars
<1>14. ASSUME NEW t \in Task, CallocCpu(t) PROVE Types'
  BY <1>14 DEF CallocCpu, Transition, taskVars
<1>15. ASSUME NEW t \in Task, NEW n \in Fd, CreateVcpu(t, n) PROVE Types'
  <2>1. new[t] \in Slot
    BY <1>15 DEF CreateVcpu, Transition, PhaseOK, PhaseOf
  <2>2. pool' \in PoolType
    BY <1>15, <2>1, PoolExcept DEF CreateVcpu
  <2>3. table' \in [Task -> [Fd -> Object]]
    BY <1>15, <2>1 DEF CreateVcpu, Opens
  <2> QED
    BY <1>15, <2>2, <2>3 DEF CreateVcpu, Transition, taskVars
<1>16. ASSUME NEW t \in Task, InitVcpu(t) PROVE Types'
  BY <1>16 DEF InitVcpu, Transition, Enters, taskVars
<1>17. ASSUME NEW t \in Task, MmapStack(t) PROVE Types'
  BY <1>17 DEF MmapStack, Transition, taskVars
<1>18. ASSUME NEW t \in Task, MmapFails(t) PROVE Types'
  BY <1>18 DEF MmapFails, Transition, taskVars
<1>19. ASSUME NEW t \in Task, SwitchStack(t) PROVE Types'
  BY <1>n, <1>19 DEF SwitchStack, Transition, Enters
<1>20. ASSUME NEW t \in Task, WriteArgs(t) PROVE Types'
  BY <1>20 DEF WriteArgs, Transition, taskVars
<1>21. ASSUME NEW t \in Task, NEW u \in Task, CloneVm(t, u) PROVE Types'
  <2>1. table' \in [Task -> [Fd -> Object]]
    BY <1>21 DEF CloneVm
  <2>2. stack' \in [Task -> Nat \union {MapFailed}] /\ stk' \in [Task -> Nat \union {MapFailed}]
    BY <1>n, <1>21 DEF CloneVm, Cloned, ChildStack
  <2> QED
    BY <1>21, <2>1, <2>2 DEF CloneVm, Cloned
<1>22. ASSUME NEW t \in Task, NEW u \in Task, Fork(t, u) PROVE Types'
  <2>1. table' \in [Task -> [Fd -> Object]]
    BY <1>22 DEF Fork
  <2>2. stack' \in [Task -> Nat \union {MapFailed}] /\ stk' \in [Task -> Nat \union {MapFailed}]
    BY <1>n, <1>22 DEF Fork, Cloned
  <2>3. pool' \in PoolType
    BY <1>22, EmptyPoolType DEF Fork, PoolOfChild, PoolType
  <2> QED
    BY <1>22, <2>1, <2>2, <2>3 DEF Fork, Cloned
<1>23. ASSUME NEW t \in Task, CloneFails(t) PROVE Types'
  BY <1>n, <1>23 DEF CloneFails, Cloned, Transition
<1> QED
  BY <1>0, <1>1, <1>2, <1>3, <1>4, <1>5, <1>6, <1>7, <1>8, <1>9, <1>10, <1>11, <1>12,
     <1>13, <1>14, <1>15, <1>16, <1>17, <1>18, <1>19, <1>20, <1>21, <1>22, <1>23, Steps DEF Step

\* Each step of a bring-up or a clone finds what the one before it prepared.
LEMMA PhaseStep == Types /\ PhaseOK /\ [Next]_vars => PhaseOK'
<1> SUFFICES ASSUME Types, PhaseOK, [Next]_vars PROVE PhaseOK'
  OBVIOUS
<1> USE KindsAssumption DEF Types, PhaseOK, PhaseOf, Boot, ForkKinds, VmKinds, NoStack, MapFailed
<1>0. CASE UNCHANGED vars
  BY <1>0 DEF vars, taskVars
<1>1. ASSUME NEW S \in SUBSET Task, End(S) PROVE PhaseOK'
  BY <1>1 DEF End, taskVars
<1>2. ASSUME NEW t \in Task, NEW n \in Fd, GuestOpens(t, n) PROVE PhaseOK'
  BY <1>2 DEF GuestOpens, Opens, taskVars
<1>3. ASSUME NEW t \in Task, NEW n \in Fd, GuestCloses(t, n) PROVE PhaseOK'
  BY <1>3 DEF GuestCloses, taskVars
<1>4. ASSUME NEW t \in Task, GuestLocksHeap(t) PROVE PhaseOK'
  BY <1>4 DEF GuestLocksHeap, taskVars
<1>5. ASSUME NEW t \in Task, GuestUnlocksHeap(t) PROVE PhaseOK'
  BY <1>5 DEF GuestUnlocksHeap, taskVars
<1>6. ASSUME NEW t \in Task, NEW k \in Kinds, Call(t, k) PROVE PhaseOK'
  BY <1>6 DEF Call, Transition, taskVars
<1>7. ASSUME NEW t \in Task, Exit(t) PROVE PhaseOK'
  BY <1>7 DEF Exit, taskVars
<1>8. ASSUME NEW t \in Task, CallocVm(t) PROVE PhaseOK'
  BY <1>8 DEF CallocVm, Transition, taskVars
<1>9. ASSUME NEW t \in Task, NEW n \in Fd, OpenKvm(t, n) PROVE PhaseOK'
  BY <1>9 DEF OpenKvm, Transition, Opens, taskVars
<1>10. ASSUME NEW t \in Task, NEW n \in Fd, CreateVm(t, n) PROVE PhaseOK'
  BY <1>10 DEF CreateVm, Transition, Opens, taskVars
<1>11. ASSUME NEW t \in Task, CreateVmInterrupted(t) PROVE PhaseOK'
  BY <1>11 DEF CreateVmInterrupted, Transition, taskVars
<1>12. ASSUME NEW t \in Task, CreateVmAgain(t) PROVE PhaseOK'
  BY <1>12 DEF CreateVmAgain, Transition, taskVars
<1>13. ASSUME NEW t \in Task, NEW s \in Slot, AllocVcpu(t, s) PROVE PhaseOK'
  BY <1>13 DEF AllocVcpu, Transition, taskVars
<1>14. ASSUME NEW t \in Task, CallocCpu(t) PROVE PhaseOK'
  BY <1>14 DEF CallocCpu, Transition, taskVars
<1>15. ASSUME NEW t \in Task, NEW n \in Fd, CreateVcpu(t, n) PROVE PhaseOK'
  BY <1>15 DEF CreateVcpu, Transition, Opens, taskVars
<1>16. ASSUME NEW t \in Task, InitVcpu(t) PROVE PhaseOK'
  BY <1>16 DEF InitVcpu, Transition, Enters, taskVars
<1>17. ASSUME NEW t \in Task, MmapStack(t) PROVE PhaseOK'
  BY <1>17 DEF MmapStack, Transition, taskVars
<1>18. ASSUME NEW t \in Task, MmapFails(t) PROVE PhaseOK'
  BY <1>18 DEF MmapFails, Transition, taskVars
<1>19. ASSUME NEW t \in Task, SwitchStack(t) PROVE PhaseOK'
  BY <1>19 DEF SwitchStack, Transition, Enters, taskVars
<1>20. ASSUME NEW t \in Task, WriteArgs(t) PROVE PhaseOK'
  BY <1>20 DEF WriteArgs, Transition, taskVars
<1>21. ASSUME NEW t \in Task, NEW u \in Task, CloneVm(t, u) PROVE PhaseOK'
  BY <1>21 DEF CloneVm, Cloned, Born, ChildStack, taskVars
<1>22. ASSUME NEW t \in Task, NEW u \in Task, Fork(t, u) PROVE PhaseOK'
  BY <1>22 DEF Fork, Cloned, Born, PoolOfChild, EmptyPool, FreeSlot, taskVars
<1>23. ASSUME NEW t \in Task, CloneFails(t) PROVE PhaseOK'
  BY <1>23 DEF CloneFails, Cloned, Transition, taskVars
<1> QED
  BY <1>0, <1>1, <1>2, <1>3, <1>4, <1>5, <1>6, <1>7, <1>8, <1>9, <1>10, <1>11, <1>12,
     <1>13, <1>14, <1>15, <1>16, <1>17, <1>18, <1>19, <1>20, <1>21, <1>22, <1>23, Steps DEF Step

-----------------------------------------------------------------------------
\* Nobody uses the address space or the table of a task not yet born.
Fresh ==
  \A u \in Task : pc[u] = "unborn" =>
    /\ mm[u] = u /\ files[u] = u /\ pool[u] = EmptyPool
    /\ \A t \in Task : (mm[t] = u => t = u) /\ (files[t] = u => t = u)

\* Only Fork and CloneVm touch a task not yet born, and it is born then.
LEMMA FreshStep == Types /\ Fresh /\ [Next]_vars => Fresh'
<1> SUFFICES ASSUME Types, Fresh, [Next]_vars PROVE Fresh'
  OBVIOUS
<1> USE KindsAssumption DEF Types, Fresh
<1>0. CASE UNCHANGED vars
  BY <1>0 DEF vars, taskVars
<1>1. ASSUME NEW S \in SUBSET Task, End(S) PROVE Fresh'
  BY <1>1 DEF End, taskVars
<1>2. ASSUME NEW t \in Task, NEW n \in Fd, GuestOpens(t, n) PROVE Fresh'
  BY <1>2 DEF GuestOpens, Opens, taskVars
<1>3. ASSUME NEW t \in Task, NEW n \in Fd, GuestCloses(t, n) PROVE Fresh'
  BY <1>3 DEF GuestCloses, taskVars
<1>4. ASSUME NEW t \in Task, GuestLocksHeap(t) PROVE Fresh'
  BY <1>4 DEF GuestLocksHeap, taskVars
<1>5. ASSUME NEW t \in Task, GuestUnlocksHeap(t) PROVE Fresh'
  BY <1>5 DEF GuestUnlocksHeap, taskVars
<1>6. ASSUME NEW t \in Task, NEW k \in Kinds, Call(t, k) PROVE Fresh'
  BY <1>6 DEF Call, Transition, taskVars
<1>7. ASSUME NEW t \in Task, Exit(t) PROVE Fresh'
  BY <1>7 DEF Exit, taskVars
<1>8. ASSUME NEW t \in Task, CallocVm(t) PROVE Fresh'
  BY <1>8 DEF CallocVm, Transition, taskVars
<1>9. ASSUME NEW t \in Task, NEW n \in Fd, OpenKvm(t, n) PROVE Fresh'
  BY <1>9 DEF OpenKvm, Transition, Opens, taskVars
<1>10. ASSUME NEW t \in Task, NEW n \in Fd, CreateVm(t, n) PROVE Fresh'
  BY <1>10 DEF CreateVm, Transition, Opens, taskVars
<1>11. ASSUME NEW t \in Task, CreateVmInterrupted(t) PROVE Fresh'
  BY <1>11 DEF CreateVmInterrupted, Transition, taskVars
<1>12. ASSUME NEW t \in Task, CreateVmAgain(t) PROVE Fresh'
  BY <1>12 DEF CreateVmAgain, Transition, taskVars
<1>13. ASSUME NEW t \in Task, NEW s \in Slot, AllocVcpu(t, s) PROVE Fresh'
  BY <1>13 DEF AllocVcpu, Transition, taskVars
<1>14. ASSUME NEW t \in Task, CallocCpu(t) PROVE Fresh'
  BY <1>14 DEF CallocCpu, Transition, taskVars
<1>15. ASSUME NEW t \in Task, NEW n \in Fd, CreateVcpu(t, n) PROVE Fresh'
  BY <1>15 DEF CreateVcpu, Transition, Opens, taskVars
<1>16. ASSUME NEW t \in Task, InitVcpu(t) PROVE Fresh'
  BY <1>16 DEF InitVcpu, Transition, Enters, taskVars
<1>17. ASSUME NEW t \in Task, MmapStack(t) PROVE Fresh'
  BY <1>17 DEF MmapStack, Transition, taskVars
<1>18. ASSUME NEW t \in Task, MmapFails(t) PROVE Fresh'
  BY <1>18 DEF MmapFails, Transition, taskVars
<1>19. ASSUME NEW t \in Task, SwitchStack(t) PROVE Fresh'
  BY <1>19 DEF SwitchStack, Transition, Enters, taskVars
<1>20. ASSUME NEW t \in Task, WriteArgs(t) PROVE Fresh'
  BY <1>20 DEF WriteArgs, Transition, taskVars
<1>21. ASSUME NEW t \in Task, NEW u \in Task, CloneVm(t, u) PROVE Fresh'
  BY <1>21 DEF CloneVm, Cloned, Born, ChildStack, taskVars
<1>22. ASSUME NEW t \in Task, NEW u \in Task, Fork(t, u) PROVE Fresh'
  <2> SUFFICES ASSUME NEW w \in Task, pc'[w] = "unborn"
               PROVE  /\ mm'[w] = w /\ files'[w] = w /\ pool'[w] = EmptyPool
                      /\ \A v \in Task : (mm'[v] = w => v = w) /\ (files'[v] = w => v = w)
    BY DEF Fresh
  <2>1. pc[w] = "unborn" /\ w # u /\ w # t
    BY <1>22 DEF Fork, Born
  <2>2. mm'[w] = w /\ files'[w] = w /\ pool'[w] = EmptyPool
    BY <1>22, <2>1 DEF Fork
  <2>3. \A v \in Task : (mm'[v] = w => v = w) /\ (files'[v] = w => v = w)
    BY <1>22, <2>1 DEF Fork
  <2> QED
    BY <2>2, <2>3
<1>23. ASSUME NEW t \in Task, CloneFails(t) PROVE Fresh'
  BY <1>23 DEF CloneFails, Cloned, Transition, taskVars
<1> QED
  BY <1>0, <1>1, <1>2, <1>3, <1>4, <1>5, <1>6, <1>7, <1>8, <1>9, <1>10, <1>11, <1>12,
     <1>13, <1>14, <1>15, <1>16, <1>17, <1>18, <1>19, <1>20, <1>21, <1>22, <1>23, Steps DEF Step

\* Stacks that are used or prepared are mapped, and each of one task.
StacksOK ==
  /\ \A t \in Task :
       /\ stack[t] # MapFailed /\ stack[t] <= pages[mm[t]] /\ stk[t] <= pages[mm[t]]
       /\ stk[t] > 0 => stk[t] # stack[t]
  /\ OwnStack

\* MmapStack hands out a number nobody has; the rest only passes stacks on.
LEMMA StacksStep == Types /\ PhaseOK /\ Fresh /\ StacksOK /\ [Next]_vars => StacksOK'
<1> SUFFICES ASSUME Types, PhaseOK, Fresh, StacksOK, [Next]_vars PROVE StacksOK'
  OBVIOUS
<1> USE KindsAssumption DEF Types, StacksOK, OwnStack, Live, MapFailed, NoStack
<1>0. CASE UNCHANGED vars
  BY <1>0 DEF vars, taskVars
<1>1. ASSUME NEW S \in SUBSET Task, End(S) PROVE StacksOK'
  BY <1>1 DEF End, taskVars
<1>2. ASSUME NEW t \in Task, NEW n \in Fd, GuestOpens(t, n) PROVE StacksOK'
  BY <1>2 DEF GuestOpens, Opens, taskVars
<1>3. ASSUME NEW t \in Task, NEW n \in Fd, GuestCloses(t, n) PROVE StacksOK'
  BY <1>3 DEF GuestCloses, taskVars
<1>4. ASSUME NEW t \in Task, GuestLocksHeap(t) PROVE StacksOK'
  BY <1>4 DEF GuestLocksHeap, taskVars
<1>5. ASSUME NEW t \in Task, GuestUnlocksHeap(t) PROVE StacksOK'
  BY <1>5 DEF GuestUnlocksHeap, taskVars
<1>6. ASSUME NEW t \in Task, NEW k \in Kinds, Call(t, k) PROVE StacksOK'
  BY <1>6 DEF Call, Transition, taskVars
<1>7. ASSUME NEW t \in Task, Exit(t) PROVE StacksOK'
  BY <1>7 DEF Exit, taskVars
<1>8. ASSUME NEW t \in Task, CallocVm(t) PROVE StacksOK'
  BY <1>8 DEF CallocVm, Transition, taskVars
<1>9. ASSUME NEW t \in Task, NEW n \in Fd, OpenKvm(t, n) PROVE StacksOK'
  BY <1>9 DEF OpenKvm, Transition, Opens, taskVars
<1>10. ASSUME NEW t \in Task, NEW n \in Fd, CreateVm(t, n) PROVE StacksOK'
  BY <1>10 DEF CreateVm, Transition, Opens, taskVars
<1>11. ASSUME NEW t \in Task, CreateVmInterrupted(t) PROVE StacksOK'
  BY <1>11 DEF CreateVmInterrupted, Transition, taskVars
<1>12. ASSUME NEW t \in Task, CreateVmAgain(t) PROVE StacksOK'
  BY <1>12 DEF CreateVmAgain, Transition, taskVars
<1>13. ASSUME NEW t \in Task, NEW s \in Slot, AllocVcpu(t, s) PROVE StacksOK'
  BY <1>13 DEF AllocVcpu, Transition, taskVars
<1>14. ASSUME NEW t \in Task, CallocCpu(t) PROVE StacksOK'
  BY <1>14 DEF CallocCpu, Transition, taskVars
<1>15. ASSUME NEW t \in Task, NEW n \in Fd, CreateVcpu(t, n) PROVE StacksOK'
  BY <1>15 DEF CreateVcpu, Transition, Opens, taskVars
<1>16. ASSUME NEW t \in Task, InitVcpu(t) PROVE StacksOK'
  BY <1>16 DEF InitVcpu, Transition, Enters, taskVars
<1>17. ASSUME NEW t \in Task, MmapStack(t) PROVE StacksOK'
  <2>0. mm' = mm /\ stack' = stack
    BY <1>17 DEF MmapStack, taskVars
  <2>1. \A v \in Task : pages'[mm[v]] \in Nat /\ pages'[mm[v]] >= pages[mm[v]]
    BY <1>17 DEF MmapStack
  <2>2. stk'[t] = pages[mm[t]] + 1 /\ pages'[mm[t]] = pages[mm[t]] + 1
        /\ \A v \in Task \ {t} : stk'[v] = stk[v]
    BY <1>17 DEF MmapStack
  <2>3. \A v \in Task : pc'[v] \notin {"unborn", "dead"} => pc[v] \notin {"unborn", "dead"}
    BY <1>17 DEF MmapStack, Transition
  <2>4. \A v \in Task : /\ stack[v] \in Int /\ stk[v] \in Int /\ pages[mm[v]] \in Nat
                        /\ stack[v] <= pages[mm[v]] /\ stk[v] <= pages[mm[v]] /\ mm[v] \in Task
    OBVIOUS
  <2>5. \A v \in Task :
          /\ stack[v] # MapFailed /\ stack[v] <= pages'[mm[v]] /\ stk'[v] <= pages'[mm[v]]
          /\ stk'[v] > 0 => stk'[v] # stack[v]
    <3> SUFFICES ASSUME NEW v \in Task
                 PROVE  /\ stack[v] # MapFailed /\ stack[v] <= pages'[mm[v]] /\ stk'[v] <= pages'[mm[v]]
                        /\ stk'[v] > 0 => stk'[v] # stack[v]
      OBVIOUS
    <3>1. CASE v = t
      BY <2>1, <2>2, <2>4, <3>1
    <3>2. CASE v # t
      BY <2>1, <2>2, <2>4, <3>2
    <3> QED
      BY <3>1, <3>2
  <2>6. \A v, w \in Task : v # w /\ mm[v] = mm[w] /\ pc'[v] \notin {"unborn", "dead"}
                            /\ pc'[w] \notin {"unborn", "dead"} =>
          /\ stack[v] # stack[w]
          /\ stk'[v] > 0 => stk'[v] \notin {stack[w], stk'[w]}
    <3> SUFFICES ASSUME NEW v \in Task, NEW w \in Task, v # w, mm[v] = mm[w],
                        pc'[v] \notin {"unborn", "dead"}, pc'[w] \notin {"unborn", "dead"}
                 PROVE  /\ stack[v] # stack[w]
                        /\ stk'[v] > 0 => stk'[v] \notin {stack[w], stk'[w]}
      OBVIOUS
    <3>1. /\ stack[v] # stack[w]
          /\ stk[v] > 0 => stk[v] \notin {stack[w], stk[w]}
      BY <2>3
    <3>2. CASE v = t
      BY <2>2, <2>4, <3>1, <3>2
    <3>3. CASE w = t
      BY <2>2, <2>4, <3>1, <3>3
    <3>4. CASE v # t /\ w # t
      BY <2>2, <3>1, <3>4
    <3> QED
      BY <3>2, <3>3, <3>4
  <2> QED
    BY <2>0, <2>5, <2>6
<1>18. ASSUME NEW t \in Task, MmapFails(t) PROVE StacksOK'
  BY <1>18 DEF MmapFails, Transition, taskVars
<1>19. ASSUME NEW t \in Task, SwitchStack(t) PROVE StacksOK'
  <2>0. mm' = mm /\ pages' = pages /\ stack' = [stack EXCEPT ![t] = stk[t]]
        /\ stk' = [stk EXCEPT ![t] = NoStack] /\ stk[t] > 0 /\ t \in Live
    BY <1>19 DEF SwitchStack, Transition, PhaseOK, PhaseOf
  <2>3. \A v \in Task : pc'[v] \notin {"unborn", "dead"} => pc[v] \notin {"unborn", "dead"}
    BY <1>19 DEF SwitchStack, Transition
  <2> QED
    BY <2>0, <2>3
<1>20. ASSUME NEW t \in Task, WriteArgs(t) PROVE StacksOK'
  BY <1>20 DEF WriteArgs, Transition, taskVars
<1>21. ASSUME NEW t \in Task, NEW u \in Task, CloneVm(t, u) PROVE StacksOK'
  <2>0. pages' = pages /\ stack' = [stack EXCEPT ![u] = stk[t]] /\ mm' = [mm EXCEPT ![u] = mm[t]]
        /\ stk' = [stk EXCEPT ![t] = NoStack] /\ stk[t] > 0 /\ t \in Live /\ u # t
        /\ stk[u] = NoStack
    BY <1>21 DEF CloneVm, Cloned, ChildStack, Born, PhaseOK, PhaseOf
  <2>3. \A v \in Task : v # u /\ pc'[v] \notin {"unborn", "dead"} => pc[v] \notin {"unborn", "dead"}
    BY <1>21 DEF CloneVm, Born
  <2> QED
    BY <2>0, <2>3
<1>22. ASSUME NEW t \in Task, NEW u \in Task, Fork(t, u) PROVE StacksOK'
  <2>0. pages' = [pages EXCEPT ![u] = pages[mm[t]]] /\ mm' = mm
        /\ stack' = [stack EXCEPT ![u] = IF stk[t] = NoStack THEN stack[t] ELSE stk[t]]
        /\ stk' = [stk EXCEPT ![t] = NoStack] /\ stk[t] # MapFailed /\ u # t
        /\ stk[u] = NoStack /\ pc[u] = "unborn"
    BY <1>22 DEF Fork, Cloned, Born, PhaseOK, PhaseOf
  <2>1. \A v \in Task : mm[v] = u <=> v = u
    BY <2>0 DEF Fresh
  <2>3. \A v \in Task : v # u /\ pc'[v] \notin {"unborn", "dead"} => pc[v] \notin {"unborn", "dead"}
    BY <1>22 DEF Fork, Born
  <2> QED
    BY <2>0, <2>1, <2>3
<1>23. ASSUME NEW t \in Task, CloneFails(t) PROVE StacksOK'
  BY <1>23 DEF CloneFails, Cloned, Transition, taskVars
<1> QED
  BY <1>0, <1>1, <1>2, <1>3, <1>4, <1>5, <1>6, <1>7, <1>8, <1>9, <1>10, <1>11, <1>12,
     <1>13, <1>14, <1>15, <1>16, <1>17, <1>18, <1>19, <1>20, <1>21, <1>22, <1>23, Steps DEF Step

-----------------------------------------------------------------------------
\* A vcpu that is set up or run exists.
HasFd ==
  \A t \in Task :
    /\ pc[t] = "init" => pool[mm[t]][new[t]].fd # NoFd
    /\ pc[t] \in {"stack", "args", "clone"} /\ job[t] \notin ForkKinds =>
         pool[mm[t]][new[t]].fd # NoFd
    /\ pc[t] \notin {"unborn", "dead"} /\ slot[t] \in Slot => pool[mm[t]][slot[t]].fd # NoFd

\* No step takes vcpu_fd back.
LEMMA HasFdStep == Types /\ PhaseOK /\ Fresh /\ HasFd /\ [Next]_vars => HasFd'
<1> SUFFICES ASSUME Types, PhaseOK, Fresh, HasFd, [Next]_vars PROVE HasFd'
  OBVIOUS
<1> USE KindsAssumption DEF Types, HasFd
<1>0. CASE UNCHANGED vars
  BY <1>0 DEF vars, taskVars, PoolType
<1>1. ASSUME NEW S \in SUBSET Task, End(S) PROVE HasFd'
  BY <1>1 DEF End, taskVars, PoolType
<1>2. ASSUME NEW t \in Task, NEW n \in Fd, GuestOpens(t, n) PROVE HasFd'
  BY <1>2 DEF GuestOpens, Opens, taskVars, PoolType
<1>3. ASSUME NEW t \in Task, NEW n \in Fd, GuestCloses(t, n) PROVE HasFd'
  BY <1>3 DEF GuestCloses, taskVars, PoolType
<1>4. ASSUME NEW t \in Task, GuestLocksHeap(t) PROVE HasFd'
  BY <1>4 DEF GuestLocksHeap, taskVars, PoolType
<1>5. ASSUME NEW t \in Task, GuestUnlocksHeap(t) PROVE HasFd'
  BY <1>5 DEF GuestUnlocksHeap, taskVars, PoolType
<1>6. ASSUME NEW t \in Task, NEW k \in Kinds, Call(t, k) PROVE HasFd'
  BY <1>6 DEF Call, Transition, ForkKinds, VmKinds
<1>7. ASSUME NEW t \in Task, Exit(t) PROVE HasFd'
  BY <1>7 DEF Exit, taskVars, PoolType
<1>8. ASSUME NEW t \in Task, CallocVm(t) PROVE HasFd'
  BY <1>8 DEF CallocVm, Transition, taskVars, PoolType
<1>9. ASSUME NEW t \in Task, NEW n \in Fd, OpenKvm(t, n) PROVE HasFd'
  BY <1>9 DEF OpenKvm, Transition, Opens, taskVars, PoolType
<1>10. ASSUME NEW t \in Task, NEW n \in Fd, CreateVm(t, n) PROVE HasFd'
  BY <1>10 DEF CreateVm, Transition, Opens, taskVars, PoolType
<1>11. ASSUME NEW t \in Task, CreateVmInterrupted(t) PROVE HasFd'
  BY <1>11 DEF CreateVmInterrupted, Transition, taskVars, PoolType
<1>12. ASSUME NEW t \in Task, CreateVmAgain(t) PROVE HasFd'
  BY <1>12 DEF CreateVmAgain, Transition, taskVars, PoolType
<1>13. ASSUME NEW t \in Task, NEW s \in Slot, AllocVcpu(t, s) PROVE HasFd'
  BY <1>13 DEF AllocVcpu, Transition, taskVars, PoolType
<1>14. ASSUME NEW t \in Task, CallocCpu(t) PROVE HasFd'
  BY <1>14 DEF CallocCpu, Transition, taskVars, PoolType
<1>15. ASSUME NEW t \in Task, NEW n \in Fd, CreateVcpu(t, n) PROVE HasFd'
  <2>1. new[t] \in Slot /\ n # NoFd /\ mm' = mm /\ slot' = slot /\ job' = job /\ new' = new
        /\ pc' = [pc EXCEPT ![t] = "init"] /\ pc[t] = "create_vcpu"
    BY <1>15 DEF CreateVcpu, Transition, PhaseOK, PhaseOf, Fd, NoFd, taskVars
  <2>2. \A m \in Task, s \in Slot : pool[m][s].fd # NoFd => pool'[m][s].fd # NoFd
    BY <1>15, <2>1 DEF CreateVcpu, PoolType
  <2>3. pool'[mm[t]][new[t]].fd # NoFd
    BY <1>15, <2>1 DEF CreateVcpu, PoolType
  <2>4. \A v \in Task : pc[v] \in {"init", "stack", "args", "clone"} /\ job[v] \notin ForkKinds
                          => new[v] \in Slot
    BY DEF PhaseOK, PhaseOf, ForkKinds
  <2>5. \A v \in Task : pc[v] = "init" => new[v] \in Slot
    BY DEF PhaseOK, PhaseOf
  <2> QED
    BY <2>1, <2>2, <2>3, <2>4, <2>5
<1>16. ASSUME NEW t \in Task, InitVcpu(t) PROVE HasFd'
  BY <1>16 DEF InitVcpu, Transition, Enters, taskVars, PoolType
<1>17. ASSUME NEW t \in Task, MmapStack(t) PROVE HasFd'
  BY <1>17 DEF MmapStack, Transition, taskVars, PoolType
<1>18. ASSUME NEW t \in Task, MmapFails(t) PROVE HasFd'
  BY <1>18 DEF MmapFails, Transition, taskVars, PoolType
<1>19. ASSUME NEW t \in Task, SwitchStack(t) PROVE HasFd'
  <2>1. pool[mm[t]][new[t]].fd # NoFd
    BY <1>19 DEF SwitchStack, Transition, ForkKinds
  <2> QED
    BY <1>19, <2>1 DEF SwitchStack, Transition, Enters, taskVars
<1>20. ASSUME NEW t \in Task, WriteArgs(t) PROVE HasFd'
  BY <1>20 DEF WriteArgs, Transition, taskVars, PoolType
<1>21. ASSUME NEW t \in Task, NEW u \in Task, CloneVm(t, u) PROVE HasFd'
  <2>1. pool[mm[t]][new[t]].fd # NoFd /\ u # t
    BY <1>21 DEF CloneVm, Born, ForkKinds, VmKinds
  <2>2. pool[mm[t]][slot[t]].fd # NoFd
    BY <1>21 DEF CloneVm, Born, PhaseOK, PhaseOf
  <2> QED
    BY <1>21, <2>1, <2>2 DEF CloneVm, Cloned
<1>22. ASSUME NEW t \in Task, NEW u \in Task, Fork(t, u) PROVE HasFd'
  <2>1. u # t /\ pc[u] = "unborn" /\ slot[u] \notin Slot
    BY <1>22 DEF Fork, Born, PhaseOK, PhaseOf, Slot, NoSlot
  <2>2. \A v \in Task \ {u} : mm[v] # u
    BY <2>1 DEF Fresh
  <2>3. \A v \in Task \ {u} : pool'[mm[v]] = pool[mm[v]]
    BY <1>22, <2>2 DEF Fork
  <2>4. mm' = mm /\ slot' = slot /\ pc'[u] = "calloc_vm" /\ pc'[t] = "guest"
        /\ \A v \in Task \ {u, t} : pc'[v] = pc[v] /\ new'[v] = new[v] /\ job'[v] = job[v]
    BY <1>22, <2>1 DEF Fork, Cloned
  <2>5. pool[mm[t]][slot[t]].fd # NoFd /\ slot[t] \in Slot
    BY <1>22 DEF Fork, Born, PhaseOK, PhaseOf
  <2>6. \A v \in Task : v # u =>
          /\ pc'[v] = "init" => pool'[mm'[v]][new'[v]].fd # NoFd
          /\ pc'[v] \in {"stack", "args", "clone"} /\ job'[v] \notin ForkKinds =>
               pool'[mm'[v]][new'[v]].fd # NoFd
    BY <2>3, <2>4
  <2>7. \A v \in Task : v # u /\ pc'[v] \notin {"unborn", "dead"} /\ slot'[v] \in Slot =>
          pool'[mm'[v]][slot'[v]].fd # NoFd
    <3> SUFFICES ASSUME NEW v \in Task, v # u, pc'[v] \notin {"unborn", "dead"}, slot[v] \in Slot
                 PROVE  pool[mm[v]][slot[v]].fd # NoFd
      BY <2>3, <2>4
    <3> QED
      BY <2>4, <2>5
  <2> QED
    BY <2>1, <2>4, <2>6, <2>7
<1>23. ASSUME NEW t \in Task, CloneFails(t) PROVE HasFd'
  BY <1>23 DEF CloneFails, Cloned, Transition, taskVars, PoolType
<1> QED
  BY <1>0, <1>1, <1>2, <1>3, <1>4, <1>5, <1>6, <1>7, <1>8, <1>9, <1>10, <1>11, <1>12,
     <1>13, <1>14, <1>15, <1>16, <1>17, <1>18, <1>19, <1>20, <1>21, <1>22, <1>23, Steps DEF Step

\* What most steps leave alone: who lives where, the pools' descriptors, and
\* all that tables have but files.
FdFrame ==
  /\ mm' = mm /\ files' = files
  /\ \A m \in Task, s \in Slot : pool'[m][s].fd = pool[m][s].fd
  /\ \A f \in Task, n \in Fd : table[f][n] \notin {Nothing, File} => table'[f][n] = table[f][n]

\* All steps but three kinds are of that form.
LEMMA FdFrames ==
  ASSUME Types, [Next]_vars
  PROVE  \/ FdFrame
         \/ \E t \in Task, n \in Fd : CreateVcpu(t, n)
         \/ \E t, u \in Task : CloneVm(t, u) \/ Fork(t, u)
<1> DEFINE Other == \/ \E t \in Task, n \in Fd : CreateVcpu(t, n)
                    \/ \E t, u \in Task : CloneVm(t, u) \/ Fork(t, u)
<1> SUFFICES FdFrame \/ Other
  OBVIOUS
<1> USE DEF Types, FdFrame
<1>0. ASSUME UNCHANGED vars PROVE FdFrame \/ Other
  BY <1>0 DEF vars, taskVars, PoolType
<1>1. ASSUME NEW S \in SUBSET Task, End(S) PROVE FdFrame \/ Other
  BY <1>1 DEF End, taskVars, PoolType
<1>2. ASSUME NEW t \in Task, NEW n \in Fd, GuestOpens(t, n) PROVE FdFrame \/ Other
  BY <1>2 DEF GuestOpens, Opens, taskVars, PoolType
<1>3. ASSUME NEW t \in Task, NEW n \in Fd, GuestCloses(t, n) PROVE FdFrame \/ Other
  BY <1>3 DEF GuestCloses, taskVars, PoolType
<1>4. ASSUME NEW t \in Task, GuestLocksHeap(t) PROVE FdFrame \/ Other
  BY <1>4 DEF GuestLocksHeap, taskVars, PoolType
<1>5. ASSUME NEW t \in Task, GuestUnlocksHeap(t) PROVE FdFrame \/ Other
  BY <1>5 DEF GuestUnlocksHeap, taskVars, PoolType
<1>6. ASSUME NEW t \in Task, NEW k \in Kinds, Call(t, k) PROVE FdFrame \/ Other
  BY <1>6 DEF Call, Transition, taskVars, PoolType
<1>7. ASSUME NEW t \in Task, Exit(t) PROVE FdFrame \/ Other
  BY <1>7 DEF Exit, taskVars, PoolType
<1>8. ASSUME NEW t \in Task, CallocVm(t) PROVE FdFrame \/ Other
  BY <1>8 DEF CallocVm, Transition, taskVars, PoolType
<1>9. ASSUME NEW t \in Task, NEW n \in Fd, OpenKvm(t, n) PROVE FdFrame \/ Other
  BY <1>9 DEF OpenKvm, Transition, Opens, taskVars, PoolType
<1>10. ASSUME NEW t \in Task, NEW n \in Fd, CreateVm(t, n) PROVE FdFrame \/ Other
  BY <1>10 DEF CreateVm, Transition, Opens, taskVars, PoolType
<1>11. ASSUME NEW t \in Task, CreateVmInterrupted(t) PROVE FdFrame \/ Other
  BY <1>11 DEF CreateVmInterrupted, Transition, taskVars, PoolType
<1>12. ASSUME NEW t \in Task, CreateVmAgain(t) PROVE FdFrame \/ Other
  BY <1>12 DEF CreateVmAgain, Transition, taskVars, PoolType
<1>13. ASSUME NEW t \in Task, NEW s \in Slot, AllocVcpu(t, s) PROVE FdFrame \/ Other
  BY <1>13 DEF AllocVcpu, Transition, taskVars, PoolType
<1>14. ASSUME NEW t \in Task, CallocCpu(t) PROVE FdFrame \/ Other
  BY <1>14 DEF CallocCpu, Transition, taskVars, PoolType
<1>15. ASSUME NEW t \in Task, NEW n \in Fd, CreateVcpu(t, n) PROVE FdFrame \/ Other
  BY <1>15
<1>16. ASSUME NEW t \in Task, InitVcpu(t) PROVE FdFrame \/ Other
  BY <1>16 DEF InitVcpu, Transition, Enters, taskVars, PoolType
<1>17. ASSUME NEW t \in Task, MmapStack(t) PROVE FdFrame \/ Other
  BY <1>17 DEF MmapStack, Transition, taskVars, PoolType
<1>18. ASSUME NEW t \in Task, MmapFails(t) PROVE FdFrame \/ Other
  BY <1>18 DEF MmapFails, Transition, taskVars, PoolType
<1>19. ASSUME NEW t \in Task, SwitchStack(t) PROVE FdFrame \/ Other
  BY <1>19 DEF SwitchStack, Transition, Enters, taskVars, PoolType
<1>20. ASSUME NEW t \in Task, WriteArgs(t) PROVE FdFrame \/ Other
  BY <1>20 DEF WriteArgs, Transition, taskVars, PoolType
<1>21. ASSUME NEW t \in Task, NEW u \in Task, CloneVm(t, u) PROVE FdFrame \/ Other
  BY <1>21
<1>22. ASSUME NEW t \in Task, NEW u \in Task, Fork(t, u) PROVE FdFrame \/ Other
  BY <1>22
<1>23. ASSUME NEW t \in Task, CloneFails(t) PROVE FdFrame \/ Other
  BY <1>23 DEF CloneFails, Cloned, Transition, taskVars, PoolType
<1> QED
  BY <1>0, <1>1, <1>2, <1>3, <1>4, <1>5, <1>6, <1>7, <1>8, <1>9, <1>10, <1>11, <1>12,
     <1>13, <1>14, <1>15, <1>16, <1>17, <1>18, <1>19, <1>20, <1>21, <1>22, <1>23, Steps DEF Step

\* As long as an address space has one table, vcpu_fd names the vcpu there.
FdOK ==
  \A t \in Task, s \in Slot :
    OneTable(mm[t]) /\ pool[mm[t]][s].fd # NoFd =>
      table[files[t]][pool[mm[t]][s].fd] = Vcpu(mm[t], s)

\* A vcpu_fd is a descriptor, or none.
LEMMA FdType ==
  ASSUME Types, NEW m \in Task, NEW s \in Slot
  PROVE  pool[m][s].fd \in Fd \union {NoFd}
  BY DEF Types, PoolType

\* KVM_CREATE_VCPU's descriptor names the new vcpu; a child that shares the
\* pool and not the table ends the promise, a child with neither has no vcpu.
LEMMA FdStep == Types /\ PhaseOK /\ Fresh /\ FdOK /\ [Next]_vars => FdOK'
<1> SUFFICES ASSUME Types, PhaseOK, Fresh, FdOK, [Next]_vars,
                    NEW v \in Task, NEW s \in Slot,
                    OneTable(mm[v])', pool'[mm'[v]][s].fd # NoFd
             PROVE  table'[files'[v]][pool'[mm'[v]][s].fd] = Vcpu(mm'[v], s)
  BY DEF FdOK
<1>t. mm[v] \in Task /\ files[v] \in Task
  BY DEF Types
<1>1. CASE FdFrame
  <2>1. OneTable(mm[v])
    BY <1>1 DEF FdFrame, OneTable
  <2>2. pool'[mm'[v]][s].fd = pool[mm[v]][s].fd
    BY <1>t, <1>1 DEF FdFrame
  <2>3. table[files[v]][pool[mm[v]][s].fd] = Vcpu(mm[v], s)
    BY <2>1, <2>2 DEF FdOK
  <2> QED
    BY <1>t, <1>1, <2>2, <2>3, Objects, FdType DEF FdFrame
<1>2. ASSUME NEW t \in Task, NEW n \in Fd, CreateVcpu(t, n)
      PROVE  table'[files'[v]][pool'[mm'[v]][s].fd] = Vcpu(mm'[v], s)
  <2>0. new[t] \in Slot /\ mm[t] \in Task /\ files[t] \in Task
    BY <1>2 DEF CreateVcpu, Transition, PhaseOK, PhaseOf, Types
  <2>1. mm' = mm /\ files' = files /\ OneTable(mm[v]) /\ n # NoFd
    BY <1>2 DEF CreateVcpu, taskVars, OneTable, Fd, NoFd
  <2>2. /\ table[files[t]][n] = Nothing /\ table'[files[t]][n] = Vcpu(mm[t], new[t])
        /\ \A f \in Task, k \in Fd : f # files[t] \/ k # n => table'[f][k] = table[f][k]
    BY <1>2, <2>0 DEF CreateVcpu, Opens, Types
  <2>3. /\ pool'[mm[t]][new[t]].fd = n
        /\ \A m \in Task, r \in Slot : m # mm[t] \/ r # new[t] => pool'[m][r].fd = pool[m][r].fd
    BY <1>2, <2>0 DEF CreateVcpu, Types, PoolType
  <2>4. CASE mm[v] = mm[t] /\ s = new[t]
    <3>1. files[v] = files[t]
      BY <2>1, <2>4 DEF OneTable
    <3> QED
      BY <2>1, <2>2, <2>3, <2>4, <3>1
  <2>5. CASE mm[v] # mm[t] \/ s # new[t]
    <3>1. pool'[mm[v]][s].fd = pool[mm[v]][s].fd
      BY <1>t, <2>3, <2>5
    <3>2. table[files[v]][pool[mm[v]][s].fd] = Vcpu(mm[v], s)
      BY <2>1, <3>1 DEF FdOK
    <3>3. pool[mm[v]][s].fd \in Fd
      BY <1>t, <2>1, <3>1, FdType
    <3> QED
      BY <1>t, <2>1, <2>2, <3>1, <3>2, <3>3, Objects
  <2> QED
    BY <2>4, <2>5
<1>3. ASSUME NEW t \in Task, NEW u \in Task, CloneVm(t, u)
      PROVE  table'[files'[v]][pool'[mm'[v]][s].fd] = Vcpu(mm'[v], s)
  <2>1. pc[u] = "unborn" /\ u # t /\ mm[t] # u /\ files[t] # u /\ mm[u] = u
    BY <1>3 DEF CloneVm, Born, Fresh
  <2>2. pool' = pool /\ mm' = [mm EXCEPT ![u] = mm[t]]
        /\ (files' = [files EXCEPT ![u] = files[t]] \/ files' = [files EXCEPT ![u] = u])
        /\ \A f \in Task \ {u} : table'[f] = table[f]
    BY <1>3 DEF CloneVm, Types
  <2>3. \A w \in Task \ {u} : mm'[w] = mm[w] /\ files'[w] = files[w] /\ mm[w] # u /\ files[w] # u
    BY <2>1, <2>2 DEF Fresh, Types
  <2>4. CASE v = u
    <3>1. mm'[u] = mm[t]
      BY <2>2 DEF Types
    <3>2. \A w, x \in Task : mm'[w] = mm[t] /\ mm'[x] = mm[t] => files'[w] = files'[x]
      BY <2>4, <3>1 DEF OneTable
    <3>3. files'[u] = files[t]
      BY <2>1, <2>3, <3>1, <3>2
    <3>4. OneTable(mm[t])
      <4> SUFFICES ASSUME NEW w \in Task, NEW x \in Task, mm[w] = mm[t], mm[x] = mm[t]
                   PROVE  files[w] = files[x]
        BY DEF OneTable
      <4>1. w # u /\ x # u
        BY <2>1
      <4> QED
        BY <2>3, <3>2, <4>1
    <3>5. table[files[t]][pool[mm[t]][s].fd] = Vcpu(mm[t], s)
      BY <2>2, <2>4, <3>1, <3>4 DEF FdOK
    <3> QED
      BY <2>1, <2>2, <2>4, <3>1, <3>3, <3>5 DEF Types
  <2>5. CASE v # u
    <3>1. OneTable(mm[v])
      <4> SUFFICES ASSUME NEW w \in Task, NEW x \in Task, mm[w] = mm[v], mm[x] = mm[v]
                   PROVE  files[w] = files[x]
        BY DEF OneTable
      <4>1. w # u /\ x # u
        BY <2>1, <2>3, <2>5
      <4>2. \A y, z \in Task : mm'[y] = mm'[v] /\ mm'[z] = mm'[v] => files'[y] = files'[z]
        BY DEF OneTable
      <4> QED
        BY <2>3, <2>5, <4>1, <4>2
    <3>2. table[files[v]][pool[mm[v]][s].fd] = Vcpu(mm[v], s)
      BY <2>2, <2>3, <2>5, <3>1 DEF FdOK
    <3> QED
      BY <1>t, <2>2, <2>3, <2>5, <3>2
  <2> QED
    BY <2>4, <2>5
<1>4. ASSUME NEW t \in Task, NEW u \in Task, Fork(t, u)
      PROVE  table'[files'[v]][pool'[mm'[v]][s].fd] = Vcpu(mm'[v], s)
  <2>1. pc[u] = "unborn" /\ u # t /\ mm[u] = u
    BY <1>4 DEF Fork, Born, Fresh
  <2>2. mm' = mm /\ pool' = [pool EXCEPT ![u] = EmptyPool]
        /\ (\A w \in Task \ {u} : files'[w] = files[w])
        /\ \A f \in Task \ {u} : table'[f] = table[f]
    BY <1>4 DEF Fork, PoolOfChild, Types
  <2>3. \A w \in Task \ {u} : mm[w] # u /\ files[w] # u
    BY <2>1 DEF Fresh
  <2>4. v # u
    <3>1. pool'[u] = EmptyPool
      BY <2>2 DEF Types, PoolType
    <3>2. pool'[u][s].fd = NoFd
      BY <3>1 DEF EmptyPool, FreeSlot
    <3>3. v = u => mm'[v] = u
      BY <2>1, <2>2
    <3> QED
      BY <3>2, <3>3
  <2>5. OneTable(mm[v])
    <3> SUFFICES ASSUME NEW w \in Task, NEW x \in Task, mm[w] = mm[v], mm[x] = mm[v]
                 PROVE  files[w] = files[x]
      BY DEF OneTable
    <3>1. w # u /\ x # u
      BY <2>1, <2>3, <2>4
    <3>2. \A y, z \in Task : mm[y] = mm[v] /\ mm[z] = mm[v] => files'[y] = files'[z]
      BY <2>2 DEF OneTable
    <3> QED
      BY <2>2, <3>1, <3>2
  <2>6. pool'[mm[v]] = pool[mm[v]]
    BY <2>2, <2>3, <2>4 DEF Types
  <2>7. table[files[v]][pool[mm[v]][s].fd] = Vcpu(mm[v], s)
    BY <2>2, <2>5, <2>6 DEF FdOK
  <2> QED
    BY <1>t, <2>2, <2>3, <2>4, <2>6, <2>7
<1> QED
  BY <1>1, <1>2, <1>3, <1>4, FdFrames

-----------------------------------------------------------------------------
\* Descriptors name what their address space has got so far.
Named ==
  /\ \A m, f \in Task, n \in Fd :
       /\ table[f][n] = Dev(m) => pc[m] \notin {"unborn", "calloc_vm", "open"}
       /\ table[f][n] = Vm(m) =>
            pc[m] \notin {"unborn", "calloc_vm", "open", "create_vm", "eintr"}
  /\ \A m, f \in Task, s \in Slot, n \in Fd :
       table[f][n] = Vcpu(m, s) => pool[m][s].fd # NoFd

\* A VM is made in the address space its task began with, and a slot is set up
\* by one task.
Claims ==
  /\ \A t \in Task : pc[t] \in {"calloc_vm", "open", "create_vm", "eintr"} => mm[t] = t
  /\ \A t \in Task : pc[t] \in {"calloc_cpu", "create_vcpu"} =>
       /\ pool[mm[t]][new[t]].claimed
       /\ pool[mm[t]][new[t]].fd = NoFd
       /\ \A u \in Task \ {t} :
            pc[u] \in {"calloc_cpu", "create_vcpu"} /\ mm[u] = mm[t] => new[u] # new[t]

\* Claims hold on if no slot is newly set up.
LEMMA ClaimsKept ==
  ASSUME Claims,
         \A v \in Task : pc'[v] \in {"calloc_vm", "open", "create_vm", "eintr"} => mm'[v] = v,
         \A v \in Task : pc'[v] \in {"calloc_cpu", "create_vcpu"} =>
           /\ pc[v] \in {"calloc_cpu", "create_vcpu"} /\ mm'[v] = mm[v] /\ new'[v] = new[v]
           /\ pool'[mm[v]][new[v]] = pool[mm[v]][new[v]]
  PROVE  Claims'
<1> SUFFICES ASSUME NEW t \in Task, pc'[t] \in {"calloc_cpu", "create_vcpu"}
             PROVE  /\ pool'[mm'[t]][new'[t]].claimed
                    /\ pool'[mm'[t]][new'[t]].fd = NoFd
                    /\ \A u \in Task \ {t} :
                         pc'[u] \in {"calloc_cpu", "create_vcpu"} /\ mm'[u] = mm'[t] => new'[u] # new'[t]
  BY DEF Claims
<1>1. pool'[mm'[t]][new'[t]] = pool[mm[t]][new[t]]
  OBVIOUS
<1>2. pool[mm[t]][new[t]].claimed /\ pool[mm[t]][new[t]].fd = NoFd
  BY DEF Claims
<1>3. \A u \in Task \ {t} :
        pc'[u] \in {"calloc_cpu", "create_vcpu"} /\ mm'[u] = mm'[t] => new'[u] # new'[t]
  BY DEF Claims
<1> QED
  BY <1>1, <1>2, <1>3

\* The slot AllocVcpu takes was free; the slot Exit frees has a descriptor.
LEMMA ClaimsStep == Types /\ PhaseOK /\ Fresh /\ HasFd /\ Claims /\ [Next]_vars => Claims'
<1> SUFFICES ASSUME Types, PhaseOK, Fresh, HasFd, Claims, [Next]_vars PROVE Claims'
  OBVIOUS
<1> USE KindsAssumption DEF Types, Claims
<1>0. CASE UNCHANGED vars
  BY <1>0 DEF vars, taskVars
<1>1. ASSUME NEW S \in SUBSET Task, End(S) PROVE Claims'
  BY <1>1 DEF End, taskVars
<1>2. ASSUME NEW t \in Task, NEW n \in Fd, GuestOpens(t, n) PROVE Claims'
  BY <1>2 DEF GuestOpens, Opens, taskVars
<1>3. ASSUME NEW t \in Task, NEW n \in Fd, GuestCloses(t, n) PROVE Claims'
  BY <1>3 DEF GuestCloses, taskVars
<1>4. ASSUME NEW t \in Task, GuestLocksHeap(t) PROVE Claims'
  BY <1>4 DEF GuestLocksHeap, taskVars
<1>5. ASSUME NEW t \in Task, GuestUnlocksHeap(t) PROVE Claims'
  BY <1>5 DEF GuestUnlocksHeap, taskVars
<1>6. ASSUME NEW t \in Task, NEW k \in Kinds, Call(t, k) PROVE Claims'
  BY <1>6 DEF Call, Transition, taskVars
<1>7. ASSUME NEW t \in Task, Exit(t) PROVE Claims'
  <2>1. /\ pc[t] = "guest" /\ slot[t] \in Slot /\ pool[mm[t]][slot[t]].fd # NoFd
        /\ mm[t] \in Task /\ mm' = mm /\ new' = new /\ pc' = [pc EXCEPT ![t] = "dead"]
    BY <1>7 DEF Exit, PhaseOK, PhaseOf, HasFd, taskVars
  <2>2. \A m \in Task, s \in Slot : /\ pool'[m][s].fd = pool[m][s].fd
                                    /\ m # mm[t] \/ s # slot[t] => pool'[m][s] = pool[m][s]
    BY <1>7, <2>1 DEF Exit, PoolType
  <2>3. \A v \in Task : pc[v] \in {"calloc_cpu", "create_vcpu"} =>
          /\ new[v] \in Slot /\ mm[v] \in Task
          /\ mm[v] # mm[t] \/ new[v] # slot[t]
    BY <2>1 DEF PhaseOK, PhaseOf
  <2>4. \A v \in Task : pc'[v] \in {"calloc_cpu", "create_vcpu"} =>
           /\ pc[v] \in {"calloc_cpu", "create_vcpu"} /\ mm'[v] = mm[v] /\ new'[v] = new[v]
           /\ pool'[mm[v]][new[v]] = pool[mm[v]][new[v]]
    BY <2>1, <2>2, <2>3
  <2>5. \A v \in Task : pc'[v] \in {"calloc_vm", "open", "create_vm", "eintr"} => mm'[v] = v
    BY <2>1
  <2> QED
    BY <2>4, <2>5, ClaimsKept
<1>8. ASSUME NEW t \in Task, CallocVm(t) PROVE Claims'
  BY <1>8 DEF CallocVm, Transition, taskVars
<1>9. ASSUME NEW t \in Task, NEW n \in Fd, OpenKvm(t, n) PROVE Claims'
  BY <1>9 DEF OpenKvm, Transition, Opens, taskVars
<1>10. ASSUME NEW t \in Task, NEW n \in Fd, CreateVm(t, n) PROVE Claims'
  BY <1>10 DEF CreateVm, Transition, Opens, taskVars
<1>11. ASSUME NEW t \in Task, CreateVmInterrupted(t) PROVE Claims'
  BY <1>11 DEF CreateVmInterrupted, Transition, taskVars
<1>12. ASSUME NEW t \in Task, CreateVmAgain(t) PROVE Claims'
  BY <1>12 DEF CreateVmAgain, Transition, taskVars
<1>13. ASSUME NEW t \in Task, NEW s \in Slot, AllocVcpu(t, s) PROVE Claims'
  <2>1. /\ pc[t] = "alloc" /\ mm[t] \in Task /\ mm' = mm /\ ~pool[mm[t]][s].claimed
        /\ \A v \in Task \ {t} : new'[v] = new[v] /\ pc'[v] = pc[v]
        /\ new'[t] = s
        /\ pc'[t] \in {"calloc_cpu", "create_vcpu"} => pool[mm[t]][s].fd = NoFd
        /\ pc'[t] \in {"calloc_cpu", "init"}
    BY <1>13 DEF AllocVcpu, Transition, taskVars
  <2>2. /\ pool'[mm[t]][s].claimed
        /\ \A m \in Task, r \in Slot : /\ pool'[m][r].fd = pool[m][r].fd
                                       /\ m # mm[t] \/ r # s => pool'[m][r] = pool[m][r]
    BY <1>13, <2>1 DEF AllocVcpu, PoolType
  <2>3. \A v \in Task \ {t} : pc'[v] \in {"calloc_cpu", "create_vcpu"} =>
          /\ pc[v] = pc'[v] /\ new'[v] = new[v] /\ new[v] \in Slot /\ mm[v] \in Task
          /\ mm[v] # mm[t] \/ new[v] # s
    <3>1. \A v \in Task \ {t} : pc[v] = pc'[v] /\ new'[v] = new[v]
      BY <2>1
    <3>2. \A v \in Task : pc[v] \in {"calloc_cpu", "create_vcpu"} => new[v] \in Slot /\ mm[v] \in Task
      BY DEF PhaseOK, PhaseOf
    <3>3. \A v \in Task : pc[v] \in {"calloc_cpu", "create_vcpu"} => mm[v] # mm[t] \/ new[v] # s
      BY <2>1
    <3> QED
      BY <3>1, <3>2, <3>3
  <2>4. \A v \in Task : pc'[v] \in {"calloc_vm", "open", "create_vm", "eintr"} => mm'[v] = v
    BY <2>1
  <2>5. ASSUME NEW v \in Task, pc'[v] \in {"calloc_cpu", "create_vcpu"}
        PROVE  /\ pool'[mm'[v]][new'[v]].claimed
               /\ pool'[mm'[v]][new'[v]].fd = NoFd
    <3>1. CASE v = t
      BY <2>1, <2>2, <2>5, <3>1
    <3>2. CASE v # t
      <4>1. pool[mm[v]][new[v]].claimed /\ pool[mm[v]][new[v]].fd = NoFd
        BY <2>3, <2>5, <3>2
      <4>2. pool'[mm[v]][new[v]] = pool[mm[v]][new[v]]
        BY <2>2, <2>3, <2>5, <3>2
      <4> QED
        BY <2>1, <2>3, <2>5, <3>2, <4>1, <4>2
    <3> QED
      BY <3>1, <3>2
  <2>6. ASSUME NEW v \in Task, NEW w \in Task \ {v}, mm'[w] = mm'[v],
               pc'[v] \in {"calloc_cpu", "create_vcpu"}, pc'[w] \in {"calloc_cpu", "create_vcpu"}
        PROVE  new'[w] # new'[v]
    <3>1. CASE v = t
      BY <2>1, <2>3, <2>6, <3>1
    <3>2. CASE w = t
      BY <2>1, <2>3, <2>6, <3>2
    <3>3. CASE v # t /\ w # t
      BY <2>1, <2>3, <2>6, <3>3
    <3> QED
      BY <3>1, <3>2, <3>3
  <2> QED
    BY <2>4, <2>5, <2>6
<1>14. ASSUME NEW t \in Task, CallocCpu(t) PROVE Claims'
  BY <1>14 DEF CallocCpu, Transition, taskVars
<1>15. ASSUME NEW t \in Task, NEW n \in Fd, CreateVcpu(t, n) PROVE Claims'
  <2>1. /\ pc[t] = "create_vcpu" /\ mm[t] \in Task /\ mm' = mm /\ new' = new /\ new[t] \in Slot
        /\ pc' = [pc EXCEPT ![t] = "init"]
    BY <1>15 DEF CreateVcpu, Transition, taskVars, PhaseOK, PhaseOf
  <2>2. \A m \in Task, r \in Slot : m # mm[t] \/ r # new[t] => pool'[m][r] = pool[m][r]
    BY <1>15, <2>1 DEF CreateVcpu, PoolType
  <2>3. \A v \in Task \ {t} : pc[v] \in {"calloc_cpu", "create_vcpu"} =>
          /\ new[v] \in Slot /\ mm[v] \in Task
          /\ mm[v] # mm[t] \/ new[v] # new[t]
    BY <2>1 DEF PhaseOK, PhaseOf
  <2>4. \A v \in Task : pc'[v] \in {"calloc_cpu", "create_vcpu"} =>
           /\ pc[v] \in {"calloc_cpu", "create_vcpu"} /\ mm'[v] = mm[v] /\ new'[v] = new[v]
           /\ pool'[mm[v]][new[v]] = pool[mm[v]][new[v]]
    BY <2>1, <2>2, <2>3
  <2>5. \A v \in Task : pc'[v] \in {"calloc_vm", "open", "create_vm", "eintr"} => mm'[v] = v
    BY <2>1
  <2> QED
    BY <2>4, <2>5, ClaimsKept
<1>16. ASSUME NEW t \in Task, InitVcpu(t) PROVE Claims'
  BY <1>16 DEF InitVcpu, Transition, Enters, taskVars
<1>17. ASSUME NEW t \in Task, MmapStack(t) PROVE Claims'
  BY <1>17 DEF MmapStack, Transition, taskVars
<1>18. ASSUME NEW t \in Task, MmapFails(t) PROVE Claims'
  BY <1>18 DEF MmapFails, Transition, taskVars
<1>19. ASSUME NEW t \in Task, SwitchStack(t) PROVE Claims'
  BY <1>19 DEF SwitchStack, Transition, Enters, taskVars
<1>20. ASSUME NEW t \in Task, WriteArgs(t) PROVE Claims'
  BY <1>20 DEF WriteArgs, Transition, taskVars
<1>21. ASSUME NEW t \in Task, NEW u \in Task, CloneVm(t, u) PROVE Claims'
  <2>1. /\ pc' = [pc EXCEPT ![t] = "guest", ![u] = "guest"] /\ pool' = pool /\ u # t
        /\ \A v \in Task \ {t, u} : mm'[v] = mm[v] /\ new'[v] = new[v]
    BY <1>21 DEF CloneVm, Cloned, Born
  <2>2. \A v \in Task : v # t /\ v # u => pc'[v] = pc[v]
    BY <2>1
  <2>3. pc'[t] = "guest" /\ pc'[u] = "guest"
    BY <2>1
  <2> QED
    BY <2>1, <2>2, <2>3, ClaimsKept
<1>22. ASSUME NEW t \in Task, NEW u \in Task, Fork(t, u) PROVE Claims'
  <2>1. /\ pc' = [pc EXCEPT ![t] = "guest", ![u] = "calloc_vm"] /\ u # t /\ mm' = mm
        /\ \A v \in Task \ {t, u} : new'[v] = new[v] /\ pool'[mm[v]] = pool[mm[v]]
        /\ mm[u] = u
    BY <1>22 DEF Fork, Cloned, Born, Fresh
  <2>2. \A v \in Task : v # t /\ v # u => pc'[v] = pc[v]
    BY <2>1
  <2>3. pc'[t] = "guest" /\ pc'[u] = "calloc_vm"
    BY <2>1
  <2>4. \A v \in Task : pc'[v] \in {"calloc_vm", "open", "create_vm", "eintr"} => mm'[v] = v
    BY <2>1, <2>2, <2>3
  <2> QED
    BY <2>1, <2>2, <2>3, <2>4, ClaimsKept
<1>23. ASSUME NEW t \in Task, CloneFails(t) PROVE Claims'
  BY <1>23 DEF CloneFails, Cloned, Transition, taskVars
<1> QED
  BY <1>0, <1>1, <1>2, <1>3, <1>4, <1>5, <1>6, <1>7, <1>8, <1>9, <1>10, <1>11, <1>12,
     <1>13, <1>14, <1>15, <1>16, <1>17, <1>18, <1>19, <1>20, <1>21, <1>22, <1>23, Steps DEF Step

\* A VM is set up once, and no vcpu_fd is lost.
Onward ==
  /\ \A m \in Task : pc[m] \notin {"unborn", "calloc_vm", "open"} =>
                     pc'[m] \notin {"unborn", "calloc_vm", "open"}
  /\ \A m \in Task : pc[m] \notin {"unborn", "calloc_vm", "open", "create_vm", "eintr"} =>
                     pc'[m] \notin {"unborn", "calloc_vm", "open", "create_vm", "eintr"}
  /\ \A m \in Task, s \in Slot : pool[m][s].fd # NoFd => pool'[m][s].fd # NoFd

\* So it is in every step: a pool is emptied only for a task being born.
LEMMA OnwardStep ==
  ASSUME Types, PhaseOK, Fresh, [Next]_vars
  PROVE  Onward
<1> USE KindsAssumption DEF Types, Onward
<1>0. CASE UNCHANGED vars
  BY <1>0 DEF vars, taskVars
<1>1. ASSUME NEW S \in SUBSET Task, End(S) PROVE Onward
  BY <1>1 DEF End, taskVars
<1>2. ASSUME NEW t \in Task, NEW n \in Fd, GuestOpens(t, n) PROVE Onward
  BY <1>2 DEF GuestOpens, Opens, taskVars
<1>3. ASSUME NEW t \in Task, NEW n \in Fd, GuestCloses(t, n) PROVE Onward
  BY <1>3 DEF GuestCloses, taskVars
<1>4. ASSUME NEW t \in Task, GuestLocksHeap(t) PROVE Onward
  BY <1>4 DEF GuestLocksHeap, taskVars
<1>5. ASSUME NEW t \in Task, GuestUnlocksHeap(t) PROVE Onward
  BY <1>5 DEF GuestUnlocksHeap, taskVars
<1>6. ASSUME NEW t \in Task, NEW k \in Kinds, Call(t, k) PROVE Onward
  BY <1>6 DEF Call, Transition, taskVars
<1>7. ASSUME NEW t \in Task, Exit(t) PROVE Onward
  <2>1. mm[t] \in Task /\ slot[t] \in Slot
    BY <1>7 DEF Exit, PhaseOK, PhaseOf
  <2> QED
    BY <1>7, <2>1 DEF Exit, PoolType
<1>8. ASSUME NEW t \in Task, CallocVm(t) PROVE Onward
  BY <1>8 DEF CallocVm, Transition, taskVars
<1>9. ASSUME NEW t \in Task, NEW n \in Fd, OpenKvm(t, n) PROVE Onward
  BY <1>9 DEF OpenKvm, Transition, Opens, taskVars
<1>10. ASSUME NEW t \in Task, NEW n \in Fd, CreateVm(t, n) PROVE Onward
  BY <1>10 DEF CreateVm, Transition, Opens, taskVars
<1>11. ASSUME NEW t \in Task, CreateVmInterrupted(t) PROVE Onward
  BY <1>11 DEF CreateVmInterrupted, Transition, taskVars
<1>12. ASSUME NEW t \in Task, CreateVmAgain(t) PROVE Onward
  BY <1>12 DEF CreateVmAgain, Transition, taskVars
<1>13. ASSUME NEW t \in Task, NEW s \in Slot, AllocVcpu(t, s) PROVE Onward
  BY <1>13 DEF AllocVcpu, Transition, taskVars
<1>14. ASSUME NEW t \in Task, CallocCpu(t) PROVE Onward
  BY <1>14 DEF CallocCpu, Transition, taskVars
<1>15. ASSUME NEW t \in Task, NEW n \in Fd, CreateVcpu(t, n) PROVE Onward
  <2>1. mm[t] \in Task /\ new[t] \in Slot /\ n # NoFd
    BY <1>15 DEF CreateVcpu, Transition, PhaseOK, PhaseOf, Fd, NoFd
  <2> QED
    BY <1>15, <2>1 DEF CreateVcpu, Transition, PoolType
<1>16. ASSUME NEW t \in Task, InitVcpu(t) PROVE Onward
  BY <1>16 DEF InitVcpu, Transition, Enters, taskVars
<1>17. ASSUME NEW t \in Task, MmapStack(t) PROVE Onward
  BY <1>17 DEF MmapStack, Transition, taskVars
<1>18. ASSUME NEW t \in Task, MmapFails(t) PROVE Onward
  BY <1>18 DEF MmapFails, Transition, taskVars
<1>19. ASSUME NEW t \in Task, SwitchStack(t) PROVE Onward
  BY <1>19 DEF SwitchStack, Transition, Enters, taskVars
<1>20. ASSUME NEW t \in Task, WriteArgs(t) PROVE Onward
  BY <1>20 DEF WriteArgs, Transition, taskVars
<1>21. ASSUME NEW t \in Task, NEW u \in Task, CloneVm(t, u) PROVE Onward
  BY <1>21 DEF CloneVm, Born
<1>22. ASSUME NEW t \in Task, NEW u \in Task, Fork(t, u) PROVE Onward
  <2>1. \A s \in Slot : pool[u][s].fd = NoFd
    BY <1>22 DEF Fork, Born, Fresh, EmptyPool, FreeSlot
  <2> QED
    BY <1>22, <2>1 DEF Fork, Born, PoolType
<1>23. ASSUME NEW t \in Task, CloneFails(t) PROVE Onward
  BY <1>23 DEF CloneFails, Cloned, Transition, taskVars
<1> QED
  BY <1>0, <1>1, <1>2, <1>3, <1>4, <1>5, <1>6, <1>7, <1>8, <1>9, <1>10, <1>11, <1>12,
     <1>13, <1>14, <1>15, <1>16, <1>17, <1>18, <1>19, <1>20, <1>21, <1>22, <1>23, Steps DEF Step

\* No table gets more than files that another does not have already.
Inherits ==
  \A f \in Task : \E g \in Task : \A n \in Fd :
    table'[f][n] \in {Nothing, File, table[g][n]}

\* So it is in every step but three.
LEMMA InheritsStep ==
  ASSUME Types, [Next]_vars
  PROVE  \/ Inherits
         \/ \E t \in Task, n \in Fd : OpenKvm(t, n) \/ CreateVm(t, n) \/ CreateVcpu(t, n)
<1> DEFINE Other == \E t \in Task, n \in Fd : OpenKvm(t, n) \/ CreateVm(t, n) \/ CreateVcpu(t, n)
<1> SUFFICES Inherits \/ Other
  OBVIOUS
<1>s. table' = table => Inherits
  BY DEF Inherits
<1> USE DEF Types
<1>0. CASE UNCHANGED vars
  BY <1>s, <1>0 DEF vars, taskVars
<1>1. ASSUME NEW S \in SUBSET Task, End(S) PROVE Inherits \/ Other
  BY <1>s, <1>1 DEF End, taskVars
<1>2. ASSUME NEW t \in Task, NEW n \in Fd, GuestOpens(t, n) PROVE Inherits \/ Other
  BY <1>2 DEF GuestOpens, Opens, taskVars, Inherits
<1>3. ASSUME NEW t \in Task, NEW n \in Fd, GuestCloses(t, n) PROVE Inherits \/ Other
  BY <1>3 DEF GuestCloses, taskVars, Inherits
<1>4. ASSUME NEW t \in Task, GuestLocksHeap(t) PROVE Inherits \/ Other
  BY <1>s, <1>4 DEF GuestLocksHeap, taskVars
<1>5. ASSUME NEW t \in Task, GuestUnlocksHeap(t) PROVE Inherits \/ Other
  BY <1>s, <1>5 DEF GuestUnlocksHeap, taskVars
<1>6. ASSUME NEW t \in Task, NEW k \in Kinds, Call(t, k) PROVE Inherits \/ Other
  BY <1>s, <1>6 DEF Call, Transition, taskVars
<1>7. ASSUME NEW t \in Task, Exit(t) PROVE Inherits \/ Other
  BY <1>s, <1>7 DEF Exit, taskVars
<1>8. ASSUME NEW t \in Task, CallocVm(t) PROVE Inherits \/ Other
  BY <1>s, <1>8 DEF CallocVm, Transition, taskVars
<1>9. ASSUME NEW t \in Task, NEW n \in Fd, OpenKvm(t, n) PROVE Inherits \/ Other
  BY <1>9
<1>10. ASSUME NEW t \in Task, NEW n \in Fd, CreateVm(t, n) PROVE Inherits \/ Other
  BY <1>10
<1>11. ASSUME NEW t \in Task, CreateVmInterrupted(t) PROVE Inherits \/ Other
  BY <1>s, <1>11 DEF CreateVmInterrupted, Transition, taskVars
<1>12. ASSUME NEW t \in Task, CreateVmAgain(t) PROVE Inherits \/ Other
  BY <1>s, <1>12 DEF CreateVmAgain, Transition, taskVars
<1>13. ASSUME NEW t \in Task, NEW s \in Slot, AllocVcpu(t, s) PROVE Inherits \/ Other
  BY <1>s, <1>13 DEF AllocVcpu, Transition, taskVars
<1>14. ASSUME NEW t \in Task, CallocCpu(t) PROVE Inherits \/ Other
  BY <1>s, <1>14 DEF CallocCpu, Transition, taskVars
<1>15. ASSUME NEW t \in Task, NEW n \in Fd, CreateVcpu(t, n) PROVE Inherits \/ Other
  BY <1>15
<1>16. ASSUME NEW t \in Task, InitVcpu(t) PROVE Inherits \/ Other
  BY <1>s, <1>16 DEF InitVcpu, Transition, Enters, taskVars
<1>17. ASSUME NEW t \in Task, MmapStack(t) PROVE Inherits \/ Other
  BY <1>s, <1>17 DEF MmapStack, Transition, taskVars
<1>18. ASSUME NEW t \in Task, MmapFails(t) PROVE Inherits \/ Other
  BY <1>s, <1>18 DEF MmapFails, Transition, taskVars
<1>19. ASSUME NEW t \in Task, SwitchStack(t) PROVE Inherits \/ Other
  BY <1>s, <1>19 DEF SwitchStack, Transition, Enters, taskVars
<1>20. ASSUME NEW t \in Task, WriteArgs(t) PROVE Inherits \/ Other
  BY <1>s, <1>20 DEF WriteArgs, Transition, taskVars
<1>21. ASSUME NEW t \in Task, NEW u \in Task, CloneVm(t, u) PROVE Inherits \/ Other
  <2>1. \A f \in Task : table'[f] = table[f] \/ table'[f] = table[files[t]]
    BY <1>21 DEF CloneVm
  <2> QED
    BY <2>1 DEF Inherits
<1>22. ASSUME NEW t \in Task, NEW u \in Task, Fork(t, u) PROVE Inherits \/ Other
  <2>1. \A f \in Task : table'[f] = table[f] \/ table'[f] = table[files[t]]
    BY <1>22 DEF Fork
  <2> QED
    BY <2>1 DEF Inherits
<1>23. ASSUME NEW t \in Task, CloneFails(t) PROVE Inherits \/ Other
  BY <1>s, <1>23 DEF CloneFails, Cloned, Transition, taskVars
<1> QED
  BY <1>0, <1>1, <1>2, <1>3, <1>4, <1>5, <1>6, <1>7, <1>8, <1>9, <1>10, <1>11, <1>12,
     <1>13, <1>14, <1>15, <1>16, <1>17, <1>18, <1>19, <1>20, <1>21, <1>22, <1>23, Steps DEF Step

\* What one of those three makes, no descriptor named before.
LEMMA DescriptorsStep ==
  Types /\ PhaseOK /\ Fresh /\ Claims /\ Named /\ OneDescriptor /\ [Next]_vars
    => Named' /\ OneDescriptor'
<1> SUFFICES ASSUME Types, PhaseOK, Fresh, Claims, Named, OneDescriptor, [Next]_vars
             PROVE  Named' /\ OneDescriptor'
  OBVIOUS
<1>o. Onward
  BY OnwardStep
<1>1. CASE Inherits
  <2>1. Named'
    BY <1>o, <1>1, Objects DEF Named, Onward, Inherits
  <2>2. OneDescriptor'
    <3> SUFFICES ASSUME NEW f \in Task, NEW k \in Fd, NEW n \in Fd,
                        table'[f][k] = table'[f][n], table'[f][k] \notin {Nothing, File}
                 PROVE  k = n
      BY DEF OneDescriptor
    <3>1. PICK g \in Task : table'[f][k] = table[g][k] /\ table'[f][n] = table[g][n]
      BY <1>1 DEF Inherits
    <3> QED
      BY <3>1 DEF OneDescriptor
  <2> QED
    BY <2>1, <2>2
<1>2. ASSUME NEW t \in Task, NEW n \in Fd, NEW o,
             Opens(t, o, n), o \notin {Nothing, File},
             \A f \in Task, k \in Fd : table[f][k] # o
      PROVE  /\ OneDescriptor'
             /\ \A f \in Task, k \in Fd : table'[f][k] \in {table[f][k], o}
  <2>1. files[t] \in Task
    BY DEF Types
  <2>2. /\ table'[files[t]][n] = o
        /\ \A f \in Task, k \in Fd : f # files[t] \/ k # n => table'[f][k] = table[f][k]
    BY <1>2, <2>1 DEF Opens, Types
  <2> QED
    BY <1>2, <2>2 DEF OneDescriptor
<1>3. ASSUME NEW t \in Task, NEW n \in Fd, OpenKvm(t, n) PROVE Named' /\ OneDescriptor'
  <2>1. mm[t] = t /\ pc[t] = "open" /\ Opens(t, Dev(t), n) /\ pc'[t] = "create_vm"
    BY <1>3 DEF OpenKvm, Transition, Claims, Types
  <2>2. \A f \in Task, k \in Fd : table[f][k] # Dev(t)
    BY <2>1 DEF Named
  <2>3. OneDescriptor' /\ \A f \in Task, k \in Fd : table'[f][k] \in {table[f][k], Dev(t)}
    BY <1>2, <2>1, <2>2, Objects
  <2>4. Named'
    BY <1>o, <2>1, <2>3, Objects DEF Named, Onward
  <2> QED
    BY <2>3, <2>4
<1>4. ASSUME NEW t \in Task, NEW n \in Fd, CreateVm(t, n) PROVE Named' /\ OneDescriptor'
  <2>1. mm[t] = t /\ pc[t] = "create_vm" /\ Opens(t, Vm(t), n) /\ pc'[t] = "alloc"
    BY <1>4 DEF CreateVm, Transition, Claims, Types
  <2>2. \A f \in Task, k \in Fd : table[f][k] # Vm(t)
    BY <2>1 DEF Named
  <2>3. OneDescriptor' /\ \A f \in Task, k \in Fd : table'[f][k] \in {table[f][k], Vm(t)}
    BY <1>2, <2>1, <2>2, Objects
  <2>4. Named'
    BY <1>o, <2>1, <2>3, Objects DEF Named, Onward
  <2> QED
    BY <2>3, <2>4
<1>5. ASSUME NEW t \in Task, NEW n \in Fd, CreateVcpu(t, n) PROVE Named' /\ OneDescriptor'
  <2>0. mm[t] \in Task /\ new[t] \in Slot /\ pool[mm[t]][new[t]].fd = NoFd /\ n # NoFd
    BY <1>5 DEF CreateVcpu, Transition, Claims, Types, PhaseOK, PhaseOf, Fd, NoFd
  <2>1. Opens(t, Vcpu(mm[t], new[t]), n) /\ pool'[mm[t]][new[t]].fd # NoFd
    BY <1>5, <2>0 DEF CreateVcpu, Types, PoolType
  <2>2. \A f \in Task, k \in Fd : table[f][k] # Vcpu(mm[t], new[t])
    BY <2>0 DEF Named
  <2>3. /\ OneDescriptor'
        /\ \A f \in Task, k \in Fd : table'[f][k] \in {table[f][k], Vcpu(mm[t], new[t])}
    BY <1>2, <2>0, <2>1, <2>2, Objects
  <2>4. Named'
    BY <1>o, <2>0, <2>1, <2>3, Objects DEF Named, Onward
  <2> QED
    BY <2>3, <2>4
<1> QED
  BY <1>1, <1>3, <1>4, <1>5, InheritsStep

-----------------------------------------------------------------------------
\* The inductive invariant.
Inv ==
  /\ Types /\ PhaseOK /\ Fresh /\ StacksOK /\ HasFd /\ FdOK
  /\ Claims /\ Named /\ OneDescriptor

\* One task, which has nothing.
LEMMA InitInv == Init => Inv
<1> SUFFICES ASSUME Init PROVE Inv
  OBVIOUS
<1> USE DEF Init
<1>1. Types
  <2>1. table \in [Task -> [Fd -> Object]]
    BY ObjectTypes DEF EmptyTable
  <2>2. pool \in PoolType
    BY EmptyPoolType DEF PoolType
  <2> QED
    BY <2>1, <2>2, LabelFacts, TaskAssumption DEF Types, NoStack, NoSlot
<1>2. PhaseOK
  BY DEF PhaseOK, PhaseOf, Boot, NoStack, NoSlot, ForkKinds, VmKinds
<1>3. Fresh
  BY DEF Fresh
<1>4. StacksOK
  <2>1. \A t \in Task : stack[t] = 0 /\ stk[t] = 0 /\ pages[mm[t]] = 0 /\ mm[t] = t
    BY DEF NoStack
  <2> QED
    BY <2>1 DEF StacksOK, OwnStack, Live, MapFailed
<1>5. HasFd
  BY DEF HasFd, NoSlot, Slot
<1>6. FdOK
  <2>1. \A t \in Task, s \in Slot : pool[mm[t]][s].fd = NoFd
    BY DEF EmptyPool, FreeSlot
  <2> QED
    BY <2>1 DEF FdOK
<1>7. Claims
  BY DEF Claims
<1>8. Named /\ OneDescriptor
  <2>1. \A f \in Task, n \in Fd : table[f][n] = Nothing
    BY DEF EmptyTable
  <2> QED
    BY <2>1, Objects DEF Named, OneDescriptor
<1> QED
  BY <1>1, <1>2, <1>3, <1>4, <1>5, <1>6, <1>7, <1>8 DEF Inv

\* No step breaks it.
LEMMA NextInv == Inv /\ [Next]_vars => Inv'
  BY TypesStep, PhaseStep, FreshStep, StacksStep, HasFdStep, FdStep, ClaimsStep,
     DescriptorsStep DEF Inv

\* Inv holds in every state of a tree of processes.
THEOREM Invariance == Spec => []Inv
  BY InitInv, NextInv, PTL DEF Spec

\* TypeOK: among others, a task that is back in the guest has dropped the vcpu
\* and the stack it prepared for its clone (emulate_fork).
THEOREM TypeCorrect == Spec => []TypeOK
<1>1. Inv => TypeOK
  BY DEF Inv, Types, PhaseOK, PhaseOf, TypeOK, PoolType
<1> QED
  BY <1>1, Invariance, PTL

\* StackMapped: no host_loop runs on a stack mmap_one_page failed to map.
THEOREM StacksMapped == Spec => []StackMapped
<1>1. Inv => StackMapped
  BY DEF Inv, StacksOK, StackMapped, Live
<1> QED
  BY <1>1, Invariance, PTL

\* OwnStack: no two host loops of one address space share a stack, and no clone
\* prepares a stack in use (switch_stack, child_stack_para).
THEOREM StacksOwn == Spec => []OwnStack
<1>1. Inv => OwnStack
  BY DEF Inv, StacksOK
<1> QED
  BY <1>1, Invariance, PTL

\* OneDescriptor: no table has two descriptors of one /dev/kvm, VM or vcpu
\* (kvm_init_vm_with_one_cpu, kvm_alloc_vcpu).
THEOREM DescriptorsOnce == Spec => []OneDescriptor
<1>1. Inv => OneDescriptor
  BY DEF Inv
<1> QED
  BY <1>1, Invariance, PTL

\* OwnVcpu: ioctls on vcpu_fd reach the slot's own vcpu of the task's own
\* address space while that address space has one descriptor table.
THEOREM VcpusOwn == Spec => []OwnVcpu
<1>1. ASSUME Inv PROVE OwnVcpu
  <2> SUFFICES ASSUME NEW t \in Task, OneTable(mm[t])
               PROVE  /\ pc[t] = "guest" => Reaches(t, slot[t], slot[t])
                      /\ pc[t] = "init" => Reaches(t, new[t], new[t])
    BY DEF OwnVcpu
  <2>1. mm[t] \in Task
    BY <1>1 DEF Inv, Types
  <2>2. ASSUME NEW s \in Slot, pool[mm[t]][s].fd # NoFd PROVE Reaches(t, s, s)
    <3>1. pool[mm[t]][s].fd \in Fd
      BY <1>1, <2>1, <2>2, FdType DEF Inv
    <3>2. table[files[t]][pool[mm[t]][s].fd] = Vcpu(mm[t], s)
      BY <1>1, <2>2 DEF Inv, FdOK
    <3> QED
      BY <3>1, <3>2 DEF Reaches
  <2>3. pc[t] = "guest" => slot[t] \in Slot /\ pool[mm[t]][slot[t]].fd # NoFd
    BY <1>1 DEF Inv, PhaseOK, PhaseOf, HasFd
  <2>4. pc[t] = "init" => new[t] \in Slot /\ pool[mm[t]][new[t]].fd # NoFd
    BY <1>1 DEF Inv, PhaseOK, PhaseOf, HasFd
  <2> QED
    BY <2>2, <2>3, <2>4
<1> QED
  BY <1>1, Invariance, PTL
=============================================================================

---------------------------- MODULE DuneVmProofs ----------------------------
(***************************************************************************)
(* Theorems about DuneVm, for any number of threads and vcpus: first those *)
(* of vcpu_pool and its lock, in every case; then those that hold when     *)
(* exits are prompt, of who runs which vcpu and performs which call, that  *)
(* the VM implements the kernel's threads (NativeThreads) and loses no     *)
(* vcpu, and that the programs of Examples join no thread too early.       *)
(***************************************************************************)
EXTENDS DuneVmRefinement, Examples, FiniteSetTheorems, SequenceTheorems, TLAPS

(* The invariants are kept whatever calls the guest makes, those of the     *)
(* programs in Examples among them.                                         *)

AnyNext == Next \/ \E t \in Thread, k \in AllCalls : GuestSyscall(t, k)

\* Spec's guest makes only the calls of Calls.
LEMMA NextIsAny == [Next]_vars => [AnyNext]_vars
  BY DEF AnyNext

-----------------------------------------------------------------------------
(* The inductive invariant behind the safety of vcpu_pool, conjunct by      *)
(* conjunct.  It is one of Spec: it does not need exits to be prompt.       *)

InCS(t)  == pc[t] \in FreeCS \union AllocCS
Holds(t) == child[t] \in Slot

\* Who is between lock and unlock holds the lock.
CSLocked == \A t \in Thread : InCS(t) => lock

\* Only usable vcpus are run.
VcpuReady == \A t \in Thread : vcpu[t] \in Slot => ptr[vcpu[t]] = "ready"

\* How far a vcpu being set up is.
SetUpStage ==
  \A t \in Thread :
    /\ pc[t] = "alloc_unlock" /\ Holds(t) => ptr[child[t]] # "fresh"
    /\ pc[t] = "calloc" => ptr[child[t]] = "null"
    /\ pc[t] \in {"create", "mmap"} => ptr[child[t]] = "fresh"
    /\ pc[t] \in {"init", "clone"} => ptr[child[t]] = "ready"

\* Until it is usable, its slot stays claimed and it has one owner.
SetUpClaimed ==
  \A t \in Thread : Holds(t) /\ ptr[child[t]] # "ready" => valid[child[t]]
SetUpOwned ==
  \A t, u \in Thread :
    Holds(t) /\ child[t] = child[u] /\ ptr[child[t]] # "ready" => t = u

\* KVM knows no vcpu that vcpu_pool does not.
CreatedKnown == \A s \in created : ptr[s] # "null"

PoolInv ==
  /\ TypeOK /\ PoolMutex /\ CSLocked /\ VcpuReady /\ SetUpStage
  /\ SetUpClaimed /\ SetUpOwned /\ CreatedKnown /\ CreateOnce /\ PoolPublished

-----------------------------------------------------------------------------
(* Type correctness.                                                       *)

\* TypeOK in four parts: the pool, where the tasks are, their locals, the vcpus.
PoolTypes ==
  /\ lock \in BOOLEAN /\ valid \in [Slot -> BOOLEAN]
  /\ ptr \in [Slot -> {"null", "fresh", "ready"}] /\ created \subseteq Slot
PcTypes ==
  /\ pc \in [Thread -> Labels]
  /\ vcpu \in [Thread -> Slot \union {NoSlot}]
  /\ child \in [Thread -> Slot \union {NoSlot}]
  /\ \A t \in Thread :
       /\ vcpu[t] = NoSlot <=> pc[t] = "none"
       /\ pc[t] \in SetUp => child[t] \in Slot
       /\ child[t] \in Slot => pc[t] \in SetUp \union {"alloc_unlock"}
LocalTypes ==
  /\ sysno \in [Thread -> AllCalls \union {"none"}]
  /\ req \in [Thread -> [nr : AllCalls \union {"none"},
                        by : Thread \union {NoThread}]]
  /\ ret \in [Thread -> Int] /\ grp \in [Thread -> Thread]
CpuTypes ==
  /\ param \in [Slot -> Block]
  /\ reason \in [Slot -> {"none", "intr", "hypercall", "other"}]
  /\ who \in [Slot -> Thread \union {NoThread}]
  /\ at \in [Slot -> {"user", "trap"}] /\ a0 \in [Slot -> Int]

LEMMA TypeParts ==
  /\ TypeOK => PoolTypes /\ PcTypes /\ LocalTypes /\ CpuTypes
  /\ PoolTypes' /\ PcTypes' /\ LocalTypes' /\ CpuTypes' => TypeOK'
  BY DEF TypeOK, PoolTypes, PcTypes, LocalTypes, CpuTypes

\* A task moves from y to x and keeps its vcpu and the vcpu it sets up.
LEMMA PcMove ==
  ASSUME PcTypes, NEW t \in Thread, NEW x \in Labels, NEW y,
         Transition(t, y, x), x # "none", y # "none",
         UNCHANGED <<vcpu, child>>,
         x \in SetUp => child[t] \in Slot,
         child[t] \in Slot => x \in SetUp \union {"alloc_unlock"}
  PROVE  PcTypes'
<1>1. pc' \in [Thread -> Labels]
  BY DEF PcTypes, Transition
<1>2. pc'[t] = x /\ pc[t] = y /\ \A u \in Thread \ {t} : pc'[u] = pc[u]
  BY DEF PcTypes, Transition
<1>3. QED
  BY <1>1, <1>2 DEF PcTypes

\* So it is for moves outside the set-up of a vcpu.
LEMMA PcMoveOut ==
  ASSUME PcTypes, NEW t \in Thread, NEW x \in Labels, NEW y,
         Transition(t, y, x), x # "none", y # "none",
         x \notin SetUp, y \notin SetUp \union {"alloc_unlock"},
         UNCHANGED <<vcpu, child>>
  PROVE  PcTypes'
<1>1. child[t] \notin Slot
  BY DEF PcTypes, Transition
<1>2. QED
  BY <1>1, PcMove

\* Writing the call, or the answer, into a syscall_parameter block.
LEMMA BlockCall ==
  ASSUME NEW p \in [Slot -> Block], NEW s \in Slot, NEW k \in AllCalls,
         NEW b \in Thread \union {NoThread}
  PROVE  [p EXCEPT ![s].nr = k, ![s].by = b] \in [Slot -> Block]
  BY DEF Block

\* Storing an answer keeps the type of the blocks.
LEMMA BlockAnswer ==
  ASSUME NEW p \in [Slot -> Block], NEW s \in Slot, NEW r \in Int
  PROVE  [p EXCEPT ![s].a0 = r, ![s].by = NoThread] \in [Slot -> Block]
  BY DEF Block

\* Answers are numbers.
LEMMA AnswersType ==
  ASSUME NEW nr \in AllCalls \union {"none"}
  PROVE  Answers(nr) \subseteq Int
<1>1. \A e \in Errno \union CloneErrno : e \in Int /\ -e \in Int
  BY CallsAssumption
<1>2. \A u \in Thread : u \in Int
  BY ThreadAssumption
<1>3. QED
  BY <1>1, <1>2 DEF Answers, AllCalls, Clones

\* The tasks of S end: the host tables keep their types.
LEMMA EndType ==
  ASSUME TypeOK, NEW S, S \subseteq Thread, End(S)
  PROVE  TypeOK'
  BY DEF TypeOK, End, poolVars, cpuVars, Slot, NoSlot, NoReq, NoThread,
      Labels, SetUp

\* The initial state is type correct.
LEMMA TypeInit == Init => TypeOK
<1> SUFFICES ASSUME Init PROVE TypeOK
  OBVIOUS
<1> USE ThreadAssumption, VcpusAssumption DEF Init, Slot, NoSlot, NoThread
<1>0. created \subseteq Slot
  OBVIOUS
<1>1. /\ lock \in BOOLEAN /\ valid \in [Slot -> BOOLEAN]
      /\ ptr \in [Slot -> {"null", "fresh", "ready"}]
  OBVIOUS
<1>2. /\ pc \in [Thread -> Labels]
      /\ vcpu \in [Thread -> Slot \union {NoSlot}]
      /\ child \in [Thread -> Slot \union {NoSlot}]
  BY DEF Labels
<1>3. /\ sysno \in [Thread -> AllCalls \union {"none"}]
      /\ req \in [Thread -> [nr : AllCalls \union {"none"},
                            by : Thread \union {NoThread}]]
      /\ ret \in [Thread -> Int] /\ grp \in [Thread -> Thread]
  BY DEF NoReq
<1>4. param \in [Slot -> Block]
  BY DEF Block
<1>5. /\ reason \in [Slot -> {"none", "intr", "hypercall", "other"}]
      /\ who \in [Slot -> Thread \union {NoThread}]
      /\ at \in [Slot -> {"user", "trap"}] /\ a0 \in [Slot -> Int]
  OBVIOUS
<1>6. \A t \in Thread :
        /\ vcpu[t] = NoSlot <=> pc[t] = "none"
        /\ pc[t] \in SetUp => child[t] \in Slot
        /\ child[t] \in Slot => pc[t] \in SetUp \union {"alloc_unlock"}
  BY DEF SetUp
<1>7. QED
  BY <1>0, <1>1, <1>2, <1>3, <1>4, <1>5, <1>6 DEF TypeOK

\* Every step keeps TypeOK.
LEMMA TypeStep == TypeOK /\ [AnyNext]_vars => TypeOK'
<1> SUFFICES ASSUME TypeOK, [AnyNext]_vars PROVE TypeOK'
  OBVIOUS
<1> USE ThreadAssumption, CallsAssumption
<1>0. CASE UNCHANGED vars
  BY <1>0 DEF TypeOK, vars, poolVars, hostVars, cpuVars
<1>1. ASSUME NEW t \in Thread, NEW k \in AllCalls, GuestSyscall(t, k) PROVE TypeOK'
  <2>1. vcpu[t] \in Slot
    BY <1>1 DEF TypeOK, GuestSyscall, Transition, Slot, NoSlot
  <2> DEFINE v == vcpu[t]
  <2>2. param' \in [Slot -> Block]
    <3>1. param \in [Slot -> Block] /\ v \in Slot
      BY <2>1 DEF TypeOK
    <3>2. k \in AllCalls
      BY CallsAssumption
    <3>3. who[v] \in Thread \union {NoThread}
      BY <2>1 DEF TypeOK
    <3>4. param' = [param EXCEPT ![v].nr = k, ![v].by = who[v]]
      BY <1>1 DEF GuestSyscall
    <3> HIDE DEF v
    <3>5. QED
      BY <3>1, <3>2, <3>3, <3>4, BlockCall
  <2>3. /\ reason' = [reason EXCEPT ![v] = "hypercall"]
        /\ at' = [at EXCEPT ![v] = "trap"] /\ a0' = [a0 EXCEPT ![v] = 0]
        /\ Transition(t, "guest", "exited")
        /\ UNCHANGED <<vcpu, child, sysno, req, ret, grp, who, poolVars>>
    BY <1>1 DEF GuestSyscall
  <2> HIDE DEF v
  <2>4. CpuTypes'
    BY <2>1, <2>2, <2>3, TypeParts DEF CpuTypes, v
  <2>5. PcTypes'
    BY <2>3, TypeParts, PcMoveOut DEF SetUp, Labels
  <2>6. PoolTypes' /\ LocalTypes'
    BY <2>3, TypeParts DEF poolVars, PoolTypes, LocalTypes
  <2>7. QED
    BY <2>4, <2>5, <2>6, TypeParts
<1>2. ASSUME NEW t \in Thread, GuestReturn(t) PROVE TypeOK'
  <2>1. vcpu[t] \in Slot
    BY <1>2 DEF TypeOK, GuestReturn, Transition, Slot, NoSlot
  <2>2. a0' \in [Slot -> Int]
    BY <1>2, <2>1 DEF TypeOK, GuestReturn, Block
  <2>3. QED
    BY <1>2, <2>1, <2>2
    DEF TypeOK, GuestReturn, Transition, poolVars, hostVars, cpuVars,
         Slot, NoSlot, NoReq, NoThread, Labels, SetUp, AllCalls
<1>3. ASSUME NEW t \in Thread, GuestInterrupted(t) PROVE TypeOK'
  <2>1. PcTypes'
    BY <1>3, TypeParts, PcMoveOut DEF GuestInterrupted, SetUp, Labels
  <2>2. PoolTypes'
    BY <1>3, TypeParts DEF GuestInterrupted, poolVars, PoolTypes
  <2>3. LocalTypes'
    BY <1>3, TypeParts DEF GuestInterrupted, LocalTypes
  <2>4. CpuTypes'
    BY <1>3, TypeParts DEF GuestInterrupted, CpuTypes
  <2>5. QED
    BY <2>1, <2>2, <2>3, <2>4, TypeParts
<1>4. ASSUME NEW t \in Thread, GuestFault(t) PROVE TypeOK'
  <2>1. PcTypes'
    BY <1>4, TypeParts, PcMoveOut DEF GuestFault, SetUp, Labels
  <2>2. PoolTypes'
    BY <1>4, TypeParts DEF GuestFault, poolVars, PoolTypes
  <2>3. LocalTypes'
    BY <1>4, TypeParts DEF GuestFault, LocalTypes
  <2>4. CpuTypes'
    BY <1>4, TypeParts DEF GuestFault, CpuTypes
  <2>5. QED
    BY <2>1, <2>2, <2>3, <2>4, TypeParts
<1>5. ASSUME NEW t \in Thread, KvmRun(t) PROVE TypeOK'
  <2>1. PcTypes'
    BY <1>5, TypeParts, PcMoveOut DEF KvmRun, SetUp, Labels
  <2>2. PoolTypes'
    BY <1>5, TypeParts DEF KvmRun, poolVars, PoolTypes
  <2>3. LocalTypes'
    BY <1>5, TypeParts DEF KvmRun, LocalTypes
  <2>4. CpuTypes'
    BY <1>5, TypeParts DEF KvmRun, cpuVars, CpuTypes
  <2>5. QED
    BY <2>1, <2>2, <2>3, <2>4, TypeParts
<1>6. ASSUME NEW t \in Thread, ReadSysno(t) PROVE TypeOK'
  <2>1. PcTypes'
    BY <1>6, TypeParts, PcMoveOut DEF ReadSysno, SetUp, Labels
  <2>2. param[vcpu[t]].nr \in AllCalls \union {"none"}
    BY <1>6, TypeParts DEF ReadSysno, Transition, PcTypes, CpuTypes, Block
  <2>3. LocalTypes'
    BY <1>6, <2>2, TypeParts DEF ReadSysno, LocalTypes
  <2>4. PoolTypes' /\ CpuTypes'
    BY <1>6, TypeParts DEF ReadSysno, poolVars, cpuVars, PoolTypes, CpuTypes
  <2>5. QED
    BY <2>1, <2>3, <2>4, TypeParts
<1>7. ASSUME NEW t \in Thread, DispatchIntr(t) PROVE TypeOK'
  <2>1. PcTypes'
    BY <1>7, TypeParts, PcMoveOut DEF DispatchIntr, SetUp, Labels
  <2>2. LocalTypes'
    BY <1>7, TypeParts DEF DispatchIntr, LocalTypes
  <2>3. PoolTypes' /\ CpuTypes'
    BY <1>7, TypeParts DEF DispatchIntr, poolVars, cpuVars, PoolTypes, CpuTypes
  <2>4. QED
    BY <2>1, <2>2, <2>3, TypeParts
<1>8. ASSUME NEW t \in Thread, DispatchDie(t) PROVE TypeOK'
  BY <1>8, EndType DEF DispatchDie, Group, Live, Die
<1>9. ASSUME NEW t \in Thread, DispatchSyscall(t) PROVE TypeOK'
  <2>1. PcTypes'
    BY <1>9, TypeParts, PcMoveOut DEF DispatchSyscall, Entry, Clones, AllCalls, SetUp, Labels
  <2>2. PoolTypes'
    BY <1>9, TypeParts DEF DispatchSyscall, poolVars, PoolTypes
  <2>3. LocalTypes'
    BY <1>9, TypeParts DEF DispatchSyscall, LocalTypes
  <2>4. CpuTypes'
    BY <1>9, TypeParts DEF DispatchSyscall, cpuVars, CpuTypes
  <2>5. QED
    BY <2>1, <2>2, <2>3, <2>4, TypeParts
<1>10. ASSUME NEW t \in Thread, LoadNr(t) PROVE TypeOK'
  <2>1. vcpu[t] \in Slot
    BY <1>10 DEF TypeOK, LoadNr, Transition, Slot, NoSlot
  <2>2. req' \in [Thread -> [nr : AllCalls \union {"none"},
                           by : Thread \union {NoThread}]]
    <3>1. param[vcpu[t]].nr \in AllCalls \union {"none"}
      BY <2>1 DEF TypeOK, Block
    <3>2. req[t] \in [nr : AllCalls \union {"none"}, by : Thread \union {NoThread}]
      BY DEF TypeOK
    <3>3. req' = [req EXCEPT ![t] = [@ EXCEPT !.nr = param[vcpu[t]].nr]]
      BY <1>10 DEF LoadNr
    <3>4. [req[t] EXCEPT !.nr = param[vcpu[t]].nr]
            \in [nr : AllCalls \union {"none"}, by : Thread \union {NoThread}]
      BY <3>1, <3>2
    <3>5. QED  BY <3>3, <3>4 DEF TypeOK
  <2>3. PcTypes'
    BY <1>10, TypeParts, PcMoveOut DEF LoadNr, SetUp, Labels
  <2>4. PoolTypes' /\ LocalTypes' /\ CpuTypes'
    BY <1>10, <2>2, TypeParts
    DEF LoadNr, poolVars, cpuVars, PoolTypes, LocalTypes, CpuTypes
  <2>5. QED
    BY <2>3, <2>4, TypeParts
<1>11. ASSUME NEW t \in Thread, LoadArgs(t) PROVE TypeOK'
  <2>1. vcpu[t] \in Slot
    BY <1>11 DEF TypeOK, LoadArgs, Transition, Slot, NoSlot
  <2>2. req' \in [Thread -> [nr : AllCalls \union {"none"},
                           by : Thread \union {NoThread}]]
    <3>1. param[vcpu[t]].by \in Thread \union {NoThread}
      BY <2>1 DEF TypeOK, Block
    <3>2. req[t] \in [nr : AllCalls \union {"none"}, by : Thread \union {NoThread}]
      BY DEF TypeOK
    <3>3. req' = [req EXCEPT ![t] = [@ EXCEPT !.by = param[vcpu[t]].by]]
      BY <1>11 DEF LoadArgs
    <3>4. [req[t] EXCEPT !.by = param[vcpu[t]].by]
            \in [nr : AllCalls \union {"none"}, by : Thread \union {NoThread}]
      BY <3>1, <3>2
    <3>5. QED  BY <3>3, <3>4 DEF TypeOK
  <2>3. PcTypes'
    BY <1>11, TypeParts, PcMoveOut DEF LoadArgs, SetUp, Labels
  <2>4. PoolTypes' /\ LocalTypes' /\ CpuTypes'
    BY <1>11, <2>2, TypeParts
    DEF LoadArgs, poolVars, cpuVars, PoolTypes, LocalTypes, CpuTypes
  <2>5. QED
    BY <2>3, <2>4, TypeParts
<1>12. ASSUME NEW t \in Thread, NEW r \in Answers(req[t].nr),
              SyscallAnswered(t, r)
       PROVE  TypeOK'
  <2>1. PcTypes'
    BY <1>12, TypeParts, PcMoveOut DEF SyscallAnswered, SetUp, Labels
  <2>2. PoolTypes'
    BY <1>12, TypeParts DEF SyscallAnswered, poolVars, PoolTypes
  <2>3. LocalTypes'
    <3>1. LocalTypes
      BY TypeParts
    <3>2. r \in Int
      BY <3>1, AnswersType DEF LocalTypes
    <3>3. QED
      BY <1>12, <3>1, <3>2 DEF SyscallAnswered, NoReq, NoThread, LocalTypes
  <2>4. CpuTypes'
    BY <1>12, TypeParts DEF SyscallAnswered, cpuVars, CpuTypes
  <2>5. QED
    BY <2>1, <2>2, <2>3, <2>4, TypeParts
<1>13. ASSUME NEW t \in Thread, SyscallExit(t) PROVE TypeOK'
  BY <1>13, EndType DEF SyscallExit
<1>14. ASSUME NEW t \in Thread, SyscallEndsGroup(t) PROVE TypeOK'
  BY <1>14, EndType DEF SyscallEndsGroup, Group, Live
<1>15. ASSUME NEW t \in Thread, StoreRet(t) PROVE TypeOK'
  <2>1. PcTypes'
    BY <1>15, TypeParts, PcMoveOut DEF StoreRet, SetUp, Labels
  <2>2. LocalTypes'
    BY <1>15, TypeParts DEF StoreRet, LocalTypes
  <2>3. PoolTypes'
    BY <1>15, TypeParts DEF StoreRet, poolVars, PoolTypes
  <2>4. vcpu[t] \in Slot
    BY <1>15, TypeParts DEF StoreRet, Transition, PcTypes
  <2>5. ret[t] \in Int
    BY TypeParts DEF LocalTypes, CloneAnswer
  <2>6. param' \in [Slot -> Block]
    <3>1. param \in [Slot -> Block]
      BY TypeParts DEF CpuTypes
    <3>2. param' = [param EXCEPT ![vcpu[t]].a0 = ret[t], ![vcpu[t]].by = NoThread]
      BY <1>15 DEF StoreRet
    <3>3. QED
      BY <2>4, <2>5, <3>1, <3>2, BlockAnswer
  <2>7. CpuTypes'
    BY <1>15, <2>6, TypeParts DEF StoreRet, CpuTypes
  <2>8. QED
    BY <2>1, <2>2, <2>3, <2>7, TypeParts
<1>16. ASSUME NEW t \in Thread, FreeLock(t) PROVE TypeOK'
  <2>1. PcTypes'
    BY <1>16, TypeParts, PcMoveOut DEF FreeLock, Acquire, SetUp, Labels
  <2>2. PoolTypes'
    BY <1>16, TypeParts DEF FreeLock, Acquire, PoolTypes
  <2>3. LocalTypes'
    BY <1>16, TypeParts DEF FreeLock, Acquire, LocalTypes
  <2>4. CpuTypes'
    BY <1>16, TypeParts DEF FreeLock, Acquire, cpuVars, CpuTypes
  <2>5. QED
    BY <2>1, <2>2, <2>3, <2>4, TypeParts
<1>17. ASSUME NEW t \in Thread, FreeClear(t) PROVE TypeOK'
  <2>1. vcpu[t] \in Slot
    BY <1>17 DEF TypeOK, FreeClear, Transition, Slot, NoSlot
  <2>2. valid' \in [Slot -> BOOLEAN]
    BY <1>17, <2>1 DEF TypeOK, FreeClear
  <2>3. PcTypes'
    BY <1>17, TypeParts, PcMoveOut DEF FreeClear, SetUp, Labels
  <2>4. PoolTypes' /\ LocalTypes' /\ CpuTypes'
    BY <1>17, <2>2, TypeParts
    DEF FreeClear, cpuVars, PoolTypes, LocalTypes, CpuTypes
  <2>5. QED
    BY <2>3, <2>4, TypeParts
<1>18. ASSUME NEW t \in Thread, FreeAbort(t) PROVE TypeOK'
  BY <1>18, EndType DEF FreeAbort, Group, Live, Die
<1>19. ASSUME NEW t \in Thread, FreeUnlock(t) PROVE TypeOK'
  <2>1. PcTypes'
    BY <1>19, TypeParts, PcMoveOut DEF FreeUnlock, Release, SetUp, Labels
  <2>2. PoolTypes'
    BY <1>19, TypeParts DEF FreeUnlock, Release, PoolTypes
  <2>3. LocalTypes'
    BY <1>19, TypeParts DEF FreeUnlock, Release, LocalTypes
  <2>4. CpuTypes'
    BY <1>19, TypeParts DEF FreeUnlock, Release, cpuVars, CpuTypes
  <2>5. QED
    BY <2>1, <2>2, <2>3, <2>4, TypeParts
<1>20. ASSUME NEW t \in Thread, AllocLock(t) PROVE TypeOK'
  <2>1. PcTypes'
    BY <1>20, TypeParts, PcMoveOut DEF AllocLock, Acquire, SetUp, Labels
  <2>2. PoolTypes'
    BY <1>20, TypeParts DEF AllocLock, Acquire, PoolTypes
  <2>3. LocalTypes'
    BY <1>20, TypeParts DEF AllocLock, Acquire, LocalTypes
  <2>4. CpuTypes'
    BY <1>20, TypeParts DEF AllocLock, Acquire, cpuVars, CpuTypes
  <2>5. QED
    BY <2>1, <2>2, <2>3, <2>4, TypeParts
<1>21. ASSUME NEW t \in Thread, NEW s \in Slot, AllocTake(t, s) PROVE TypeOK'
  <2>1. PcTypes'
    <3>1. pc[t] = "alloc_scan" /\ vcpu' = vcpu
      BY <1>21 DEF AllocTake, Transition
    <3>2. /\ pc' \in [Thread -> Labels] /\ child' \in [Thread -> Slot \union {NoSlot}]
          /\ pc'[t] = "alloc_unlock" /\ child'[t] = s
          /\ \A u \in Thread \ {t} : pc'[u] = pc[u] /\ child'[u] = child[u]
      BY <1>21, TypeParts DEF AllocTake, Transition, PcTypes, Labels
    <3>3. QED
      BY <3>1, <3>2, TypeParts DEF PcTypes, SetUp
  <2>2. PoolTypes'
    BY <1>21, TypeParts DEF AllocTake, PoolTypes
  <2>3. LocalTypes'
    BY <1>21, TypeParts DEF AllocTake, LocalTypes
  <2>4. CpuTypes'
    BY <1>21, TypeParts DEF AllocTake, cpuVars, CpuTypes
  <2>5. QED
    BY <2>1, <2>2, <2>3, <2>4, TypeParts
<1>22. ASSUME NEW t \in Thread, AllocNone(t) PROVE TypeOK'
  <2>1. PcTypes'
    BY <1>22, TypeParts, PcMove DEF AllocNone, PcTypes, Transition, SetUp, Labels
  <2>2. PoolTypes'
    BY <1>22, TypeParts DEF AllocNone, poolVars, PoolTypes
  <2>3. LocalTypes'
    BY <1>22, TypeParts DEF AllocNone, LocalTypes
  <2>4. CpuTypes'
    BY <1>22, TypeParts DEF AllocNone, cpuVars, CpuTypes
  <2>5. QED
    BY <2>1, <2>2, <2>3, <2>4, TypeParts
<1>23. ASSUME NEW t \in Thread, AllocUnlock(t) PROVE TypeOK'
  <2>1. AfterScan(child[t]) \in IF child[t] = NoSlot THEN {"full"} ELSE {"calloc", "init"}
    BY DEF AfterScan
  <2>2. /\ pc' \in [Thread -> Labels]
        /\ UNCHANGED <<vcpu, child>>
    BY <1>23, <2>1 DEF TypeOK, AllocUnlock, Release, Transition, Labels
  <2>3. \A u \in Thread : u # t => pc'[u] = pc[u]
    BY <1>23 DEF TypeOK, AllocUnlock, Release, Transition
  <2>4. /\ pc[t] = "alloc_unlock" /\ pc'[t] = AfterScan(child[t])
    BY <1>23 DEF TypeOK, AllocUnlock, Release, Transition
  <2>5. \A u \in Thread :
          /\ vcpu'[u] = NoSlot <=> pc'[u] = "none"
          /\ pc'[u] \in SetUp => child'[u] \in Slot
          /\ child'[u] \in Slot => pc'[u] \in SetUp \union {"alloc_unlock"}
    <3> TAKE u \in Thread
    <3>1. CASE u = t
      BY <3>1, <2>1, <2>2, <2>4 DEF TypeOK, SetUp, Slot, NoSlot
    <3>2. CASE u # t
      BY <3>2, <2>2, <2>3 DEF TypeOK
    <3>3. QED
      BY <3>1, <3>2
  <2>6. QED
    BY <1>23, <2>2, <2>5 DEF TypeOK, AllocUnlock, Release, cpuVars
<1>24. ASSUME NEW t \in Thread, NoMoreVcpu(t) PROVE TypeOK'
  BY <1>24, EndType DEF NoMoreVcpu, Group, Live, Die
<1>25. ASSUME NEW t \in Thread, Calloc(t) PROVE TypeOK'
  <2>1. PcTypes'
    BY <1>25, TypeParts, PcMove DEF Calloc, PcTypes, Transition, SetUp, Labels
  <2>2. PoolTypes'
    BY <1>25, TypeParts DEF Calloc, PoolTypes
  <2>3. LocalTypes'
    BY <1>25, TypeParts DEF Calloc, LocalTypes
  <2>4. CpuTypes'
    BY <1>25, TypeParts DEF Calloc, cpuVars, CpuTypes
  <2>5. QED
    BY <2>1, <2>2, <2>3, <2>4, TypeParts
<1>26. ASSUME NEW t \in Thread, CreateVcpu(t) PROVE TypeOK'
  <2>1. PcTypes'
    BY <1>26, TypeParts, PcMove DEF CreateVcpu, PcTypes, Transition, SetUp, Labels
  <2>2. PoolTypes'
    BY <1>26, TypeParts DEF CreateVcpu, Transition, PcTypes, SetUp, PoolTypes
  <2>3. LocalTypes'
    BY <1>26, TypeParts DEF CreateVcpu, LocalTypes
  <2>4. CpuTypes'
    BY <1>26, TypeParts DEF CreateVcpu, cpuVars, CpuTypes
  <2>5. QED
    BY <2>1, <2>2, <2>3, <2>4, TypeParts
<1>27. ASSUME NEW t \in Thread, MmapRun(t) PROVE TypeOK'
  <2>1. PcTypes'
    BY <1>27, TypeParts, PcMove DEF MmapRun, PcTypes, Transition, SetUp, Labels
  <2>2. PoolTypes'
    BY <1>27, TypeParts DEF MmapRun, PoolTypes
  <2>3. LocalTypes'
    BY <1>27, TypeParts DEF MmapRun, LocalTypes
  <2>4. CpuTypes'
    BY <1>27, TypeParts DEF MmapRun, cpuVars, CpuTypes
  <2>5. QED
    BY <2>1, <2>2, <2>3, <2>4, TypeParts
<1>28. ASSUME NEW t \in Thread, SetUpFails(t) PROVE TypeOK'
  BY <1>28, EndType DEF SetUpFails, Group, Live, Die
<1>29. ASSUME NEW t \in Thread, InitChild(t) PROVE TypeOK'
  <2>1. pc[t] = "init" /\ child[t] \in Slot
    BY <1>29 DEF TypeOK, InitChild, Transition, SetUp
  <2>2. /\ who' \in [Slot -> Thread \union {NoThread}]
        /\ at' \in [Slot -> {"user", "trap"}] /\ a0' \in [Slot -> Int]
    BY <1>29, <2>1 DEF TypeOK, InitChild
  <2>3. pc' \in [Thread -> Labels]
    BY <1>29 DEF TypeOK, InitChild, Transition, Labels
  <2>4. \A u \in Thread :
          /\ vcpu'[u] = NoSlot <=> pc'[u] = "none"
          /\ pc'[u] \in SetUp => child'[u] \in Slot
          /\ child'[u] \in Slot => pc'[u] \in SetUp \union {"alloc_unlock"}
    BY <1>29, <2>1 DEF TypeOK, InitChild, Transition, SetUp
  <2>5. QED
    BY <1>29, <2>2, <2>3, <2>4 DEF TypeOK, InitChild, poolVars
<1>30. ASSUME NEW t \in Thread, NEW u \in Thread, SysClone(t, u) PROVE TypeOK'
  <2>1. pc[t] = "clone" /\ pc[u] = "none" /\ t # u /\ child[t] \in Slot
    BY <1>30 DEF TypeOK, SysClone, Unused, Live, SetUp
  <2>2. /\ pc' \in [Thread -> Labels]
        /\ vcpu' \in [Thread -> Slot \union {NoSlot}]
        /\ child' \in [Thread -> Slot \union {NoSlot}]
    BY <1>30, <2>1 DEF TypeOK, SysClone, Labels
  <2>3. /\ ret' \in [Thread -> Int] /\ grp' \in [Thread -> Thread]
        /\ who' \in [Slot -> Thread \union {NoThread}]
    BY <1>30, <2>1 DEF TypeOK, SysClone
  <2>4. /\ pc'[t] = "store_clone" /\ child'[t] = NoSlot /\ vcpu'[t] = vcpu[t]
        /\ pc'[u] = "run" /\ child'[u] = child[u] /\ vcpu'[u] = child[t]
        /\ \A w \in Thread \ {t, u} :
             pc'[w] = pc[w] /\ child'[w] = child[w] /\ vcpu'[w] = vcpu[w]
    BY <1>30, <2>1 DEF TypeOK, SysClone
  <2>5. \A w \in Thread :
          /\ vcpu'[w] = NoSlot <=> pc'[w] = "none"
          /\ pc'[w] \in SetUp => child'[w] \in Slot
          /\ child'[w] \in Slot => pc'[w] \in SetUp \union {"alloc_unlock"}
    <3> TAKE w \in Thread
    <3>1. CASE w = t
      BY <3>1, <2>1, <2>4 DEF TypeOK, SetUp, Slot, NoSlot
    <3>2. CASE w = u
      BY <3>2, <2>1, <2>4 DEF TypeOK, SetUp, Slot, NoSlot
    <3>3. CASE w \notin {t, u}
      <4>1. pc'[w] = pc[w] /\ child'[w] = child[w] /\ vcpu'[w] = vcpu[w]
        BY <3>3, <2>4
      <4>2. QED
        BY <4>1, TypeParts DEF PcTypes
    <3>4. QED
      BY <3>1, <3>2, <3>3
  <2>6. QED
    BY <1>30, <2>2, <2>3, <2>5 DEF TypeOK, SysClone, poolVars
<1>31. ASSUME NEW t \in Thread,
              (\E e \in CloneErrno : SysCloneFails(t, e))
                \/ \E u \in Thread : SysCloneLost(t, u)
       PROVE  TypeOK'
  <2>1. /\ pc[t] = "clone" /\ pc' = [pc EXCEPT ![t] = "store_clone"]
        /\ child' = [child EXCEPT ![t] = NoSlot] /\ UNCHANGED vcpu
    BY <1>31 DEF SysCloneFails, SysCloneLost, Transition
  <2>2. /\ pc'[t] = "store_clone" /\ child'[t] = NoSlot
        /\ \A u \in Thread \ {t} : pc'[u] = pc[u] /\ child'[u] = child[u]
    BY <2>1, TypeParts DEF PcTypes
  <2>3. PcTypes'
    <3>1. pc' \in [Thread -> Labels] /\ child' \in [Thread -> Slot \union {NoSlot}]
      BY <2>1, TypeParts DEF PcTypes, Labels
    <3>2. QED
      BY <2>1, <2>2, <3>1, TypeParts DEF PcTypes, SetUp, Slot, NoSlot
  <2>4. \E r \in Int : ret' = [ret EXCEPT ![t] = r]
    BY <1>31, ThreadAssumption, CallsAssumption DEF SysCloneFails, SysCloneLost
  <2>5. LocalTypes'
    <3>1. UNCHANGED <<sysno, req, grp>>
      BY <1>31 DEF SysCloneFails, SysCloneLost
    <3>2. QED
      BY <2>4, <3>1, TypeParts DEF LocalTypes
  <2>6. PoolTypes' /\ CpuTypes'
    BY <1>31, TypeParts DEF SysCloneFails, SysCloneLost, poolVars, cpuVars, PoolTypes,
        CpuTypes
  <2>7. QED
    BY <2>3, <2>5, <2>6, TypeParts
<1>32. ASSUME NEW t \in Thread, SysCloneGarbled(t) PROVE TypeOK'
  BY <1>32, EndType DEF SysCloneGarbled, Group, Live, Die
<1>33. ASSUME NEW t \in Thread, StoreClone(t) PROVE TypeOK'
  <2>1. PcTypes'
    BY <1>33, TypeParts, PcMoveOut DEF StoreClone, SetUp, Labels
  <2>2. LocalTypes'
    BY <1>33, TypeParts DEF StoreClone, LocalTypes
  <2>3. PoolTypes'
    BY <1>33, TypeParts DEF StoreClone, poolVars, PoolTypes
  <2>4. vcpu[t] \in Slot
    BY <1>33, TypeParts DEF StoreClone, Transition, PcTypes
  <2>5. CloneAnswer(ret[t]) \in Int
    BY TypeParts DEF LocalTypes, CloneAnswer
  <2>6. param' \in [Slot -> Block]
    <3>1. param \in [Slot -> Block]
      BY TypeParts DEF CpuTypes
    <3>2. param' = [param EXCEPT ![vcpu[t]].a0 = CloneAnswer(ret[t]), ![vcpu[t]].by = NoThread]
      BY <1>33 DEF StoreClone
    <3>3. QED
      BY <2>4, <2>5, <3>1, <3>2, BlockAnswer
  <2>7. CpuTypes'
    BY <1>33, <2>6, TypeParts DEF StoreClone, CpuTypes
  <2>8. QED
    BY <2>1, <2>2, <2>3, <2>7, TypeParts
<1>34. QED
  BY <1>0, <1>1, <1>2, <1>3, <1>4, <1>5, <1>6, <1>7, <1>8, <1>9, <1>10, <1>11,
      <1>12, <1>13, <1>14, <1>15, <1>16, <1>17, <1>18, <1>19, <1>20, <1>21,
      <1>22, <1>23, <1>24, <1>25, <1>26, <1>27, <1>28, <1>29, <1>30, <1>31,
      <1>32, <1>33
  DEF AnyNext, Next, GuestStep, LoopStep, FreeStep, AllocStep, CloneStep, Finished

\* Type correctness.
THEOREM TypeCorrect == Spec => []TypeOK
<1>1. TypeOK /\ [Next]_vars => TypeOK'
  BY TypeStep, NextIsAny
<1>2. QED
  BY <1>1, TypeInit, PTL DEF Spec

-----------------------------------------------------------------------------
(* Safety of vcpu_pool.                                                  *)

PoolParts ==
  /\ PoolMutex /\ CSLocked /\ VcpuReady /\ SetUpStage
  /\ SetUpClaimed /\ SetUpOwned /\ CreatedKnown /\ CreateOnce /\ PoolPublished

\* The initial state satisfies PoolInv.
LEMMA PoolInit == Init => PoolInv
<1> SUFFICES ASSUME Init PROVE PoolInv
  OBVIOUS
<1>1. TypeOK
  BY TypeInit
<1>2. PoolParts
  BY VcpusAssumption
  DEF Init, Slot, NoSlot, PoolParts, PoolMutex, CSLocked, VcpuReady,
      SetUpStage, SetUpClaimed, SetUpOwned,
      CreatedKnown, CreateOnce, PoolPublished, InCS, Holds, FreeCS, AllocCS
<1>3. QED
  BY <1>1, <1>2 DEF PoolInv, PoolParts

\* A step of t outside the pool: it ends at a label x that the invariant does
\* not mention, and touches nothing the pool is made of.
LEMMA PoolQuiet ==
  ASSUME PoolInv, NEW t \in Thread, NEW x,
         pc' = [pc EXCEPT ![t] = x], x \notin FreeCS \union AllocCS \union SetUp,
         UNCHANGED <<lock, valid, ptr, created, vcpu, child>>
  PROVE  PoolParts'
  BY DEF PoolInv, TypeOK, PoolParts, SetUp,
      PoolMutex, CSLocked, VcpuReady, SetUpStage, SetUpClaimed, SetUpOwned,
      CreatedKnown, CreateOnce, PoolPublished, InCS, Holds, FreeCS, AllocCS

\* The end of tasks leaves the pool as it is, and makes demands on nobody.
LEMMA PoolEnd ==
  ASSUME PoolInv, NEW S, S \subseteq Thread, End(S)
  PROVE  PoolParts'
  BY DEF End, poolVars, NoSlot, Slot, PoolInv, TypeOK, PoolParts,
      PoolMutex, CSLocked, VcpuReady, SetUpStage, SetUpClaimed, SetUpOwned,
      CreatedKnown, CreateOnce, PoolPublished, InCS, Holds, FreeCS, AllocCS

\* Every step keeps PoolInv.
LEMMA PoolStep == PoolInv /\ [AnyNext]_vars => PoolInv'
<1> SUFFICES ASSUME PoolInv, [AnyNext]_vars PROVE PoolParts'
  BY TypeStep DEF PoolInv, PoolParts
<1>t. TypeOK /\ TypeOK'
  BY TypeStep DEF PoolInv
<1>0. CASE UNCHANGED vars
  BY <1>0 DEF vars, poolVars, hostVars, PoolInv, PoolParts,
      PoolMutex, CSLocked, VcpuReady, SetUpStage, SetUpClaimed, SetUpOwned,
      CreatedKnown, CreateOnce, PoolPublished, InCS, Holds, FreeCS, AllocCS
<1>1. ASSUME NEW t \in Thread, NEW k \in AllCalls, GuestSyscall(t, k) PROVE PoolParts'
  BY <1>1, PoolQuiet DEF GuestSyscall, Transition, poolVars, FreeCS, AllocCS,
      SetUp
<1>2. ASSUME NEW t \in Thread, GuestInterrupted(t) PROVE PoolParts'
  BY <1>2, PoolQuiet DEF GuestInterrupted, Transition, poolVars, FreeCS,
      AllocCS, SetUp
<1>3. ASSUME NEW t \in Thread, GuestFault(t) PROVE PoolParts'
  BY <1>3, PoolQuiet DEF GuestFault, Transition, poolVars, FreeCS, AllocCS,
      SetUp
<1>4. ASSUME NEW t \in Thread, KvmRun(t) PROVE PoolParts'
  BY <1>4, PoolQuiet DEF KvmRun, Transition, poolVars, FreeCS, AllocCS, SetUp
<1>5. ASSUME NEW t \in Thread, ReadSysno(t) PROVE PoolParts'
  BY <1>5, PoolQuiet DEF ReadSysno, Transition, poolVars, FreeCS, AllocCS, SetUp
<1>6. ASSUME NEW t \in Thread, DispatchIntr(t) PROVE PoolParts'
  BY <1>6, PoolQuiet DEF DispatchIntr, Transition, poolVars, FreeCS, AllocCS,
      SetUp
<1>7. ASSUME NEW t \in Thread, DispatchSyscall(t) PROVE PoolParts'
  BY <1>7, PoolQuiet DEF DispatchSyscall, Transition, poolVars, FreeCS,
      AllocCS, SetUp, Entry
<1>8. ASSUME NEW t \in Thread, LoadNr(t) PROVE PoolParts'
  BY <1>8, PoolQuiet DEF LoadNr, Transition, poolVars, FreeCS, AllocCS, SetUp
<1>9. ASSUME NEW t \in Thread, LoadArgs(t) PROVE PoolParts'
  BY <1>9, PoolQuiet DEF LoadArgs, Transition, poolVars, FreeCS, AllocCS, SetUp
<1>10. ASSUME NEW t \in Thread, NEW r \in Answers(req[t].nr),
              SyscallAnswered(t, r)
       PROVE  PoolParts'
  BY <1>10, PoolQuiet DEF SyscallAnswered, Transition, poolVars, FreeCS,
      AllocCS, SetUp
<1>11. ASSUME NEW t \in Thread, StoreRet(t) PROVE PoolParts'
  BY <1>11, PoolQuiet DEF StoreRet, Transition, poolVars, FreeCS, AllocCS, SetUp
<1>12. ASSUME NEW t \in Thread, StoreClone(t) PROVE PoolParts'
  BY <1>12, PoolQuiet DEF StoreClone, Transition, poolVars, FreeCS, AllocCS,
      SetUp
<1>13. ASSUME NEW t \in Thread, DispatchDie(t) PROVE PoolParts'
  BY <1>13, PoolEnd DEF DispatchDie, Die, Group, Live
<1>14. ASSUME NEW t \in Thread, SyscallExit(t) PROVE PoolParts'
  BY <1>14, PoolEnd DEF SyscallExit
<1>15. ASSUME NEW t \in Thread, SyscallEndsGroup(t) PROVE PoolParts'
  BY <1>15, PoolEnd DEF SyscallEndsGroup, Group, Live
<1>16. ASSUME NEW t \in Thread, FreeAbort(t) PROVE PoolParts'
  BY <1>16, PoolEnd DEF FreeAbort, Die, Group, Live
<1>17. ASSUME NEW t \in Thread, NoMoreVcpu(t) PROVE PoolParts'
  BY <1>17, PoolEnd DEF NoMoreVcpu, Die, Group, Live
<1>18. ASSUME NEW t \in Thread, SetUpFails(t) PROVE PoolParts'
  BY <1>18, PoolEnd DEF SetUpFails, Die, Group, Live
<1>19. ASSUME NEW t \in Thread, SysCloneGarbled(t) PROVE PoolParts'
  BY <1>19, PoolEnd DEF SysCloneGarbled, Die, Group, Live
<1>20. ASSUME NEW t \in Thread, GuestReturn(t) PROVE PoolParts'
  BY <1>20, <1>t DEF GuestReturn, Transition, poolVars, hostVars, Slot,
      NoSlot, TypeOK, SetUp,
      PoolInv, PoolParts, PoolMutex, CSLocked, VcpuReady, SetUpStage, SetUpClaimed, SetUpOwned,
      CreatedKnown, CreateOnce, PoolPublished, InCS, Holds, FreeCS, AllocCS
<1>21. ASSUME NEW t \in Thread, FreeLock(t) PROVE PoolParts'
  BY <1>21, <1>t DEF FreeLock, Acquire, Transition, poolVars, hostVars, Slot,
      NoSlot, TypeOK, SetUp,
      PoolInv, PoolParts, PoolMutex, CSLocked, VcpuReady, SetUpStage, SetUpClaimed, SetUpOwned,
      CreatedKnown, CreateOnce, PoolPublished, InCS, Holds, FreeCS, AllocCS
<1>22. ASSUME NEW t \in Thread, FreeClear(t) PROVE PoolParts'
  BY <1>22, <1>t DEF FreeClear, Transition, poolVars, hostVars, Slot, NoSlot,
      TypeOK, SetUp,
      PoolInv, PoolParts, PoolMutex, CSLocked, VcpuReady, SetUpStage, SetUpClaimed, SetUpOwned,
      CreatedKnown, CreateOnce, PoolPublished, InCS, Holds, FreeCS, AllocCS
<1>23. ASSUME NEW t \in Thread, FreeUnlock(t) PROVE PoolParts'
  BY <1>23, <1>t DEF FreeUnlock, Release, Transition, poolVars, hostVars,
      Slot, NoSlot, TypeOK, SetUp,
      PoolInv, PoolParts, PoolMutex, CSLocked, VcpuReady, SetUpStage, SetUpClaimed, SetUpOwned,
      CreatedKnown, CreateOnce, PoolPublished, InCS, Holds, FreeCS, AllocCS
<1>24. ASSUME NEW t \in Thread, AllocLock(t) PROVE PoolParts'
  BY <1>24, <1>t DEF AllocLock, Acquire, Transition, poolVars, hostVars, Slot,
      NoSlot, TypeOK, SetUp,
      PoolInv, PoolParts, PoolMutex, CSLocked, VcpuReady, SetUpStage, SetUpClaimed, SetUpOwned,
      CreatedKnown, CreateOnce, PoolPublished, InCS, Holds, FreeCS, AllocCS
<1>25. ASSUME NEW t \in Thread, NEW s \in Slot, AllocTake(t, s) PROVE PoolParts'
  BY <1>25, <1>t DEF AllocTake, FirstFree, Transition, poolVars, hostVars,
      Slot, NoSlot, TypeOK, SetUp,
      PoolInv, PoolParts, PoolMutex, CSLocked, VcpuReady, SetUpStage, SetUpClaimed, SetUpOwned,
      CreatedKnown, CreateOnce, PoolPublished, InCS, Holds, FreeCS, AllocCS
<1>26. ASSUME NEW t \in Thread, AllocNone(t) PROVE PoolParts'
  BY <1>26, <1>t DEF AllocNone, Transition, poolVars, hostVars, Slot, NoSlot,
      TypeOK, SetUp,
      PoolInv, PoolParts, PoolMutex, CSLocked, VcpuReady, SetUpStage, SetUpClaimed, SetUpOwned,
      CreatedKnown, CreateOnce, PoolPublished, InCS, Holds, FreeCS, AllocCS
<1>27. ASSUME NEW t \in Thread, AllocUnlock(t) PROVE PoolParts'
  BY <1>27, <1>t DEF AllocUnlock, Release, AfterScan, Transition, poolVars,
      hostVars, Slot, NoSlot, TypeOK, SetUp,
      PoolInv, PoolParts, PoolMutex, CSLocked, VcpuReady, SetUpStage, SetUpClaimed, SetUpOwned,
      CreatedKnown, CreateOnce, PoolPublished, InCS, Holds, FreeCS, AllocCS
<1>28. ASSUME NEW t \in Thread, Calloc(t) PROVE PoolParts'
  BY <1>28, <1>t DEF Calloc, Transition, poolVars, hostVars, Slot, NoSlot,
      TypeOK, SetUp,
      PoolInv, PoolParts, PoolMutex, CSLocked, VcpuReady, SetUpStage, SetUpClaimed, SetUpOwned,
      CreatedKnown, CreateOnce, PoolPublished, InCS, Holds, FreeCS, AllocCS
<1>29. ASSUME NEW t \in Thread, CreateVcpu(t) PROVE PoolParts'
  BY <1>29, <1>t DEF CreateVcpu, Transition, poolVars, hostVars, Slot, NoSlot,
      TypeOK, SetUp,
      PoolInv, PoolParts, PoolMutex, CSLocked, VcpuReady, SetUpStage, SetUpClaimed, SetUpOwned,
      CreatedKnown, CreateOnce, PoolPublished, InCS, Holds, FreeCS, AllocCS
<1>30. ASSUME NEW t \in Thread, MmapRun(t) PROVE PoolParts'
  BY <1>30, <1>t, SMTT(30) DEF MmapRun, Transition, poolVars, hostVars, Slot, NoSlot,
      TypeOK, SetUp,
      PoolInv, PoolParts, PoolMutex, CSLocked, VcpuReady, SetUpStage, SetUpClaimed, SetUpOwned,
      CreatedKnown, CreateOnce, PoolPublished, InCS, Holds, FreeCS, AllocCS
<1>31. ASSUME NEW t \in Thread, InitChild(t) PROVE PoolParts'
  BY <1>31, <1>t DEF InitChild, Transition, poolVars, hostVars, Slot, NoSlot,
      TypeOK, SetUp,
      PoolInv, PoolParts, PoolMutex, CSLocked, VcpuReady, SetUpStage, SetUpClaimed, SetUpOwned,
      CreatedKnown, CreateOnce, PoolPublished, InCS, Holds, FreeCS, AllocCS
<1>32. ASSUME NEW t \in Thread, NEW u \in Thread, SysClone(t, u) PROVE PoolParts'
  <2>1. /\ pc[t] = "clone" /\ pc[u] = "none" /\ t # u
        /\ child[t] \in Slot /\ child[u] \notin Slot /\ vcpu[u] = NoSlot
    BY <1>32, <1>t DEF SysClone, Unused, Live, TypeOK, SetUp
  <2>2. /\ pc'[t] = "store_clone" /\ pc'[u] = "run"
        /\ child'[t] = NoSlot /\ child'[u] = child[u]
        /\ vcpu'[t] = vcpu[t] /\ vcpu'[u] = child[t]
        /\ UNCHANGED <<lock, valid, ptr, created>>
    BY <1>32, <1>t, <2>1 DEF SysClone, TypeOK, poolVars
  <2>3. \A w \in Thread \ {t, u} :
          pc'[w] = pc[w] /\ child'[w] = child[w] /\ vcpu'[w] = vcpu[w]
    BY <1>32, <1>t DEF SysClone, TypeOK
  <2>4. ptr[child[t]] = "ready"
    BY <2>1 DEF PoolInv, SetUpStage
  <2>5. \A w \in Thread : Holds(w)' => w \notin {t, u} /\ Holds(w)
    BY <2>1, <2>2, <2>3 DEF Holds, Slot, NoSlot
  <2>6. \A w \in Thread : InCS(w)' => w \notin {t, u} /\ InCS(w)
    BY <2>2, <2>3 DEF InCS, FreeCS, AllocCS
  <2>7. (PoolMutex /\ CSLocked)'
    BY <2>2, <2>3, <2>6 DEF PoolInv, PoolMutex, CSLocked, InCS
  <2>8. VcpuReady'
    BY <2>1, <2>2, <2>3, <2>4 DEF PoolInv, VcpuReady
  <2>9. SetUpStage'
    BY <2>2, <2>3, <2>5 DEF PoolInv, SetUpStage
  <2>10. (SetUpClaimed /\ SetUpOwned)'
    <3>1. \A w \in Thread : Holds(w)' => Holds(w) /\ child'[w] = child[w]
      BY <2>3, <2>5
    <3>2. /\ SetUpClaimed /\ SetUpOwned /\ ptr' = ptr /\ valid' = valid
          /\ \A w \in Thread : Holds(w) <=> child[w] \in Slot
          /\ \A w \in Thread : Holds(w)' <=> child'[w] \in Slot
      BY <2>2 DEF PoolInv, Holds
    <3>3. SetUpClaimed'
      BY <3>1, <3>2 DEF SetUpClaimed
    <3>4. SetUpOwned'
      BY <3>1, <3>2 DEF SetUpOwned
    <3>5. QED
      BY <3>3, <3>4
  <2>11. (CreatedKnown /\ CreateOnce /\ PoolPublished)'
    BY <2>2, <2>3 DEF PoolInv, CreatedKnown, CreateOnce, PoolPublished
  <2>12. QED
    BY <2>7, <2>8, <2>9, <2>10, <2>11 DEF PoolParts
<1>33. ASSUME NEW t \in Thread,
              (\E e \in CloneErrno : SysCloneFails(t, e))
                \/ \E u \in Thread : SysCloneLost(t, u)
       PROVE  PoolParts'
  <2>1. /\ pc[t] = "clone" /\ pc' = [pc EXCEPT ![t] = "store_clone"]
        /\ child' = [child EXCEPT ![t] = NoSlot]
        /\ UNCHANGED <<vcpu, lock, valid, ptr, created>>
    BY <1>33 DEF SysCloneFails, SysCloneLost, Transition, poolVars
  <2>2. QED
    BY <2>1, <1>t DEF Slot, NoSlot, TypeOK, SetUp, PoolInv, PoolParts, PoolMutex, CSLocked,
        VcpuReady, SetUpStage, SetUpClaimed, SetUpOwned, CreatedKnown, CreateOnce,
        PoolPublished, InCS, Holds, FreeCS, AllocCS
<1>34. QED
  BY <1>0, <1>1, <1>2, <1>3, <1>4, <1>5, <1>6, <1>7, <1>8, <1>9, <1>10, <1>11,
      <1>12, <1>13, <1>14, <1>15, <1>16, <1>17, <1>18, <1>19, <1>20, <1>21,
      <1>22, <1>23, <1>24, <1>25, <1>26, <1>27, <1>28, <1>29, <1>30, <1>31,
      <1>32, <1>33, CallsAssumption
  DEF AnyNext, Next, GuestStep, LoopStep, FreeStep, AllocStep, CloneStep, Finished

\* PoolInv holds in every reachable state.
THEOREM PoolInvariant == Spec => []PoolInv
<1>1. PoolInv /\ [Next]_vars => PoolInv'
  BY PoolStep, NextIsAny
<1>2. QED
  BY <1>1, PoolInit, PTL DEF Spec

\* No two tasks are between lock and unlock of vcpu_pool.
THEOREM MutexHolds == Spec => []PoolMutex
<1>1. PoolInv => PoolMutex
  BY DEF PoolInv
<1>2. QED
  BY <1>1, PoolInvariant, PTL

\* KVM_CREATE_VCPU is never called with an id KVM knows.
THEOREM CreateOnceHolds == Spec => []CreateOnce
<1>1. PoolInv => CreateOnce
  BY DEF PoolInv
<1>2. QED
  BY <1>1, PoolInvariant, PTL

\* A free slot never holds a vcpu that is half set up.
THEOREM PoolPublishedHolds == Spec => []PoolPublished
<1>1. PoolInv => PoolPublished
  BY DEF PoolInv
<1>2. QED
  BY <1>1, PoolInvariant, PTL

\* The pool's critical section excludes, KVM never sees a vcpu id twice, and
\* no scan of vcpu_pool can pick a vcpu that is half set up.
THEOREM PoolSafe == Spec => [](PoolMutex /\ CreateOnce /\ PoolPublished)
  BY MutexHolds, CreateOnceHolds, PoolPublishedHolds, PTL

-----------------------------------------------------------------------------
(* One process alone never hangs on the pool's lock.                       *)

\* Without CLONE_VM clones of whole processes the tasks are one thread group,
\* which lives or dies as a whole.
OneGroup ==
  "clone_process" \notin Calls \union Flags =>
    /\ \A s \in Slot : param[s].nr # "clone_process"
    /\ \A t, u \in Live : grp[t] = grp[u]

GroupInv == PoolInv /\ OneGroup /\ LockOwned

\* The initial state satisfies GroupInv.
LEMMA GroupInit == Init => GroupInv
  BY PoolInit DEF Init, GroupInv, OneGroup, LockOwned, Live

\* A group that dies is all there is.
LEMMA GroupEnd ==
  ASSUME GroupInv, NEW t \in Live, End(Group(t))
  PROVE  OneGroup' /\ LockOwned'
<1>1. /\ Live \subseteq Thread /\ Group(t) \subseteq Live
      /\ \A u \in Thread : pc'[u] = IF u \in Group(t) THEN "none" ELSE pc[u]
      /\ \A u \in Thread : u \notin Group(t) => grp'[u] = grp[u]
      /\ UNCHANGED <<param, lock>>
  BY DEF Live, Group, End, poolVars, cpuVars
<1>2. Live' \subseteq Live /\ \A u \in Live' : u \notin Group(t)
  BY <1>1 DEF Live
<1>3. OneGroup'
  BY <1>1, <1>2 DEF GroupInv, OneGroup
<1>4. "clone_process" \notin Calls \union Flags => Live' = {}
  BY <1>1, <1>2 DEF GroupInv, OneGroup, Group
<1>5. QED
  BY <1>3, <1>4 DEF LockOwned

\* A task moves on, and keeps the lock if it holds it.
LEMMA GroupMove ==
  ASSUME GroupInv, NEW t \in Thread, NEW x, pc[t] # "none", x # "none",
         pc' = [pc EXCEPT ![t] = x], UNCHANGED <<grp, lock>>,
         InCS(t) => x \in FreeCS \union AllocCS,
         \A s \in Slot : param'[s].nr \in {param[s].nr} \union Calls
  PROVE  OneGroup' /\ LockOwned'
<1>1. /\ Live' = Live /\ t \in Live /\ pc'[t] = x
      /\ \A u \in Thread \ {t} : pc'[u] = pc[u]
  BY DEF GroupInv, PoolInv, TypeOK, Live
<1>2. OneGroup'
  BY <1>1 DEF GroupInv, OneGroup
<1>3. LockOwned'
  BY <1>1 DEF GroupInv, LockOwned, InCS, Live
<1>4. QED
  BY <1>2, <1>3

\* Every step keeps GroupInv.
LEMMA GroupStep == GroupInv /\ [Next]_vars => GroupInv'
<1> SUFFICES ASSUME GroupInv, [Next]_vars PROVE OneGroup' /\ LockOwned'
  BY PoolStep, NextIsAny DEF GroupInv
<1>t. TypeOK
  BY DEF GroupInv, PoolInv
<1>s. \A t \in Live : t \in Thread /\ vcpu[t] \in Slot
  BY <1>t DEF TypeOK, Live
<1>0. CASE UNCHANGED vars
  BY <1>0 DEF vars, poolVars, hostVars, cpuVars, GroupInv, OneGroup, LockOwned, Live
<1>1. ASSUME NEW t \in Thread,
             DispatchDie(t) \/ SyscallEndsGroup(t) \/ FreeAbort(t) \/ NoMoreVcpu(t)
               \/ SetUpFails(t) \/ SysCloneGarbled(t)
      PROVE  OneGroup' /\ LockOwned'
  <2>1. t \in Live /\ End(Group(t))
    BY <1>1 DEF DispatchDie, SyscallEndsGroup, FreeAbort, NoMoreVcpu, SetUpFails,
        SysCloneGarbled, Die, Live
  <2>2. QED
    BY <2>1, GroupEnd
<1>2. ASSUME NEW t \in Thread, SyscallExit(t) PROVE OneGroup' /\ LockOwned'
  <2>1. /\ pc[t] = "syscall" /\ pc'[t] = "none"
        /\ \A u \in Thread \ {t} : pc'[u] = pc[u] /\ grp'[u] = grp[u]
        /\ UNCHANGED <<param, lock>>
    BY <1>2 DEF SyscallExit, End, poolVars, cpuVars
  <2>2. Live' = Live \ {t}
    BY <2>1 DEF Live
  <2>3. OneGroup'
    BY <2>1, <2>2, <1>s DEF GroupInv, OneGroup
  <2>4. LockOwned'
    BY <2>1, <2>2, <1>s DEF GroupInv, LockOwned, FreeCS, AllocCS
  <2>5. QED
    BY <2>3, <2>4
<1>3. ASSUME NEW t \in Thread, NEW u \in Thread, SysClone(t, u)
      PROVE  OneGroup' /\ LockOwned'
  <2>1. /\ pc[t] = "clone" /\ t \in Live /\ u \notin Live /\ Live' = Live \union {u}
        /\ \A w \in Live \ {t} : pc'[w] = pc[w]
        /\ \A w \in Live : grp'[w] = grp[w]
        /\ \E k \in CloneFlags(vcpu[t]) : grp'[u] = IF k = "clone_thread" THEN grp[t] ELSE u
        /\ UNCHANGED <<param, lock>>
    BY <1>3, <1>t DEF SysClone, Unused, Live, TypeOK, poolVars
  <2>2. OneGroup'
    <3>1. SUFFICES ASSUME "clone_process" \notin Calls \union Flags
                   PROVE  /\ \A s \in Slot : param'[s].nr # "clone_process"
                          /\ \A v, w \in Live' : grp'[v] = grp'[w]
      BY DEF OneGroup
    <3>2. CloneFlags(vcpu[t]) \subseteq {"clone_thread"}
      BY <2>1, <3>1, <1>s, CallsAssumption
      DEF GroupInv, OneGroup, CloneFlags, FlagsIntact, Clones
    <3>3. grp'[u] = grp[t]
      BY <2>1, <3>2
    <3>4. QED
      BY <2>1, <3>1, <3>3 DEF GroupInv, OneGroup
  <2>3. LockOwned'
    BY <2>1 DEF GroupInv, LockOwned, FreeCS, AllocCS
  <2>4. QED
    BY <2>2, <2>3
<1>4. ASSUME NEW t \in Thread, FreeLock(t) \/ AllocLock(t) PROVE OneGroup' /\ LockOwned'
  <2>1. /\ pc[t] # "none" /\ pc'[t] \in FreeCS \union AllocCS
        /\ \A u \in Thread \ {t} : pc'[u] = pc[u]
        /\ UNCHANGED <<grp, param>>
    BY <1>4, <1>t DEF FreeLock, AllocLock, Acquire, Transition, TypeOK, FreeCS, AllocCS,
        cpuVars
  <2>2. t \in Live /\ Live' = Live
    BY <2>1 DEF Live, FreeCS, AllocCS
  <2>3. OneGroup'
    BY <2>1, <2>2 DEF GroupInv, OneGroup
  <2>4. LockOwned'
    BY <2>1, <2>2 DEF LockOwned
  <2>5. QED
    BY <2>3, <2>4
<1>5. ASSUME NEW t \in Thread, FreeUnlock(t) \/ AllocUnlock(t) PROVE OneGroup' /\ LockOwned'
  <2>1. lock' = FALSE /\ UNCHANGED <<grp, param>>
    BY <1>5 DEF FreeUnlock, AllocUnlock, Release, cpuVars
  <2>2. Live' = Live
    BY <1>5, <1>t DEF FreeUnlock, AllocUnlock, Release, Transition, AfterScan, TypeOK, Live
  <2>3. OneGroup'
    BY <2>1, <2>2 DEF GroupInv, OneGroup
  <2>4. QED
    BY <2>1, <2>3 DEF LockOwned
<1>6. ASSUME NEW t \in Thread, NEW k \in Calls, GuestSyscall(t, k)
      PROVE  OneGroup' /\ LockOwned'
  <2>1. /\ pc[t] = "guest" /\ pc' = [pc EXCEPT ![t] = "exited"]
        /\ UNCHANGED <<grp, lock>>
        /\ param' = [param EXCEPT ![vcpu[t]].nr = k, ![vcpu[t]].by = who[vcpu[t]]]
    BY <1>6 DEF GuestSyscall, Transition, poolVars
  <2>2. \A s \in Slot : param'[s].nr \in {param[s].nr} \union Calls
    BY <2>1, <1>t DEF TypeOK, Block
  <2>3. QED
    BY <2>1, <2>2, GroupMove DEF InCS, FreeCS, AllocCS
<1>7. ASSUME NEW t \in Thread, StoreRet(t) \/ StoreClone(t) PROVE OneGroup' /\ LockOwned'
  <2>1. /\ pc[t] \in {"store", "store_clone"} /\ pc' = [pc EXCEPT ![t] = "run"]
        /\ UNCHANGED <<grp, lock>>
        /\ \E r : param' = [param EXCEPT ![vcpu[t]].a0 = r, ![vcpu[t]].by = NoThread]
    BY <1>7 DEF StoreRet, StoreClone, Transition, poolVars
  <2>2. \A s \in Slot : param'[s].nr \in {param[s].nr} \union Calls
    BY <2>1, <1>t DEF TypeOK, Block
  <2>3. QED
    BY <2>1, <2>2, GroupMove DEF InCS, FreeCS, AllocCS
<1>8. ASSUME NEW t \in Thread, GuestReturn(t) PROVE OneGroup' /\ LockOwned'
  BY <1>8 DEF GuestReturn, hostVars, poolVars, GroupInv, OneGroup, LockOwned, Live
\* The other steps move the task alone, within the section or outside it.
<1>9. ASSUME NEW t \in Thread,
             GuestInterrupted(t) \/ GuestFault(t) \/ KvmRun(t) \/ ReadSysno(t)
               \/ DispatchIntr(t) \/ DispatchSyscall(t) \/ LoadNr(t) \/ LoadArgs(t)
               \/ (\E r \in Answers(req[t].nr) : SyscallAnswered(t, r))
               \/ FreeClear(t) \/ (\E s \in Slot : AllocTake(t, s)) \/ AllocNone(t)
               \/ Calloc(t) \/ CreateVcpu(t) \/ MmapRun(t) \/ InitChild(t)
               \/ (\E e \in CloneErrno : SysCloneFails(t, e))
               \/ \E u \in Thread : SysCloneLost(t, u)
      PROVE  OneGroup' /\ LockOwned'
  <2>1. UNCHANGED <<grp, lock, param>>
    BY <1>9 DEF GuestInterrupted, GuestFault, KvmRun, ReadSysno, DispatchIntr,
        DispatchSyscall, LoadNr, LoadArgs, SyscallAnswered, FreeClear, AllocTake, AllocNone,
        Calloc, CreateVcpu, MmapRun, InitChild, SysCloneFails, SysCloneLost, poolVars, cpuVars
  <2>2. PICK x \in Labels \ {"none"} :
          /\ pc' = [pc EXCEPT ![t] = x] /\ pc[t] # "none"
          /\ InCS(t) => x \in FreeCS \union AllocCS
    BY <1>9 DEF GuestInterrupted, GuestFault, KvmRun, ReadSysno, DispatchIntr,
        DispatchSyscall, Entry, LoadNr, LoadArgs, SyscallAnswered, FreeClear, AllocTake,
        AllocNone, Calloc, CreateVcpu, MmapRun, InitChild, SysCloneFails, SysCloneLost,
        Transition, Labels, InCS, FreeCS, AllocCS
  <2>3. QED
    BY <2>1, <2>2, GroupMove
<1>10. QED
  BY <1>0, <1>1, <1>2, <1>3, <1>4, <1>5, <1>6, <1>7, <1>8, <1>9
  DEF Next, GuestStep, LoopStep, FreeStep, AllocStep, CloneStep, Finished

\* The lock is never left behind: while one process runs the VM, whoever waits
\* for the lock waits for a task that lives.
THEOREM LockOwnedHolds == Spec => []LockOwned
<1>1. GroupInv => LockOwned
  BY DEF GroupInv
<1>2. QED
  BY <1>1, GroupInit, GroupStep, PTL DEF Spec

-----------------------------------------------------------------------------
(* When exits are prompt every vcpu is one guest thread, the assertion of   *)
(* kvm_free_vcpu holds, and a host task performs exactly the call its own   *)
(* guest thread made.                                                       *)

(* The vcpus of different tasks are different.                             *)

\* A vcpu being set up is claimed and nobody runs it.
ChildApart ==
  \A t, u \in Thread : Holds(t) => valid[child[t]] /\ vcpu[u] # child[t]

\* A vcpu is set up for one clone at a time.
ChildOwned ==
  \A t, u \in Thread : Holds(t) /\ child[t] = child[u] => t = u

VcpuParts == OneThreadPerVcpu /\ ChildApart /\ ChildOwned
VcpuInv   == TypeOK /\ VcpuParts

\* The initial state satisfies VcpuInv.
LEMMA VcpuInit == Init => VcpuInv
  BY TypeInit DEF Init, VcpuInv, VcpuParts, Slot, NoSlot, OneThreadPerVcpu,
      ChildApart, ChildOwned, Holds, Live

\* A step that moves t between labels of a live task changes no vcpu.
LEMMA VcpuQuiet ==
  ASSUME VcpuInv, NEW t \in Thread, NEW x, pc[t] # "none", x # "none",
         pc' = [pc EXCEPT ![t] = x], UNCHANGED <<valid, vcpu, child>>
  PROVE  VcpuParts'
  BY DEF VcpuInv, TypeOK, VcpuParts, OneThreadPerVcpu, ChildApart, ChildOwned,
      Holds, Live

\* Tasks that end, exit or crash, leave VcpuInv true.
LEMMA VcpuEnd ==
  ASSUME VcpuInv, NEW S, S \subseteq Thread, End(S)
  PROVE  VcpuParts'
  BY DEF End, poolVars, NoSlot, Slot, VcpuInv, TypeOK, VcpuParts,
      OneThreadPerVcpu, ChildApart, ChildOwned, Holds, Live

\* Every prompt step keeps VcpuInv.
LEMMA VcpuStep == PromptExit /\ VcpuInv /\ [AnyNext]_vars => VcpuInv'
<1> SUFFICES ASSUME PromptExit, VcpuInv, [AnyNext]_vars PROVE VcpuParts'
  BY TypeStep DEF VcpuInv
<1>t. TypeOK /\ TypeOK'
  BY TypeStep DEF VcpuInv
<1>0. CASE UNCHANGED vars
  BY <1>0 DEF vars, poolVars, hostVars, VcpuInv, VcpuParts, OneThreadPerVcpu,
      ChildApart, ChildOwned, Holds, Live
<1>1. ASSUME NEW t \in Thread, NEW k \in AllCalls, GuestSyscall(t, k) PROVE VcpuParts'
  BY <1>1, VcpuQuiet DEF GuestSyscall, Transition, poolVars
<1>2. ASSUME NEW t \in Thread, GuestInterrupted(t) PROVE VcpuParts'
  BY <1>2, VcpuQuiet DEF GuestInterrupted, Transition, poolVars
<1>3. ASSUME NEW t \in Thread, GuestFault(t) PROVE VcpuParts'
  BY <1>3, VcpuQuiet DEF GuestFault, Transition, poolVars
<1>4. ASSUME NEW t \in Thread, KvmRun(t) PROVE VcpuParts'
  BY <1>4, VcpuQuiet DEF KvmRun, Transition, poolVars
<1>5. ASSUME NEW t \in Thread, ReadSysno(t) PROVE VcpuParts'
  BY <1>5, VcpuQuiet DEF ReadSysno, Transition, poolVars
<1>6. ASSUME NEW t \in Thread, DispatchIntr(t) PROVE VcpuParts'
  BY <1>6, VcpuQuiet DEF DispatchIntr, Transition, poolVars
<1>7. ASSUME NEW t \in Thread, DispatchSyscall(t) PROVE VcpuParts'
  BY <1>7, VcpuQuiet DEF DispatchSyscall, Entry, Transition, poolVars
<1>8. ASSUME NEW t \in Thread, LoadNr(t) PROVE VcpuParts'
  BY <1>8, VcpuQuiet DEF LoadNr, Transition, poolVars
<1>9. ASSUME NEW t \in Thread, LoadArgs(t) PROVE VcpuParts'
  BY <1>9, VcpuQuiet DEF LoadArgs, Transition, poolVars
<1>10. ASSUME NEW t \in Thread, NEW r \in Answers(req[t].nr),
              SyscallAnswered(t, r)
       PROVE  VcpuParts'
  BY <1>10, VcpuQuiet DEF SyscallAnswered, Transition, poolVars
<1>11. ASSUME NEW t \in Thread, StoreRet(t) PROVE VcpuParts'
  BY <1>11, VcpuQuiet DEF StoreRet, Transition, poolVars
<1>12. ASSUME NEW t \in Thread, StoreClone(t) PROVE VcpuParts'
  BY <1>12, VcpuQuiet DEF StoreClone, CloneAnswer, Transition, poolVars
<1>13. ASSUME NEW t \in Thread, FreeLock(t) PROVE VcpuParts'
  BY <1>13, VcpuQuiet DEF FreeLock, Acquire, Transition, poolVars
<1>14. ASSUME NEW t \in Thread, FreeUnlock(t) PROVE VcpuParts'
  BY <1>14, VcpuQuiet DEF FreeUnlock, Release, Transition, poolVars
<1>15. ASSUME NEW t \in Thread, AllocLock(t) PROVE VcpuParts'
  BY <1>15, VcpuQuiet DEF AllocLock, Acquire, Transition, poolVars
<1>16. ASSUME NEW t \in Thread, AllocNone(t) PROVE VcpuParts'
  BY <1>16, VcpuQuiet DEF AllocNone, Transition, poolVars
<1>17. ASSUME NEW t \in Thread, AllocUnlock(t) PROVE VcpuParts'
  BY <1>17, VcpuQuiet DEF AllocUnlock, Release, AfterScan, Transition, poolVars
<1>18. ASSUME NEW t \in Thread, Calloc(t) PROVE VcpuParts'
  BY <1>18, VcpuQuiet DEF Calloc, Transition, poolVars
<1>19. ASSUME NEW t \in Thread, CreateVcpu(t) PROVE VcpuParts'
  BY <1>19, VcpuQuiet DEF CreateVcpu, Transition, poolVars
<1>20. ASSUME NEW t \in Thread, MmapRun(t) PROVE VcpuParts'
  BY <1>20, VcpuQuiet DEF MmapRun, Transition, poolVars
<1>21. ASSUME NEW t \in Thread, InitChild(t) PROVE VcpuParts'
  BY <1>21, VcpuQuiet DEF InitChild, Transition, poolVars
<1>22. ASSUME NEW t \in Thread, DispatchDie(t) PROVE VcpuParts'
  BY <1>22, VcpuEnd DEF DispatchDie, Group, Live, Die
<1>23. ASSUME NEW t \in Thread, SyscallExit(t) PROVE VcpuParts'
  BY <1>23, VcpuEnd DEF SyscallExit
<1>24. ASSUME NEW t \in Thread, SyscallEndsGroup(t) PROVE VcpuParts'
  BY <1>24, VcpuEnd DEF SyscallEndsGroup, Group, Live
<1>25. ASSUME NEW t \in Thread, FreeAbort(t) PROVE VcpuParts'
  BY <1>25, VcpuEnd DEF FreeAbort, Group, Live, Die
<1>26. ASSUME NEW t \in Thread, NoMoreVcpu(t) PROVE VcpuParts'
  BY <1>26, VcpuEnd DEF NoMoreVcpu, Group, Live, Die
<1>27. ASSUME NEW t \in Thread, SetUpFails(t) PROVE VcpuParts'
  BY <1>27, VcpuEnd DEF SetUpFails, Group, Live, Die
<1>28. ASSUME NEW t \in Thread, SysCloneGarbled(t) PROVE VcpuParts'
  BY <1>28, VcpuEnd DEF SysCloneGarbled, Group, Live, Die
<1> USE <1>t
    DEF Transition, poolVars, hostVars, Slot, NoSlot, TypeOK, SetUp,
        VcpuInv, VcpuParts, OneThreadPerVcpu, ChildApart, ChildOwned, Holds,
        Live
<1>29. ASSUME NEW t \in Thread, GuestReturn(t) PROVE VcpuParts'
  BY <1>29 DEF GuestReturn
<1>30. ASSUME NEW t \in Thread, FreeClear(t) PROVE VcpuParts'
  BY <1>30 DEF FreeClear
<1>31. ASSUME NEW t \in Thread, NEW s \in Slot, AllocTake(t, s) PROVE VcpuParts'
  BY <1>31 DEF AllocTake, FirstFree
<1>32. ASSUME NEW t \in Thread, NEW u \in Thread, SysClone(t, u) PROVE VcpuParts'
  BY <1>32 DEF SysClone, Unused
<1>33. ASSUME NEW t \in Thread,
              (\E e \in CloneErrno : SysCloneFails(t, e))
                \/ \E u \in Thread : SysCloneLost(t, u)
       PROVE  VcpuParts'
  <2>1. /\ pc[t] = "clone" /\ pc' = [pc EXCEPT ![t] = "store_clone"]
        /\ child' = [child EXCEPT ![t] = NoSlot]
        /\ UNCHANGED <<vcpu, sysno, req, poolVars, cpuVars>>
    BY <1>33 DEF SysCloneFails, SysCloneLost
  <2>2. QED
    BY <2>1
<1>34. QED
  BY <1>0, <1>1, <1>2, <1>3, <1>4, <1>5, <1>6, <1>7, <1>8, <1>9, <1>10, <1>11,
      <1>12, <1>13, <1>14, <1>15, <1>16, <1>17, <1>18, <1>19, <1>20, <1>21,
      <1>22, <1>23, <1>24, <1>25, <1>26, <1>27, <1>28, <1>29, <1>30, <1>31,
      <1>32, <1>33, CallsAssumption
  DEF AnyNext, Next, GuestStep, LoopStep, FreeStep, AllocStep, CloneStep, Finished

-----------------------------------------------------------------------------
(* A task serves the call of its own guest thread.                         *)

\* A vcpu holds the registers of the thread whose task runs it.
WhoOwns == \A t \in Live : who[vcpu[t]] = t

\* The arguments in its block are that thread's,
BlockOwned == \A t \in Thread : Pending(t) => param[vcpu[t]].by = t

\* and host_loop's sysno agrees with word 7.
SysnoKept ==
  \A t \in Thread : Pending(t) /\ pc[t] # "exited" => sysno[t] = param[vcpu[t]].nr

\* kvm_free_vcpu is called for SYS_EXIT only.
ExitPath ==
  \A t \in Thread : pc[t] \in FreeCS \union {"free_lock"} => sysno[t] = "exit"

\* What arch_do_syscall has loaded so far.
ReqLoaded ==
  \A t \in Thread :
    /\ pc[t] = "args" => req[t].nr = sysno[t]
    /\ pc[t] = "syscall" => req[t] = [nr |-> sysno[t], by |-> t]

\* A task that runs a free vcpu is on its way out.
Left(t) == \/ pc[t] = "free_unlock"
           \/ pc[t] \in {"call", "args", "syscall"} /\ sysno[t] = "exit"
FreedLeaves == \A t \in Live : ~valid[vcpu[t]] => Left(t)

OwnParts ==
  /\ WhoOwns /\ BlockOwned /\ SysnoKept /\ ExitPath /\ ReqLoaded /\ FreedLeaves
OwnInv == VcpuInv /\ OwnParts

\* The initial state satisfies OwnInv.
LEMMA OwnInit == Init => OwnInv
<1> SUFFICES ASSUME Init PROVE OwnParts
  BY VcpuInit DEF OwnInv
<1>0. 0 \in Slot /\ MainThread \in Thread
  BY VcpusAssumption, ThreadAssumption DEF Slot
<1>1. /\ \A t \in Thread : pc[t] \in {"none", "run"} /\ (pc[t] = "run" => vcpu[t] = 0)
      /\ who[0] = MainThread /\ valid[0]
      /\ \A t \in Thread : pc[t] = "run" => t = MainThread
  BY <1>0 DEF Init
<1>2. QED
  BY <1>0, <1>1 DEF OwnParts, Live, FreeCS,
      WhoOwns, BlockOwned, SysnoKept, ExitPath, ReqLoaded, FreedLeaves, Pending, Left

\* Tasks that end leave OwnInv true.
LEMMA OwnEnd ==
  ASSUME OwnInv, NEW S, S \subseteq Thread, End(S)
  PROVE  OwnParts'
  BY DEF End, poolVars, cpuVars, OwnInv, VcpuInv, TypeOK, OwnParts, Live,
      FreeCS,
      WhoOwns, BlockOwned, SysnoKept, ExitPath, ReqLoaded, FreedLeaves, Pending, Left

\* The labels between the decoding of a clone and its execution, ...
CloneLabels == {"alloc_lock", "alloc_scan", "full"} \union SetUp \union {"alloc_unlock"}

\* ... among which a step that touches only the pool keeps what is known of
\* the threads.
LEMMA OwnQuiet ==
  ASSUME OwnInv, TypeOK, NEW t \in Thread, NEW x \in CloneLabels,
         pc[t] \in CloneLabels, pc' = [pc EXCEPT ![t] = x],
         UNCHANGED <<vcpu, sysno, req, valid, cpuVars>>
  PROVE  OwnParts'
<1>1. /\ pc'[t] = x
      /\ \A u \in Thread \ {t} : pc'[u] = pc[u]
  BY DEF TypeOK
<1>2. WhoOwns' /\ ExitPath'
  BY <1>1 DEF OwnInv, OwnParts, WhoOwns, ExitPath, Live, CloneLabels, SetUp,
      FreeCS, cpuVars
<1>3. BlockOwned' /\ SysnoKept'
  BY <1>1 DEF OwnInv, OwnParts, BlockOwned, SysnoKept, Pending, CloneLabels,
      SetUp, cpuVars
<1>4. ReqLoaded'
  BY <1>1 DEF OwnInv, OwnParts, ReqLoaded, CloneLabels, SetUp
<1>5. FreedLeaves'
  BY <1>1 DEF OwnInv, OwnParts, FreedLeaves, Left, Live, CloneLabels, SetUp
<1>6. QED
  BY <1>2, <1>3, <1>4, <1>5 DEF OwnParts

\* Every prompt step keeps OwnInv.
LEMMA OwnStep == PromptExit /\ OwnInv /\ [AnyNext]_vars => OwnInv'
<1> SUFFICES ASSUME PromptExit, OwnInv, [AnyNext]_vars PROVE OwnParts'
  BY VcpuStep DEF OwnInv
<1>t. /\ TypeOK /\ TypeOK' /\ VcpuParts
  BY TypeStep DEF OwnInv, VcpuInv
<1>0. CASE UNCHANGED vars
  BY <1>0 DEF vars, poolVars, hostVars, cpuVars, OwnInv, OwnParts, Live, FreeCS,
      WhoOwns, BlockOwned, SysnoKept, ExitPath, ReqLoaded, FreedLeaves, Pending, Left
<1>1. ASSUME NEW t \in Thread, DispatchDie(t) PROVE OwnParts'
  BY <1>1, OwnEnd DEF DispatchDie, Group, Live, Die
<1>2. ASSUME NEW t \in Thread, SyscallExit(t) PROVE OwnParts'
  BY <1>2, OwnEnd DEF SyscallExit
<1>3. ASSUME NEW t \in Thread, SyscallEndsGroup(t) PROVE OwnParts'
  BY <1>3, OwnEnd DEF SyscallEndsGroup, Group, Live
<1>4. ASSUME NEW t \in Thread, FreeAbort(t) PROVE OwnParts'
  BY <1>4, OwnEnd DEF FreeAbort, Group, Live, Die
<1>5. ASSUME NEW t \in Thread, NoMoreVcpu(t) PROVE OwnParts'
  BY <1>5, OwnEnd DEF NoMoreVcpu, Group, Live, Die
<1>6. ASSUME NEW t \in Thread, SetUpFails(t) PROVE OwnParts'
  BY <1>6, OwnEnd DEF SetUpFails, Group, Live, Die
<1>7. ASSUME NEW t \in Thread, SysCloneGarbled(t) PROVE OwnParts'
  BY <1>7, OwnEnd DEF SysCloneGarbled, Group, Live, Die
<1>8. ASSUME NEW t \in Thread, AllocLock(t) PROVE OwnParts'
  BY <1>8, <1>t, OwnQuiet DEF AllocLock, Acquire, Transition, CloneLabels,
      SetUp, cpuVars
<1>9. ASSUME NEW t \in Thread, AllocNone(t) PROVE OwnParts'
  BY <1>9, <1>t, OwnQuiet DEF AllocNone, poolVars, Transition, CloneLabels,
      SetUp, cpuVars
<1>10. ASSUME NEW t \in Thread, AllocUnlock(t) PROVE OwnParts'
  BY <1>10, <1>t, OwnQuiet DEF AllocUnlock, Release, AfterScan, Transition,
      CloneLabels, SetUp, cpuVars
<1>11. ASSUME NEW t \in Thread, Calloc(t) PROVE OwnParts'
  BY <1>11, <1>t, OwnQuiet DEF Calloc, Transition, CloneLabels, SetUp, cpuVars
<1>12. ASSUME NEW t \in Thread, CreateVcpu(t) PROVE OwnParts'
  BY <1>12, <1>t, OwnQuiet DEF CreateVcpu, Transition, CloneLabels, SetUp,
      cpuVars
<1>13. ASSUME NEW t \in Thread, MmapRun(t) PROVE OwnParts'
  BY <1>13, <1>t, OwnQuiet DEF MmapRun, Transition, CloneLabels, SetUp, cpuVars
<1>14. ASSUME NEW t \in Thread, NEW u \in Thread, SysClone(t, u) PROVE OwnParts'
  <2>1. /\ pc[t] = "clone" /\ pc[u] = "none" /\ t # u /\ child[t] \in Slot
        /\ valid[child[t]] /\ \A w \in Thread : vcpu[w] # child[t]
    BY <1>14, <1>t DEF SysClone, Unused, Live, TypeOK, SetUp, VcpuParts,
        ChildApart, Holds
  <2>2. /\ pc'[t] = "store_clone" /\ pc'[u] = "run" /\ vcpu'[u] = child[t]
        /\ who'[child[t]] = u
        /\ \A w \in Thread \ {t, u} : pc'[w] = pc[w]
        /\ \A w \in Thread \ {u} : vcpu'[w] = vcpu[w]
        /\ \A s \in Slot \ {child[t]} : who'[s] = who[s]
        /\ UNCHANGED <<sysno, req, valid, param, reason>>
    BY <1>14, <1>t, <2>1 DEF SysClone, TypeOK, poolVars
  <2>3. \A w \in Live : vcpu[w] \in Slot
    BY <1>t DEF TypeOK, Live
  <2>4. WhoOwns'
    BY <2>1, <2>2, <2>3 DEF OwnInv, OwnParts, WhoOwns, Live
  <2>5. BlockOwned' /\ SysnoKept'
    BY <2>1, <2>2 DEF OwnInv, OwnParts, BlockOwned, SysnoKept, Pending
  <2>6. ExitPath' /\ ReqLoaded'
    BY <2>1, <2>2 DEF OwnInv, OwnParts, ExitPath, ReqLoaded, FreeCS
  <2>7. FreedLeaves'
    BY <2>1, <2>2 DEF OwnInv, OwnParts, FreedLeaves, Left, Live
  <2>8. QED
    BY <2>4, <2>5, <2>6, <2>7 DEF OwnParts
<1> USE <1>t
    DEF Transition, poolVars, hostVars, cpuVars, Slot, NoSlot, TypeOK,
        SetUp, FreeCS, Block, OwnInv, OwnParts, VcpuParts, OneThreadPerVcpu,
        ChildApart, ChildOwned, Holds, Live, WhoOwns, BlockOwned, SysnoKept,
        ExitPath, ReqLoaded, FreedLeaves, Pending, Left
<1>15. ASSUME NEW t \in Thread, DispatchIntr(t) PROVE OwnParts'
  BY <1>15 DEF DispatchIntr
<1>16. ASSUME NEW t \in Thread, DispatchSyscall(t) PROVE OwnParts'
  BY <1>16 DEF DispatchSyscall, Entry
<1>17. ASSUME NEW t \in Thread, NEW k \in AllCalls, GuestSyscall(t, k) PROVE OwnParts'
  BY <1>17 DEF GuestSyscall
<1>18. ASSUME NEW t \in Thread, GuestInterrupted(t) PROVE OwnParts'
  BY <1>18 DEF GuestInterrupted
<1>19. ASSUME NEW t \in Thread, GuestFault(t) PROVE OwnParts'
  BY <1>19 DEF GuestFault
<1>20. ASSUME NEW t \in Thread, KvmRun(t) PROVE OwnParts'
  BY <1>20 DEF KvmRun
<1>21. ASSUME NEW t \in Thread, ReadSysno(t) PROVE OwnParts'
  BY <1>21 DEF ReadSysno
<1>22. ASSUME NEW t \in Thread, LoadNr(t) PROVE OwnParts'
  BY <1>22 DEF LoadNr
<1>23. ASSUME NEW t \in Thread, LoadArgs(t) PROVE OwnParts'
  BY <1>23 DEF LoadArgs
<1>24. ASSUME NEW t \in Thread, NEW r \in Answers(req[t].nr),
              SyscallAnswered(t, r)
       PROVE  OwnParts'
  <2>1. /\ pc[t] = "syscall" /\ pc' = [pc EXCEPT ![t] = "store"]
        /\ req' = [req EXCEPT ![t] = NoReq]
        /\ UNCHANGED <<vcpu, child, sysno, grp, poolVars, cpuVars>>
    BY <1>24 DEF SyscallAnswered
  <2>n. req[t].nr # "exit"
    <3>1. Answers("exit") = {}
      BY DEF Answers, Clones
    <3>2. QED
      BY <1>24, <3>1
  <2>2. /\ pc'[t] = "store" /\ \A w \in Thread \ {t} : pc'[w] = pc[w] /\ req'[w] = req[w]
    BY <2>1
  <2>3. (WhoOwns /\ BlockOwned /\ SysnoKept /\ ExitPath)'
    BY <2>1, <2>2
  <2>4. (ReqLoaded /\ FreedLeaves)'
    BY <2>1, <2>n, <2>2
  <2>5. QED
    BY <2>3, <2>4
<1>25. ASSUME NEW t \in Thread, StoreRet(t) PROVE OwnParts'
  BY <1>25 DEF StoreRet
<1>26. ASSUME NEW t \in Thread, StoreClone(t) PROVE OwnParts'
  BY <1>26 DEF StoreClone, CloneAnswer
<1>27. ASSUME NEW t \in Thread, FreeLock(t) PROVE OwnParts'
  BY <1>27 DEF FreeLock, Acquire
<1>28. ASSUME NEW t \in Thread, FreeUnlock(t) PROVE OwnParts'
  BY <1>28 DEF FreeUnlock, Release
<1>29. ASSUME NEW t \in Thread, InitChild(t) PROVE OwnParts'
  BY <1>29, SMTT(30) DEF InitChild
<1>30. ASSUME NEW t \in Thread, GuestReturn(t) PROVE OwnParts'
  BY <1>30 DEF GuestReturn
<1>31. ASSUME NEW t \in Thread, FreeClear(t) PROVE OwnParts'
  BY <1>31 DEF FreeClear
<1>32. ASSUME NEW t \in Thread, NEW s \in Slot, AllocTake(t, s) PROVE OwnParts'
  BY <1>32 DEF AllocTake, FirstFree
<1>33. ASSUME NEW t \in Thread,
              (\E e \in CloneErrno : SysCloneFails(t, e))
                \/ \E u \in Thread : SysCloneLost(t, u)
       PROVE  OwnParts'
  <2>1. /\ pc[t] = "clone" /\ pc' = [pc EXCEPT ![t] = "store_clone"]
        /\ child' = [child EXCEPT ![t] = NoSlot]
        /\ UNCHANGED <<vcpu, sysno, req, poolVars, cpuVars>>
    BY <1>33 DEF SysCloneFails, SysCloneLost
  <2>2. QED
    BY <2>1
<1>34. QED
  BY <1>0, <1>1, <1>2, <1>3, <1>4, <1>5, <1>6, <1>7, <1>8, <1>9, <1>10, <1>11,
      <1>12, <1>13, <1>14, <1>15, <1>16, <1>17, <1>18, <1>19, <1>20, <1>21,
      <1>22, <1>23, <1>24, <1>25, <1>26, <1>27, <1>28, <1>29, <1>30, <1>31,
      <1>32, <1>33, CallsAssumption
  DEF AnyNext, Next, GuestStep, LoopStep, FreeStep, AllocStep, CloneStep, Finished

\* What OwnInv is for.
LEMMA OwnSafe == OwnInv => OneThreadPerVcpu /\ AssertValid /\ OwnCall
  BY DEF OwnInv, OwnParts, VcpuInv, VcpuParts, AssertValid, OwnCall,
      ReqLoaded, FreedLeaves,
      Left, Live

\* No two tasks run one vcpu, the assertion in kvm_free_vcpu does not fail, and
\* the call a task performs is the one its own guest thread made.
THEOREM PromptSafe ==
  ASSUME PromptExit
  PROVE  Spec => [](OneThreadPerVcpu /\ AssertValid /\ OwnCall)
<1>1. OwnInv /\ [Next]_vars => OwnInv'
  BY OwnStep, NextIsAny
<1>2. QED
  BY <1>1, OwnSafe, OwnInit, PTL DEF Spec

\* The assertion of kvm_free_vcpu holds whenever it is evaluated.
THEOREM AssertHolds ==
  ASSUME PromptExit
  PROVE  Spec => []AssertValid
  BY PromptSafe, PTL

\* No host task performs another thread's call, or another call than it decoded.
THEOREM OwnCallHolds ==
  ASSUME PromptExit
  PROVE  Spec => []OwnCall
  BY PromptSafe, PTL

\* t waits for another task: for the lock, for KVM's vcpu->mutex, or, when exits
\* are prompt, for a vcpu that is still in use.
Blocked(t) ==
  \/ pc[t] \in {"free_lock", "alloc_lock"} /\ lock
  \/ pc[t] = "run" /\ \E u \in Thread : pc[u] = "guest" /\ vcpu[u] = vcpu[t]
  \/ pc[t] = "init" /\ \E u \in Thread : pc[u] = "guest" /\ vcpu[u] = child[t]
  \/ pc[t] = "alloc_scan" /\ PromptExit /\ \E u \in Live : ~valid[vcpu[u]]

\* In a VM of one process the tasks never all wait for one another.
THEOREM NoDeadlock ==
  ASSUME "clone_process" \notin Calls \union Flags
  PROVE  Spec => [](Live # {} => \E t \in Live : ~Blocked(t))
<1> DEFINE Inv  == GroupInv /\ (PromptExit => OwnInv)
           Goes == Live # {} => \E t \in Live : ~Blocked(t)
<1>1. Inv => Goes
  <2> SUFFICES ASSUME Inv, Live # {} PROVE \E t \in Live : ~Blocked(t)
    OBVIOUS
  <2>1. CASE \E u \in Live : pc[u] = "guest"
    BY <2>1 DEF Blocked
  <2>2. CASE lock
    <3>1. PICK t \in Live : pc[t] \in FreeCS \union AllocCS
      BY <2>2 DEF GroupInv, LockOwned
    <3>2. CASE pc[t] = "alloc_scan" /\ PromptExit /\ \E u \in Live : ~valid[vcpu[u]]
      <4>1. PICK u \in Live : ~valid[vcpu[u]]
        BY <3>2
      <4>2. Left(u) /\ u \in Thread /\ t \in Thread
        BY <3>2, <4>1 DEF OwnInv, OwnParts, FreedLeaves, Live
      <4>3. pc[u] # "free_unlock"
        BY <3>2, <4>2 DEF GroupInv, PoolInv, PoolMutex, FreeCS, AllocCS
      <4>4. ~Blocked(u)
        BY <4>2, <4>3 DEF Blocked, Left
      <4>5. QED
        BY <4>4
    <3>3. CASE ~(pc[t] = "alloc_scan" /\ PromptExit /\ \E u \in Live : ~valid[vcpu[u]])
      BY <3>1, <3>3 DEF Blocked, FreeCS, AllocCS
    <3>4. QED
      BY <3>2, <3>3
  <2>3. CASE ~lock /\ ~\E u \in Live : pc[u] = "guest"
    <3>1. \A u \in Thread : pc[u] # "guest"
      BY <2>3 DEF Live
    <3>2. \A u \in Live : pc[u] # "alloc_scan"
      BY <2>3 DEF GroupInv, PoolInv, CSLocked, InCS, AllocCS, Live
    <3>3. QED
      BY <2>3, <3>1, <3>2 DEF Blocked
  <2>4. QED
    BY <2>1, <2>2, <2>3
<1>2. Inv /\ [Next]_vars => Inv'
  BY GroupStep, OwnStep, NextIsAny
<1>3. Init => Inv
  BY GroupInit, OwnInit
<1> HIDE DEF Inv
<1>4. QED
  BY <1>1, <1>2, <1>3, PTL DEF Spec

-----------------------------------------------------------------------------
(* The VM implements native threads, and loses no vcpu.                    *)

\* While a call is pending, or its answer a local of the host task, the guest
\* is behind its HYPERCALL.
InTrap == \A t \in Thread : Pending(t) \/ Performed(t) => at[vcpu[t]] = "trap"

\* host_loop takes each call to the code that emulates it,
Routed ==
  \A t \in Thread :
    /\ pc[t] \in {"call", "args", "syscall"} => sysno[t] \notin Clones \union {"kexec_load"}
    /\ pc[t] \in CloneLabels => sysno[t] \in Clones

\* and what is neither a signal nor a call is a fault in user code.
FaultsOnly ==
  \A t \in Thread :
    pc[t] \in {"exited", "dispatch"} /\ reason[vcpu[t]] \notin {"intr", "hypercall"}
      => Faults /\ at[vcpu[t]] = "user"

\* A vcpu that was initialised stays so until its task starts.
ChildFresh ==
  \A t \in Thread : pc[t] = "clone" => at[child[t]] = "user" /\ a0[child[t]] = 0

\* A clone that was performed has a pid for its answer, if clones do not fail.
PidAnswer ==
  CloneErrno = {} => \A t \in Thread : pc[t] = "store_clone" => ret[t] \in Thread

\* The registers of a host call are loaded only for the call.
ReqCleared == \A t \in Thread : pc[t] \notin {"args", "syscall"} => req[t] = NoReq

\* A task on its way out has given its vcpu back.
LeftFreed == \A t \in Thread : Left(t) => ~valid[vcpu[t]]

NativeParts ==
  /\ InTrap /\ Routed /\ FaultsOnly /\ ChildFresh /\ PidAnswer /\ ReqCleared
  /\ LeftFreed
NativeInv == OwnInv /\ NativeParts

\* The initial state satisfies NativeInv.
LEMMA NativeInit == Init => NativeInv
<1> SUFFICES ASSUME Init PROVE NativeParts
  BY OwnInit DEF NativeInv
<1>1. /\ \A t \in Thread : pc[t] \in {"none", "run"}
      /\ \A t \in Thread : req[t] = NoReq
  BY DEF Init
<1>2. QED
  BY <1>1 DEF NativeParts, InTrap, Routed, FaultsOnly, ChildFresh, PidAnswer,
      ReqCleared, LeftFreed, Left, Pending, Performed, CloneLabels, SetUp

\* Tasks that end leave NativeInv true.
LEMMA NativeEnd ==
  ASSUME NativeInv, NEW S, S \subseteq Thread, End(S)
  PROVE  NativeParts'
  BY DEF End, poolVars, cpuVars, NativeInv, OwnInv, VcpuInv, TypeOK, NativeParts,
      InTrap, Routed, FaultsOnly, ChildFresh, PidAnswer, ReqCleared, LeftFreed,
      Left, Pending, Performed, CloneLabels, SetUp

\* A step of a clone before its vcpu is initialised keeps NativeInv.
LEMMA NativeQuiet ==
  ASSUME NativeInv, NEW t \in Thread, NEW x \in CloneLabels \ {"clone"},
         pc[t] \in CloneLabels, pc' = [pc EXCEPT ![t] = x],
         UNCHANGED <<vcpu, sysno, req, ret, valid, cpuVars>>,
         \A u \in Thread \ {t} : child'[u] = child[u]
  PROVE  NativeParts'
<1>1. /\ pc'[t] = x
      /\ \A u \in Thread \ {t} : pc'[u] = pc[u]
  BY DEF NativeInv, OwnInv, VcpuInv, TypeOK
<1>2. InTrap' /\ Routed' /\ FaultsOnly'
  BY <1>1 DEF NativeInv, NativeParts, InTrap, Routed, FaultsOnly, Pending,
      Performed, CloneLabels, SetUp, cpuVars
<1>3. ChildFresh' /\ PidAnswer'
  BY <1>1 DEF NativeInv, NativeParts, ChildFresh, PidAnswer, CloneLabels, SetUp,
      cpuVars
<1>4. ReqCleared' /\ LeftFreed'
  BY <1>1 DEF NativeInv, NativeParts, ReqCleared, LeftFreed, Left, CloneLabels,
      SetUp
<1>5. QED
  BY <1>2, <1>3, <1>4 DEF NativeParts

\* Every prompt step keeps NativeInv.
LEMMA NativeStep ==
  PromptExit /\ NativeInv /\ [AnyNext]_vars => NativeInv'
<1> SUFFICES ASSUME PromptExit, NativeInv, [AnyNext]_vars
             PROVE  NativeParts'
  BY OwnStep DEF NativeInv
<1>t. TypeOK /\ TypeOK' /\ VcpuParts /\ OwnParts /\ NativeParts
  BY TypeStep DEF NativeInv, OwnInv, VcpuInv
<1>0. CASE UNCHANGED vars
  BY <1>0 DEF vars, poolVars, hostVars, cpuVars, NativeInv, NativeParts,
      InTrap, Routed, FaultsOnly, ChildFresh, PidAnswer, ReqCleared, LeftFreed,
      Left, Pending, Performed
<1>1. ASSUME NEW t \in Thread, DispatchDie(t) PROVE NativeParts'
  BY <1>1, NativeEnd DEF DispatchDie, Group, Live, Die
<1>2. ASSUME NEW t \in Thread, SyscallExit(t) PROVE NativeParts'
  BY <1>2, NativeEnd DEF SyscallExit
<1>3. ASSUME NEW t \in Thread, SyscallEndsGroup(t) PROVE NativeParts'
  BY <1>3, NativeEnd DEF SyscallEndsGroup, Group, Live
<1>4. ASSUME NEW t \in Thread, FreeAbort(t) PROVE NativeParts'
  BY <1>4, NativeEnd DEF FreeAbort, Group, Live, Die
<1>5. ASSUME NEW t \in Thread, NoMoreVcpu(t) PROVE NativeParts'
  BY <1>5, NativeEnd DEF NoMoreVcpu, Group, Live, Die
<1>6. ASSUME NEW t \in Thread, SetUpFails(t) PROVE NativeParts'
  BY <1>6, NativeEnd DEF SetUpFails, Group, Live, Die
<1>7. ASSUME NEW t \in Thread, SysCloneGarbled(t) PROVE NativeParts'
  BY <1>7, NativeEnd DEF SysCloneGarbled, Group, Live, Die
<1>8. ASSUME NEW t \in Thread, AllocLock(t) PROVE NativeParts'
  BY <1>8, NativeQuiet DEF AllocLock, Acquire, Transition, CloneLabels,
      SetUp, cpuVars
<1>9. ASSUME NEW t \in Thread, AllocNone(t) PROVE NativeParts'
  BY <1>9, NativeQuiet DEF AllocNone, poolVars, Transition, CloneLabels,
      SetUp, cpuVars
<1>10. ASSUME NEW t \in Thread, AllocUnlock(t) PROVE NativeParts'
  BY <1>10, NativeQuiet DEF AllocUnlock, Release, AfterScan, Transition,
      CloneLabels, SetUp, cpuVars
<1>11. ASSUME NEW t \in Thread, Calloc(t) PROVE NativeParts'
  BY <1>11, NativeQuiet DEF Calloc, Transition, CloneLabels, SetUp, cpuVars
<1>12. ASSUME NEW t \in Thread, CreateVcpu(t) PROVE NativeParts'
  BY <1>12, NativeQuiet DEF CreateVcpu, Transition, CloneLabels, SetUp,
      cpuVars
<1>13. ASSUME NEW t \in Thread, MmapRun(t) PROVE NativeParts'
  BY <1>13, NativeQuiet DEF MmapRun, Transition, CloneLabels, SetUp, cpuVars
<1>s. \A t \in Live : vcpu[t] \in Slot
  BY <1>t DEF TypeOK, Live
<1>14. ASSUME NEW t \in Thread, NEW u \in Thread, SysClone(t, u) PROVE NativeParts'
  <2>1. /\ pc[t] = "clone" /\ pc[u] = "none" /\ t # u /\ child[t] \in Slot
        /\ valid[child[t]] /\ \A w \in Thread : vcpu[w] # child[t]
    BY <1>14, <1>t DEF SysClone, Unused, Live, TypeOK, SetUp, VcpuParts,
        ChildApart, Holds
  <2>2. /\ pc'[t] = "store_clone" /\ pc'[u] = "run" /\ vcpu'[u] = child[t]
        /\ ret'[t] = u
        /\ \A w \in Thread \ {t, u} : pc'[w] = pc[w]
        /\ \A w \in Thread \ {u} : vcpu'[w] = vcpu[w]
        /\ \A w \in Thread \ {t} : child'[w] = child[w] /\ ret'[w] = ret[w]
        /\ UNCHANGED <<sysno, req, valid, param, reason, at, a0>>
    BY <1>14, <1>t, <2>1 DEF SysClone, TypeOK, poolVars
  <2>3. InTrap' /\ FaultsOnly'
    BY <2>1, <2>2, <1>t DEF NativeParts, InTrap, FaultsOnly, Pending, Performed
  <2>4. Routed' /\ ReqCleared'
    BY <2>1, <2>2, <1>t DEF NativeParts, Routed, ReqCleared, CloneLabels, SetUp
  <2>5. ChildFresh' /\ PidAnswer'
    BY <2>1, <2>2, <1>t DEF NativeParts, ChildFresh, PidAnswer
  <2>6. LeftFreed'
    BY <2>1, <2>2, <1>t DEF NativeParts, LeftFreed, Left
  <2>7. QED
    BY <2>3, <2>4, <2>5, <2>6 DEF NativeParts
<1>15. ASSUME NEW t \in Thread, NEW k \in AllCalls, GuestSyscall(t, k) PROVE NativeParts'
  <2>1. /\ pc[t] = "guest" /\ vcpu[t] \in Slot
        /\ pc'[t] = "exited" /\ at'[vcpu[t]] = "trap"
        /\ reason'[vcpu[t]] = "hypercall"
        /\ \A w \in Thread \ {t} : pc'[w] = pc[w]
        /\ \A s \in Slot \ {vcpu[t]} :
             at'[s] = at[s] /\ a0'[s] = a0[s] /\ reason'[s] = reason[s]
        /\ UNCHANGED <<vcpu, child, sysno, req, ret, valid>>
    BY <1>15, <1>t, <1>s DEF GuestSyscall, Transition, TypeOK, Live, poolVars
  <2>2. \A w \in Thread \ {t} : pc[w] # "none" => vcpu[w] \in Slot /\ vcpu[w] # vcpu[t]
    BY <1>t, <1>s, <2>1 DEF VcpuParts, OneThreadPerVcpu, Live
  <2>3. InTrap' /\ FaultsOnly'
    BY <2>1, <2>2, <1>t DEF NativeParts, InTrap, FaultsOnly, Pending, Performed
  <2>4. Routed' /\ ReqCleared' /\ PidAnswer'
    BY <2>1, <1>t DEF NativeParts, Routed, ReqCleared, PidAnswer, CloneLabels, SetUp
  <2>5. ChildFresh'
    BY <2>1, <1>t DEF NativeParts, ChildFresh, VcpuParts, ChildApart, Holds,
        TypeOK, SetUp
  <2>6. LeftFreed'
    BY <2>1, <1>t DEF NativeParts, LeftFreed, Left
  <2>7. QED
    BY <2>3, <2>4, <2>5, <2>6 DEF NativeParts
<1>16. ASSUME NEW t \in Thread, InitChild(t) PROVE NativeParts'
  <2>1. /\ pc[t] = "init" /\ pc'[t] = "clone" /\ child[t] \in Slot
        /\ at'[child[t]] = "user" /\ a0'[child[t]] = 0
        /\ \A w \in Thread \ {t} : pc'[w] = pc[w]
        /\ \A s \in Slot \ {child[t]} : at'[s] = at[s] /\ a0'[s] = a0[s]
        /\ UNCHANGED <<vcpu, child, sysno, req, ret, valid, reason>>
    BY <1>16, <1>t DEF InitChild, Transition, TypeOK, SetUp, poolVars
  <2>2. \A w \in Thread : vcpu[w] # child[t]
    BY <1>t, <2>1 DEF VcpuParts, ChildApart, Holds
  <2>3. \A w \in Live : vcpu[w] \in Slot /\ at'[vcpu[w]] = at[vcpu[w]]
    BY <1>s, <2>1, <2>2 DEF Live
  <2>4. InTrap' /\ FaultsOnly'
    BY <2>1, <2>3, <1>t DEF NativeParts, InTrap, FaultsOnly, Pending, Performed, Live
  <2>5. Routed' /\ ReqCleared' /\ PidAnswer'
    BY <2>1, <1>t DEF NativeParts, Routed, ReqCleared, PidAnswer, CloneLabels, SetUp
  <2>6. ChildFresh'
    BY <2>1, <1>t DEF NativeParts, ChildFresh, VcpuParts, ChildOwned, Holds,
        TypeOK, SetUp
  <2>7. LeftFreed'
    BY <2>1, <1>t DEF NativeParts, LeftFreed, Left
  <2>8. QED
    BY <2>4, <2>5, <2>6, <2>7 DEF NativeParts
<1>17. ASSUME NEW t \in Thread, FreeClear(t) PROVE NativeParts'
  <2>1. /\ pc[t] = "free_clear" /\ pc'[t] = "free_unlock" /\ vcpu[t] \in Slot
        /\ ~valid'[vcpu[t]]
        /\ \A w \in Thread \ {t} : pc'[w] = pc[w]
        /\ \A s \in Slot : valid'[s] => valid[s]
        /\ UNCHANGED <<vcpu, child, sysno, req, ret, at, a0, reason>>
    BY <1>17, <1>t, <1>s DEF FreeClear, Transition, TypeOK, cpuVars, Live
  <2>2. InTrap' /\ FaultsOnly'
    BY <2>1, <1>t DEF NativeParts, InTrap, FaultsOnly, Pending, Performed
  <2>3. Routed' /\ ReqCleared' /\ PidAnswer' /\ ChildFresh'
    BY <2>1, <1>t DEF NativeParts, Routed, ReqCleared, PidAnswer, ChildFresh,
        CloneLabels, SetUp
  <2>4. LeftFreed'
    BY <2>1, <1>t, <1>s DEF NativeParts, LeftFreed, Left, Live
  <2>5. QED
    BY <2>2, <2>3, <2>4 DEF NativeParts
<1>18. ASSUME NEW t \in Thread, GuestInterrupted(t) \/ GuestFault(t) PROVE NativeParts'
  <2>1. /\ pc[t] = "guest" /\ pc'[t] = "exited" /\ vcpu[t] \in Slot
        /\ \/ reason'[vcpu[t]] = "intr"
           \/ reason'[vcpu[t]] = "other" /\ Faults /\ at[vcpu[t]] = "user"
        /\ \A w \in Thread \ {t} : pc'[w] = pc[w]
        /\ \A s \in Slot \ {vcpu[t]} : reason'[s] = reason[s]
        /\ UNCHANGED <<vcpu, child, sysno, req, ret, valid, at, a0>>
    BY <1>18, <1>t, <1>s DEF GuestInterrupted, GuestFault, Transition, TypeOK, Live,
        poolVars
  <2>2. \A w \in Thread \ {t} : pc[w] # "none" => vcpu[w] \in Slot /\ vcpu[w] # vcpu[t]
    BY <1>t, <1>s, <2>1 DEF VcpuParts, OneThreadPerVcpu, Live
  <2>3. InTrap' /\ FaultsOnly'
    BY <2>1, <2>2, <1>t DEF NativeParts, InTrap, FaultsOnly, Pending, Performed
  <2>4. Routed' /\ ReqCleared' /\ PidAnswer'
    BY <2>1, <1>t DEF NativeParts, Routed, ReqCleared, PidAnswer, CloneLabels, SetUp
  <2>5. ChildFresh' /\ LeftFreed'
    BY <2>1, <1>t DEF NativeParts, ChildFresh, LeftFreed, Left
  <2>6. QED
    BY <2>3, <2>4, <2>5 DEF NativeParts
<1>19. ASSUME NEW t \in Thread, NEW r \in Answers(req[t].nr),
              SyscallAnswered(t, r)
       PROVE  NativeParts'
  <2>1. /\ pc[t] = "syscall" /\ pc'[t] = "store" /\ req'[t] = NoReq
        /\ \A w \in Thread \ {t} :
             pc'[w] = pc[w] /\ req'[w] = req[w] /\ ret'[w] = ret[w]
        /\ UNCHANGED <<vcpu, child, sysno, valid, at, a0, reason>>
    BY <1>19, <1>t DEF SyscallAnswered, Transition, TypeOK, poolVars, cpuVars
  <2>2. InTrap' /\ FaultsOnly'
    BY <2>1, <1>t DEF NativeParts, InTrap, FaultsOnly, Pending, Performed
  <2>3. Routed' /\ ReqCleared' /\ PidAnswer'
    BY <2>1, <1>t DEF NativeParts, Routed, ReqCleared, PidAnswer, CloneLabels, SetUp
  <2>4. ChildFresh' /\ LeftFreed'
    BY <2>1, <1>t DEF NativeParts, ChildFresh, LeftFreed, Left
  <2>5. QED
    BY <2>2, <2>3, <2>4 DEF NativeParts
<1>20. ASSUME NEW t \in Thread, FreeLock(t) \/ FreeUnlock(t) PROVE NativeParts'
  <2>1. /\ \/ pc[t] = "free_lock" /\ pc'[t] = "free_clear"
           \/ pc[t] = "free_unlock" /\ pc'[t] = "call"
        /\ \A w \in Thread \ {t} : pc'[w] = pc[w]
        /\ UNCHANGED <<vcpu, child, sysno, req, ret, valid, at, a0, reason>>
    BY <1>20, <1>t DEF FreeLock, FreeUnlock, Acquire, Release, Transition, TypeOK,
        cpuVars
  <2>2. InTrap' /\ FaultsOnly'
    BY <2>1, <1>t DEF NativeParts, InTrap, FaultsOnly, Pending, Performed
  <2>3. sysno[t] = "exit"
    BY <2>1, <1>t DEF OwnParts, ExitPath, FreeCS
  <2>4. Routed' /\ ReqCleared' /\ PidAnswer'
    BY <2>1, <2>3, <1>t DEF NativeParts, Routed, ReqCleared, PidAnswer,
        CloneLabels, SetUp, Clones
  <2>5. ChildFresh' /\ LeftFreed'
    BY <2>1, <1>t DEF NativeParts, ChildFresh, LeftFreed, Left
  <2>6. QED
    BY <2>2, <2>4, <2>5 DEF NativeParts
<1>21. ASSUME NEW t \in Thread, GuestReturn(t) PROVE NativeParts'
  <2>1. /\ pc[t] = "guest" /\ vcpu[t] \in Slot
        /\ \A s \in Slot \ {vcpu[t]} : at'[s] = at[s] /\ a0'[s] = a0[s]
        /\ at'[vcpu[t]] = "user"
        /\ UNCHANGED <<pc, vcpu, child, sysno, req, ret, valid, reason>>
    BY <1>21, <1>t, <1>s DEF GuestReturn, TypeOK, Live, hostVars, poolVars
  <2>2. \A w \in Thread \ {t} : pc[w] # "none" => vcpu[w] \in Slot /\ vcpu[w] # vcpu[t]
    BY <1>t, <1>s, <2>1 DEF VcpuParts, OneThreadPerVcpu, Live
  <2>3. InTrap' /\ FaultsOnly'
    BY <2>1, <2>2, <1>t DEF NativeParts, InTrap, FaultsOnly, Pending, Performed
  <2>4. Routed' /\ ReqCleared' /\ PidAnswer' /\ LeftFreed'
    BY <2>1, <1>t DEF NativeParts, Routed, ReqCleared, PidAnswer, LeftFreed, Left
  <2>5. ChildFresh'
    BY <2>1, <1>t DEF NativeParts, ChildFresh, VcpuParts, ChildApart, Holds,
        TypeOK, SetUp
  <2>6. QED
    BY <2>3, <2>4, <2>5 DEF NativeParts
<1>22. ASSUME NEW t \in Thread, NEW s \in Slot, AllocTake(t, s) PROVE NativeParts'
  <2>1. /\ pc[t] = "alloc_scan" /\ pc'[t] = "alloc_unlock"
        /\ \A w \in Thread \ {t} : pc'[w] = pc[w] /\ child'[w] = child[w]
        /\ \A x \in Slot \ {s} : valid'[x] = valid[x]
        /\ UNCHANGED <<vcpu, sysno, req, ret, at, a0, reason>>
        /\ \A w \in Thread : vcpu[w] # s
    BY <1>22, <1>t DEF AllocTake, FirstFree, Transition, TypeOK, cpuVars
  <2>2. InTrap' /\ FaultsOnly'
    BY <2>1, <1>t DEF NativeParts, InTrap, FaultsOnly, Pending, Performed
  <2>3. Routed' /\ ReqCleared' /\ PidAnswer' /\ ChildFresh'
    BY <2>1, <1>t DEF NativeParts, Routed, ReqCleared, PidAnswer, ChildFresh,
        CloneLabels, SetUp
  <2>4. LeftFreed'
    <3>1. \A w \in Thread : Left(w) => vcpu[w] \in Slot \ {s}
      BY <2>1, <1>s DEF Left, Live
    <3>2. \A w \in Thread : Left(w)' => Left(w)
      BY <2>1 DEF Left
    <3>3. QED
      BY <2>1, <3>1, <3>2, <1>t DEF NativeParts, LeftFreed
  <2>5. QED
    BY <2>2, <2>3, <2>4 DEF NativeParts
<1>23. ASSUME NEW t \in Thread,
              (\E e \in CloneErrno : SysCloneFails(t, e))
                \/ \E u \in Thread : SysCloneLost(t, u)
       PROVE  NativeParts'
  <2>1. /\ pc[t] = "clone" /\ pc'[t] = "store_clone"
        /\ \A w \in Thread \ {t} : pc'[w] = pc[w] /\ child'[w] = child[w]
        /\ UNCHANGED <<vcpu, sysno, req, valid, at, a0, reason>>
    BY <1>23, <1>t DEF SysCloneFails, SysCloneLost, Transition, TypeOK, poolVars, cpuVars
  <2>2. PidAnswer'
    BY <1>23, <1>t DEF SysCloneFails, SysCloneLost, Transition, TypeOK, NativeParts, PidAnswer
  <2>3. InTrap' /\ FaultsOnly'
    BY <2>1, <1>t DEF NativeParts, InTrap, FaultsOnly, Pending, Performed
  <2>4. Routed' /\ ReqCleared'
    BY <2>1, <1>t DEF NativeParts, Routed, ReqCleared, CloneLabels, SetUp
  <2>5. LeftFreed'
    BY <2>1, <1>t DEF NativeParts, LeftFreed, Left
  <2>6. ChildFresh'
    BY <2>1, <1>t DEF NativeParts, ChildFresh
  <2>7. QED
    BY <2>2, <2>3, <2>4, <2>5, <2>6 DEF NativeParts
<1> USE <1>t, ThreadAssumption
    DEF Transition, poolVars, hostVars, cpuVars, Slot, NoSlot, TypeOK,
        SetUp, FreeCS, Block, VcpuParts, OneThreadPerVcpu,
        ChildApart, ChildOwned, Holds, Live, OwnParts, ExitPath, ReqLoaded,
        FreedLeaves, SysnoKept, CloneLabels,
        NativeParts, InTrap, Routed, FaultsOnly, ChildFresh, PidAnswer, ReqCleared,
        LeftFreed, Left, Pending, Performed
<1>24. ASSUME NEW t \in Thread, DispatchIntr(t) PROVE NativeParts'
  BY <1>24, SMTT(30) DEF DispatchIntr
<1>25. ASSUME NEW t \in Thread, DispatchSyscall(t) PROVE NativeParts'
  BY <1>25, SMTT(30) DEF DispatchSyscall, Entry, Clones
<1>26. ASSUME NEW t \in Thread, KvmRun(t) PROVE NativeParts'
  BY <1>26, SMTT(30) DEF KvmRun
<1>27. ASSUME NEW t \in Thread, ReadSysno(t) PROVE NativeParts'
  BY <1>27, SMTT(30) DEF ReadSysno
<1>28. ASSUME NEW t \in Thread, LoadNr(t) PROVE NativeParts'
  BY <1>28, SMTT(30) DEF LoadNr
<1>29. ASSUME NEW t \in Thread, LoadArgs(t) PROVE NativeParts'
  BY <1>29, SMTT(30) DEF LoadArgs
<1>30. ASSUME NEW t \in Thread, StoreRet(t) PROVE NativeParts'
  BY <1>30, SMTT(30) DEF StoreRet
<1>31. ASSUME NEW t \in Thread, StoreClone(t) PROVE NativeParts'
  BY <1>31, SMTT(30) DEF StoreClone, CloneAnswer
<1>32. QED
  BY <1>0, <1>1, <1>2, <1>3, <1>4, <1>5, <1>6, <1>7, <1>8, <1>9, <1>10,
      <1>11, <1>12, <1>13, <1>14, <1>15, <1>16, <1>17, <1>18, <1>19, <1>20,
      <1>21, <1>22, <1>23, <1>24, <1>25, <1>26, <1>27, <1>28, <1>29, <1>30,
      <1>31, CallsAssumption
  DEF AnyNext, Next, GuestStep, LoopStep, FreeStep, AllocStep, CloneStep, Finished

\* What the kernel's view of a thread is made of.
LEMMA BarAt ==
  ASSUME NEW t \in Thread
  PROVE  /\ stBar[t] = IF pc[t] = "none" THEN "none"
                       ELSE IF Pending(t) THEN "called"
                       ELSE IF at[vcpu[t]] = "user" THEN "user" ELSE "answered"
         /\ callBar[t] = IF stBar[t] \in {"called", "answered"}
                         THEN param[vcpu[t]].nr ELSE "none"
         /\ retBar[t] = IF stBar[t] = "none" THEN 0
                        ELSE IF Performed(t) THEN ret[t]
                        ELSE IF stBar[t] = "answered" THEN param[vcpu[t]].a0
                        ELSE a0[vcpu[t]]
  BY DEF stBar, callBar, retBar

\* It is a function of the thread, before and after a step.
LEMMA BarShape ==
  /\ stBar = [t \in Thread |-> stBar[t]] /\ stBar' = [t \in Thread |-> stBar'[t]]
  /\ callBar = [t \in Thread |-> callBar[t]] /\ callBar' = [t \in Thread |-> callBar'[t]]
  /\ retBar = [t \in Thread |-> retBar[t]] /\ retBar' = [t \in Thread |-> retBar'[t]]
<1>1. stBar = [t \in Thread |-> stBar[t]] /\ stBar' = [t \in Thread |-> stBar'[t]]
  BY Zenon DEF stBar
<1>2. callBar = [t \in Thread |-> callBar[t]] /\ callBar' = [t \in Thread |-> callBar'[t]]
  BY Zenon DEF callBar
<1>3. retBar = [t \in Thread |-> retBar[t]] /\ retBar' = [t \in Thread |-> retBar'[t]]
  BY Zenon DEF retBar
<1>4. QED
  BY <1>1, <1>2, <1>3

View(t) == <<stBar[t], callBar[t], retBar[t]>>

\* So it is after a step.
LEMMA BarNext ==
  ASSUME NEW t \in Thread
  PROVE  /\ stBar'[t] = IF pc'[t] = "none" THEN "none"
                        ELSE IF Pending(t)' THEN "called"
                        ELSE IF at'[vcpu'[t]] = "user" THEN "user" ELSE "answered"
         /\ callBar'[t] = IF stBar'[t] \in {"called", "answered"}
                          THEN param'[vcpu'[t]].nr ELSE "none"
         /\ retBar'[t] = IF stBar'[t] = "none" THEN 0
                         ELSE IF Performed(t)' THEN ret'[t]
                         ELSE IF stBar'[t] = "answered" THEN param'[vcpu'[t]].a0
                         ELSE a0'[vcpu'[t]]
  BY DEF stBar, callBar, retBar

\* A thread that nothing was done to, nor to its vcpu, looks the same.
LEMMA ViewKept ==
  ASSUME NEW u \in Thread,
         pc'[u] = pc[u], vcpu'[u] = vcpu[u], ret'[u] = ret[u],
         pc[u] # "none" =>
           /\ param'[vcpu[u]] = param[vcpu[u]] /\ reason'[vcpu[u]] = reason[vcpu[u]]
           /\ at'[vcpu[u]] = at[vcpu[u]] /\ a0'[vcpu[u]] = a0[vcpu[u]]
  PROVE  View(u)' = View(u)
<1>1. stBar'[u] = stBar[u]
  BY BarAt, BarNext DEF Pending
<1>2. callBar'[u] = callBar[u]
  BY BarAt, BarNext, <1>1
<1>3. retBar'[u] = retBar[u]
  BY BarAt, BarNext, <1>1 DEF Performed
<1>4. QED
  BY <1>1, <1>2, <1>3 DEF View

\* A step of t and of no vcpu but its own is not seen by the other threads.
LEMMA OthersKept ==
  ASSUME NativeInv, NEW t \in Live,
         \A u \in Thread \ {t} :
           pc'[u] = pc[u] /\ vcpu'[u] = vcpu[u] /\ ret'[u] = ret[u],
         \A s \in Slot \ {vcpu[t]} :
           /\ param'[s] = param[s] /\ reason'[s] = reason[s]
           /\ at'[s] = at[s] /\ a0'[s] = a0[s]
  PROVE  \A u \in Thread \ {t} : View(u)' = View(u)
<1> TAKE u \in Thread \ {t}
<1>1. pc[u] # "none" => vcpu[u] \in Slot \ {vcpu[t]}
  BY DEF NativeInv, OwnInv, VcpuInv, VcpuParts, OneThreadPerVcpu, Live, TypeOK
<1>2. QED
  BY <1>1, ViewKept

\* Nobody sees a difference: the kernel's threads stutter.
LEMMA Stutters ==
  ASSUME \A u \in Thread : View(u)' = View(u), grp' = grp
  PROVE  UNCHANGED Native!vars
<1>1. stBar' = stBar
  BY BarShape DEF View
<1>2. callBar' = callBar
  BY BarShape DEF View
<1>3. retBar' = retBar
  BY BarShape DEF View
<1>4. QED
  BY <1>1, <1>2, <1>3 DEF Native!vars

\* Only t looks different.
LEMMA OneMoves ==
  ASSUME NEW t \in Thread, \A u \in Thread \ {t} : View(u)' = View(u)
  PROVE  /\ stBar' = [stBar EXCEPT ![t] = stBar'[t]]
         /\ callBar' = [callBar EXCEPT ![t] = callBar'[t]]
         /\ retBar' = [retBar EXCEPT ![t] = retBar'[t]]
<1>1. stBar' = [stBar EXCEPT ![t] = stBar'[t]]
  BY BarShape DEF View
<1>2. callBar' = [callBar EXCEPT ![t] = callBar'[t]]
  BY BarShape DEF View
<1>3. retBar' = [retBar EXCEPT ![t] = retBar'[t]]
  BY BarShape DEF View
<1>4. QED
  BY <1>1, <1>2, <1>3

\* Thread groups are the kernel's thread groups.
LEMMA GroupMaps ==
  ASSUME NEW t \in Thread
  PROVE  Group(t) = Native!Group(t)
  BY BarAt DEF Group, Live, Native!Group

\* Tasks that end are threads that end.
LEMMA EndMaps ==
  ASSUME NativeInv, NEW S, S \subseteq Thread, End(S)
  PROVE  Native!End(S)
<1>1. \A u \in S : pc'[u] = "none"
  BY DEF End
<1>2. \A u \in Thread \ S :
        /\ pc'[u] = pc[u] /\ vcpu'[u] = vcpu[u] /\ ret'[u] = ret[u]
        /\ UNCHANGED cpuVars
  BY DEF End
<1>3. \A u \in Thread \ S : View(u)' = View(u)
  BY <1>2, ViewKept DEF cpuVars
<1>4. \A u \in S : stBar'[u] = "none" /\ callBar'[u] = "none" /\ retBar'[u] = 0
  BY <1>1, BarNext
<1>5. stBar' = [u \in Thread |-> IF u \in S THEN "none" ELSE stBar[u]]
  BY <1>3, <1>4, BarShape DEF View
<1>6. callBar' = [u \in Thread |-> IF u \in S THEN "none" ELSE callBar[u]]
  BY <1>3, <1>4, BarShape DEF View
<1>7. retBar' = [u \in Thread |-> IF u \in S THEN 0 ELSE retBar[u]]
  BY <1>3, <1>4, BarShape DEF View
<1>8. QED
  BY <1>5, <1>6, <1>7 DEF End, Native!End

\* The VM starts like the kernel: one thread in user code.
LEMMA StartMaps == Init => Native!Init
<1> SUFFICES ASSUME Init PROVE Native!Init
  OBVIOUS
<1>0. 0 \in Slot /\ MainThread \in Thread
  BY VcpusAssumption, ThreadAssumption DEF Slot
<1>1. /\ \A t \in Thread : pc[t] = IF t = MainThread THEN "run" ELSE "none"
      /\ vcpu[MainThread] = 0 /\ at[0] = "user" /\ a0[0] = 0
      /\ grp = [t \in Thread |-> t]
  BY <1>0 DEF Init
<1>2. \A t \in Thread : stBar[t] = IF t = MainThread THEN "user" ELSE "none"
  BY <1>1, BarAt DEF Pending
<1>3. \A t \in Thread : callBar[t] = "none" /\ retBar[t] = 0
  BY <1>1, <1>2, BarAt DEF Performed
<1>4. QED
  BY <1>1, <1>2, <1>3 DEF Native!Init, stBar, callBar, retBar

\* Steps of host_loop that leave the vcpus alone are not seen, unless they
\* begin or end a call.
LEMMA Hidden ==
  ASSUME NativeInv, NEW t \in Thread, NEW x, NEW y, Transition(t, y, x),
         y # "none", x # "none", y \notin {"store", "store_clone"},
         x \notin {"store", "store_clone"}, Pending(t)' <=> Pending(t),
         UNCHANGED <<vcpu, ret, grp, cpuVars>>
  PROVE  UNCHANGED Native!vars
<1>1. pc[t] = y /\ pc'[t] = x /\ \A u \in Thread \ {t} : pc'[u] = pc[u]
  BY DEF Transition, NativeInv, OwnInv, VcpuInv, TypeOK
<1>2. \A u \in Thread \ {t} : View(u)' = View(u)
  BY <1>1, ViewKept DEF cpuVars
<1>3. stBar'[t] = stBar[t]
  BY <1>1, BarAt, BarNext DEF cpuVars
<1>4. callBar'[t] = callBar[t] /\ retBar'[t] = retBar[t]
  BY <1>1, <1>3, BarAt, BarNext DEF cpuVars, Performed
<1>5. QED
  BY <1>2, <1>3, <1>4, Stutters DEF View

\* A group that is killed in a call Dune gives up is one the kernel may kill.
LEMMA GivesUp ==
  ASSUME NativeInv, NEW t \in Thread, Pending(t), End(Group(t)),
         param[vcpu[t]].nr \in Clones \union {"kexec_load"}
  PROVE  Native!Next
<1>1. stBar[t] = "called" /\ callBar[t] = param[vcpu[t]].nr
  BY BarAt DEF Pending
<1>2. Native!End(Native!Group(t))
  BY EndMaps, GroupMaps DEF Group, Live
<1>3. Native!GiveUp(t)
  BY <1>1, <1>2 DEF Native!GiveUp, Native!Clones, Clones
<1>4. QED
  BY <1>3 DEF Native!Next

\* At its syscall instruction the host has loaded the call of its guest.
LEMMA SyscallLoaded ==
  ASSUME NativeInv, NEW t \in Thread, pc[t] = "syscall"
  PROVE  /\ req[t].nr = param[vcpu[t]].nr
         /\ req[t].nr \notin Clones \union {"kexec_load"}
         /\ at[vcpu[t]] = "trap"
<1>1. Pending(t)
  BY DEF Pending
<1>2. sysno[t] = param[vcpu[t]].nr
  BY <1>1 DEF NativeInv, OwnInv, OwnParts, SysnoKept
<1>3. req[t].nr = sysno[t]
  <2>1. req[t] = [nr |-> sysno[t], by |-> t]
    BY DEF NativeInv, OwnInv, OwnParts, ReqLoaded
  <2>2. QED
    BY <2>1
<1>4. sysno[t] \notin Clones \union {"kexec_load"} /\ at[vcpu[t]] = "trap"
  BY <1>1 DEF NativeInv, NativeParts, Routed, InTrap
<1>5. QED
  BY <1>2, <1>3, <1>4

\* A clone is made with the flags its guest left in the block.
LEMMA OwnFlags ==
  ASSUME NativeInv, NEW t \in Thread, pc[t] = "clone"
  PROVE  FlagsIntact(vcpu[t])
<1>1. Pending(t)
  BY DEF Pending
<1>2. sysno[t] = param[vcpu[t]].nr /\ param[vcpu[t]].by = t
  BY <1>1 DEF NativeInv, OwnInv, OwnParts, SysnoKept, BlockOwned
<1>3. sysno[t] \in Clones
  BY DEF NativeInv, NativeParts, Routed, CloneLabels, SetUp
<1>4. t # NoThread
  BY ThreadAssumption DEF NoThread
<1>5. QED
  BY <1>2, <1>3, <1>4 DEF FlagsIntact

\* Every prompt step is a step of a kernel thread, or none.
LEMMA StepMaps ==
  PromptExit /\ CloneErrno = {} /\ NativeInv /\ [Next]_vars
    => [Native!Next]_(Native!vars)
<1> SUFFICES ASSUME PromptExit, CloneErrno = {}, NativeInv, [Next]_vars
             PROVE  Native!Next \/ UNCHANGED Native!vars
  OBVIOUS
<1>t. TypeOK /\ VcpuParts /\ OwnParts /\ NativeParts
  BY DEF NativeInv, OwnInv, VcpuInv
<1>s. \A t \in Live : vcpu[t] \in Slot
  BY <1>t DEF TypeOK, Live
<1>0. CASE UNCHANGED vars
  <2>1. \A u \in Thread : View(u)' = View(u)
    BY <1>0, ViewKept DEF vars, poolVars, hostVars, cpuVars
  <2>2. QED
    BY <1>0, <2>1, Stutters DEF vars, hostVars
<1>1. ASSUME NEW t \in Thread, NEW k \in Calls, GuestSyscall(t, k) PROVE Native!Next
  <2>1. /\ t \in Live /\ vcpu[t] \in Slot /\ pc[t] = "guest" /\ at[vcpu[t]] = "user"
        /\ pc'[t] = "exited" /\ vcpu' = vcpu /\ reason'[vcpu[t]] = "hypercall"
        /\ param'[vcpu[t]].nr = k /\ a0'[vcpu[t]] = 0 /\ grp' = grp
        /\ \A u \in Thread \ {t} : pc'[u] = pc[u] /\ ret'[u] = ret[u]
        /\ \A s \in Slot \ {vcpu[t]} :
             /\ param'[s] = param[s] /\ reason'[s] = reason[s]
             /\ at'[s] = at[s] /\ a0'[s] = a0[s]
    BY <1>1, <1>t, <1>s DEF GuestSyscall, Transition, TypeOK, Live, Block
  <2>2. \A u \in Thread \ {t} : View(u)' = View(u)
    BY <2>1, OthersKept
  <2>3. stBar[t] = "user" /\ stBar'[t] = "called"
    BY <2>1, BarAt, BarNext DEF Pending
  <2>4. callBar'[t] = k /\ retBar'[t] = 0
    BY <2>1, <2>3, BarNext DEF Performed
  <2>5. Native!Issue(t, k)
    BY <2>1, <2>2, <2>3, <2>4, OneMoves DEF Native!Issue
  <2>6. QED
    BY <2>5 DEF Native!Next
<1>2. ASSUME NEW t \in Thread, GuestReturn(t) PROVE Native!Next
  <2>1. /\ t \in Live /\ vcpu[t] \in Slot /\ pc[t] = "guest" /\ at[vcpu[t]] = "trap"
        /\ pc' = pc /\ vcpu' = vcpu /\ at'[vcpu[t]] = "user"
        /\ a0'[vcpu[t]] = param[vcpu[t]].a0 /\ grp' = grp /\ ret' = ret
        /\ \A s \in Slot \ {vcpu[t]} :
             /\ param'[s] = param[s] /\ reason'[s] = reason[s]
             /\ at'[s] = at[s] /\ a0'[s] = a0[s]
    BY <1>2, <1>t, <1>s DEF GuestReturn, TypeOK, Live, hostVars
  <2>2. \A u \in Thread \ {t} : View(u)' = View(u)
    BY <2>1, OthersKept
  <2>3. stBar[t] = "answered" /\ stBar'[t] = "user"
    BY <2>1, BarAt, BarNext DEF Pending
  <2>4. callBar'[t] = "none" /\ retBar'[t] = retBar[t]
    BY <2>1, <2>3, BarAt, BarNext DEF Performed
  <2>5. Native!Return(t)
    <3>1. retBar' = retBar
      BY <2>2, <2>4, BarShape DEF View
    <3>2. QED
      BY <2>1, <2>2, <2>3, <2>4, <3>1, OneMoves DEF Native!Return
  <2>6. QED
    BY <2>5 DEF Native!Next
<1>3. ASSUME NEW t \in Thread, GuestInterrupted(t) \/ GuestFault(t)
      PROVE  UNCHANGED Native!vars
  <2>1. /\ t \in Live /\ vcpu[t] \in Slot /\ pc[t] = "guest" /\ pc'[t] = "exited"
        /\ reason'[vcpu[t]] # "hypercall"
        /\ UNCHANGED <<vcpu, ret, grp, param, at, a0>>
        /\ \A u \in Thread \ {t} : pc'[u] = pc[u]
        /\ \A s \in Slot \ {vcpu[t]} : reason'[s] = reason[s]
    BY <1>3, <1>t, <1>s DEF GuestInterrupted, GuestFault, Transition, TypeOK, Live
  <2>2. \A u \in Thread \ {t} : View(u)' = View(u)
    BY <2>1, OthersKept
  <2>3. stBar'[t] = stBar[t]
    BY <2>1, BarAt, BarNext DEF Pending
  <2>4. callBar'[t] = callBar[t] /\ retBar'[t] = retBar[t]
    BY <2>1, <2>3, BarAt, BarNext DEF Performed
  <2>5. QED
    BY <2>1, <2>2, <2>3, <2>4, Stutters DEF View
<1>4. ASSUME NEW t \in Thread, KvmRun(t) \/ ReadSysno(t) \/ DispatchIntr(t)
                               \/ DispatchSyscall(t)
      PROVE  UNCHANGED Native!vars
  <2>1. UNCHANGED <<vcpu, ret, grp, cpuVars>>
    BY <1>4 DEF KvmRun, ReadSysno, DispatchIntr, DispatchSyscall
  <2>2. reason'[vcpu'[t]] = reason[vcpu[t]]
    BY <2>1 DEF cpuVars
  <2>3. CASE KvmRun(t)
    <3>1. Transition(t, "run", "guest") /\ pc[t] = "run" /\ pc'[t] = "guest"
      BY <2>3, <1>t DEF KvmRun, Transition, TypeOK
    <3>2. Pending(t)' <=> Pending(t)
      BY <3>1 DEF Pending
    <3>3. QED
      BY <2>1, <3>1, <3>2, Hidden
  <2>4. CASE ReadSysno(t)
    <3>1. Transition(t, "exited", "dispatch") /\ pc[t] = "exited" /\ pc'[t] = "dispatch"
      BY <2>4, <1>t DEF ReadSysno, Transition, TypeOK
    <3>2. Pending(t)' <=> Pending(t)
      BY <2>2, <3>1 DEF Pending
    <3>3. QED
      BY <2>1, <3>1, <3>2, Hidden
  <2>5. CASE DispatchIntr(t)
    <3>1. /\ Transition(t, "dispatch", "run") /\ pc[t] = "dispatch" /\ pc'[t] = "run"
          /\ reason[vcpu[t]] = "intr"
      BY <2>5, <1>t DEF DispatchIntr, Transition, TypeOK
    <3>2. Pending(t)' <=> Pending(t)
      BY <3>1 DEF Pending
    <3>3. QED
      BY <2>1, <3>1, <3>2, Hidden
  <2>6. CASE DispatchSyscall(t)
    <3>1. /\ Transition(t, "dispatch", Entry(sysno[t])) /\ pc[t] = "dispatch"
          /\ pc'[t] = Entry(sysno[t]) /\ reason[vcpu[t]] = "hypercall"
      BY <2>6, <1>t DEF DispatchSyscall, Transition, TypeOK
    <3>2. Entry(sysno[t]) \in {"free_lock", "alloc_lock", "call"}
      BY DEF Entry
    <3>3. Pending(t)' /\ Pending(t)
      BY <3>1, <3>2 DEF Pending
    <3>4. QED
      BY <2>1, <3>1, <3>2, <3>3, Hidden
  <2>7. QED
    BY <1>4, <2>3, <2>4, <2>5, <2>6
<1>5. ASSUME NEW t \in Thread, DispatchDie(t) PROVE Native!Next
  <2>1. pc[t] = "dispatch" /\ End(Group(t))
    BY <1>5 DEF DispatchDie, Die
  <2>2. CASE reason[vcpu[t]] \notin {"intr", "hypercall"}
    <3>1. Faults /\ stBar[t] = "user"
      BY <2>1, <2>2, <1>t, BarAt DEF NativeParts, FaultsOnly, Pending
    <3>2. Native!End(Native!Group(t))
      BY <2>1, EndMaps, GroupMaps DEF Group, Live
    <3>3. QED
      BY <3>1, <3>2 DEF Native!Fault, Native!Next
  <2>3. CASE reason[vcpu[t]] = "hypercall" /\ sysno[t] = "kexec_load"
    BY <2>1, <2>3, <1>t, GivesUp DEF OwnParts, SysnoKept, Pending
  <2>4. QED
    BY <1>5, <2>2, <2>3 DEF DispatchDie
<1>6. ASSUME NEW t \in Thread, LoadNr(t) \/ LoadArgs(t) \/ FreeStep(t) \/ AllocStep(t),
             ~FreeAbort(t), ~NoMoreVcpu(t), ~SetUpFails(t)
      PROVE  UNCHANGED Native!vars
  <2> DEFINE Underway == Labels \ {"none", "run", "guest", "exited", "dispatch",
                                   "store", "store_clone"}
  <2>1. \E x, y \in Underway :
          Transition(t, y, x) /\ UNCHANGED <<vcpu, ret, grp, cpuVars>>
    BY <1>6 DEF LoadNr, LoadArgs, FreeStep, AllocStep, FreeLock, FreeClear,
        FreeUnlock, AllocLock, AllocTake, AllocNone, AllocUnlock, AfterScan,
        Calloc, CreateVcpu, MmapRun, Acquire, Release, Labels
  <2>2. PICK x \in Underway, y \in Underway :
          Transition(t, y, x) /\ UNCHANGED <<vcpu, ret, grp, cpuVars>>
    BY <2>1
  <2>3. Pending(t) /\ Pending(t)'
    BY <2>2, <1>t DEF Transition, Pending, TypeOK
  <2>4. QED
    BY <2>2, <2>3, Hidden
<1>7. ASSUME NEW t \in Thread, NEW r \in Answers(req[t].nr),
             SyscallAnswered(t, r)
      PROVE  Native!Next
  <2>1. /\ pc[t] = "syscall" /\ pc'[t] = "store" /\ ret'[t] = r
        /\ UNCHANGED <<vcpu, grp, cpuVars>>
        /\ \A u \in Thread \ {t} : pc'[u] = pc[u] /\ ret'[u] = ret[u]
    BY <1>7, <1>t DEF SyscallAnswered, Transition, TypeOK
  <2>2. /\ req[t].nr = param[vcpu[t]].nr /\ req[t].nr # "kexec_load"
        /\ at[vcpu[t]] = "trap"
    BY <2>1, SyscallLoaded
  <2>3. stBar[t] = "called" /\ stBar'[t] = "answered"
    BY <2>1, <2>2, BarAt, BarNext DEF Pending, cpuVars
  <2>4. /\ callBar[t] = req[t].nr /\ callBar'[t] = callBar[t] /\ retBar'[t] = r
    BY <2>1, <2>2, <2>3, BarAt, BarNext DEF Performed, cpuVars
  <2>5. \A u \in Thread \ {t} : View(u)' = View(u)
    BY <2>1, ViewKept DEF cpuVars
  <2>6. callBar' = callBar
    BY <2>4, <2>5, BarShape DEF View
  <2>7. Native!Answer(t, r)
    <3>1. \/ req[t].nr = "sys" /\ r \in {0} \union {-e : e \in Errno}
          \/ req[t].nr = "execve" /\ r \in {-e : e \in Errno}
      BY <1>7, <2>1, <2>2, SyscallLoaded DEF Answers, Clones
    <3>2. QED
      BY <3>1, <2>1, <2>3, <2>4, <2>5, <2>6, OneMoves DEF Native!Answer
  <2>8. r \in {0} \union {-e : e \in Errno \union CloneErrno}
    BY <1>7, <2>1, <2>2, SyscallLoaded DEF Answers, Clones
  <2>9. QED
    BY <2>7, <2>8 DEF Native!Next
<1>8. ASSUME NEW t \in Thread, SyscallExit(t) \/ SyscallEndsGroup(t)
      PROVE  Native!Next
  <2>1. /\ pc[t] = "syscall" /\ req[t].nr = param[vcpu[t]].nr
        /\ req[t].nr \notin Clones
    BY <1>8, SyscallLoaded DEF SyscallExit, SyscallEndsGroup, Clones
  <2>2. stBar[t] = "called" /\ callBar[t] = req[t].nr
    BY <2>1, BarAt DEF Pending
  <2>3. CASE SyscallExit(t)
    BY <2>2, <2>3, EndMaps DEF SyscallExit, Native!Exit, Native!Next
  <2>4. CASE SyscallEndsGroup(t)
    <3>1. Native!End(Native!Group(t))
      BY <2>4, EndMaps, GroupMaps DEF SyscallEndsGroup, Group, Live
    <3>2. QED
      BY <2>1, <2>2, <2>4, <3>1
      DEF SyscallEndsGroup, Clones, Native!EndGroup, Native!Next
  <2>5. QED
    BY <1>8, <2>3, <2>4
<1>9. ASSUME NEW t \in Thread, StoreRet(t) \/ StoreClone(t)
      PROVE  UNCHANGED Native!vars
  <2>1. /\ t \in Live /\ vcpu[t] \in Slot /\ Performed(t) /\ pc'[t] = "run"
        /\ at[vcpu[t]] = "trap" /\ param[vcpu[t]] \in Block
    BY <1>9, <1>t, <1>s DEF StoreRet, StoreClone, Transition, TypeOK, Live,
        NativeParts, InTrap, Performed
  <2>2. param'[vcpu[t]] = [param[vcpu[t]] EXCEPT !.a0 = ret[t], !.by = NoThread]
    <3>1. CASE StoreRet(t)
      BY <3>1, <2>1, <1>t DEF StoreRet, TypeOK
    <3>2. CASE StoreClone(t)
      <4>1. CloneAnswer(ret[t]) = ret[t]
        BY <3>2, <1>t, ThreadAssumption DEF StoreClone, Transition, CloneAnswer,
            NativeParts, PidAnswer
      <4>2. QED
        BY <3>2, <4>1, <2>1, <1>t DEF StoreClone, TypeOK
    <3>3. QED
      BY <1>9, <3>1, <3>2
  <2>3. /\ UNCHANGED <<vcpu, grp, reason, at, a0>>
        /\ \A u \in Thread \ {t} : pc'[u] = pc[u] /\ ret'[u] = ret[u]
        /\ \A s \in Slot \ {vcpu[t]} : param'[s] = param[s]
    BY <1>9, <1>t DEF StoreRet, StoreClone, Transition, TypeOK
  <2>4. \A u \in Thread \ {t} : View(u)' = View(u)
    BY <2>1, <2>3, OthersKept
  <2>5. param'[vcpu[t]].nr = param[vcpu[t]].nr /\ param'[vcpu[t]].a0 = ret[t]
    BY <2>1, <2>2 DEF Block
  <2>6. stBar[t] = "answered" /\ stBar'[t] = "answered"
    BY <2>1, <2>3, BarAt, BarNext DEF Pending, Performed, Live
  <2>7. callBar'[t] = callBar[t] /\ retBar'[t] = retBar[t]
    BY <2>1, <2>3, <2>5, <2>6, BarAt, BarNext DEF Performed
  <2>8. QED
    BY <2>3, <2>4, <2>6, <2>7, Stutters DEF View
<1>10. ASSUME NEW t \in Thread, FreeAbort(t) PROVE FALSE
  BY <1>10, <1>t DEF FreeAbort, OwnParts, FreedLeaves, Left, Live
<1>11. ASSUME NEW t \in Thread, NoMoreVcpu(t) \/ SetUpFails(t) \/ SysCloneGarbled(t)
       PROVE  Native!Next
  <2>1. pc[t] \in CloneLabels /\ End(Group(t))
    BY <1>11 DEF NoMoreVcpu, SetUpFails, SysCloneGarbled, Die, CloneLabels, SetUp
  <2>2. Pending(t) /\ param[vcpu[t]].nr \in Clones
    BY <2>1, <1>t DEF OwnParts, SysnoKept, NativeParts, Routed, Pending,
        CloneLabels, SetUp
  <2>3. QED
    BY <2>1, <2>2, GivesUp
<1>12. ASSUME NEW t \in Thread, InitChild(t) PROVE UNCHANGED Native!vars
  <2>1. /\ pc[t] = "init" /\ pc'[t] = "clone" /\ child[t] \in Slot
        /\ \A u \in Thread \ {t} : pc'[u] = pc[u]
        /\ \A s \in Slot \ {child[t]} : at'[s] = at[s] /\ a0'[s] = a0[s]
        /\ UNCHANGED <<vcpu, ret, grp, param, reason>>
    BY <1>12, <1>t DEF InitChild, Transition, TypeOK, SetUp
  <2>2. \A u \in Live : vcpu[u] \in Slot \ {child[t]}
    BY <2>1, <1>t, <1>s DEF VcpuParts, ChildApart, Holds, Live
  <2>3. \A u \in Thread \ {t} : View(u)' = View(u)
    BY <2>1, <2>2, ViewKept DEF Live
  <2>4. stBar[t] = "called" /\ stBar'[t] = "called"
    BY <2>1, BarAt, BarNext DEF Pending
  <2>5. callBar'[t] = callBar[t] /\ retBar'[t] = retBar[t]
    BY <2>1, <2>2, <2>4, BarAt, BarNext DEF Performed, Live
  <2>6. QED
    BY <2>1, <2>3, <2>4, <2>5, Stutters DEF View
<1>13. ASSUME NEW t \in Thread, NEW u \in Thread, SysClone(t, u) PROVE Native!Next
  <2>1. /\ pc[t] = "clone" /\ pc[u] = "none" /\ t # u /\ child[t] \in Slot
        /\ \A w \in Live : grp[w] # u
        /\ at[child[t]] = "user" /\ a0[child[t]] = 0 /\ at[vcpu[t]] = "trap"
    BY <1>13, <1>t DEF SysClone, Unused, Live, TypeOK, SetUp, NativeParts,
        ChildFresh, InTrap, Pending
  <2>2. /\ pc'[t] = "store_clone" /\ pc'[u] = "run" /\ vcpu'[u] = child[t]
        /\ ret'[t] = u
        /\ \A w \in Thread \ {t, u} : pc'[w] = pc[w]
        /\ \A w \in Thread \ {u} : vcpu'[w] = vcpu[w]
        /\ \A w \in Thread \ {t} : ret'[w] = ret[w]
        /\ UNCHANGED <<param, reason, at, a0>>
    BY <1>13, <1>t, <2>1 DEF SysClone, TypeOK
  <2>g. /\ param[vcpu[t]].nr \in Clones
        /\ grp' = [grp EXCEPT ![u] = IF param[vcpu[t]].nr = "clone_thread"
                                     THEN grp[t] ELSE u]
    BY <1>13, <2>1, OwnFlags DEF SysClone, CloneFlags, FlagsIntact
  <2>3. \A w \in Thread \ {t, u} : View(w)' = View(w)
    BY <2>2, ViewKept
  <2>4. /\ stBar[t] = "called" /\ stBar'[t] = "answered"
        /\ stBar[u] = "none" /\ stBar'[u] = "user"
    BY <2>1, <2>2, BarAt, BarNext DEF Pending
  <2>5. /\ callBar[t] = param[vcpu[t]].nr /\ callBar'[t] = callBar[t]
        /\ retBar'[t] = u /\ callBar[u] = "none" /\ callBar'[u] = "none"
        /\ retBar'[u] = 0
    BY <2>1, <2>2, <2>4, BarAt, BarNext DEF Performed
  <2>6. /\ stBar' = [stBar EXCEPT ![t] = "answered", ![u] = "user"]
        /\ retBar' = [retBar EXCEPT ![t] = u, ![u] = 0]
        /\ callBar' = callBar
    BY <2>1, <2>3, <2>4, <2>5, BarShape DEF View
  <2>7. \A w \in Thread : stBar[w] # "none" => grp[w] # u
    BY <2>1, BarAt DEF Live
  <2>8. Native!Clone(t, u)
    BY <2>g, <2>4, <2>5, <2>6, <2>7 DEF Native!Clone, Native!Clones, Clones
  <2>9. QED
    BY <2>1, <2>8 DEF Native!Next
<1>14. ASSUME NEW t \in Thread,
              (\E e \in CloneErrno : SysCloneFails(t, e))
                \/ \E u \in Thread : SysCloneLost(t, u)
       PROVE  FALSE
  BY <1>14, OwnFlags DEF SysCloneLost, Transition
<1>15. QED
  BY <1>0, <1>1, <1>2, <1>3, <1>4, <1>5, <1>6, <1>7, <1>8, <1>9, <1>10, <1>11,
      <1>12, <1>13, <1>14
  DEF Next, GuestStep, LoopStep, FreeStep, AllocStep, CloneStep, Finished

\* The VM implements native threads: while exits are prompt and the host's
\* clone does not fail, every run of host_loop, its vcpu pool and its
\* interrupted KVM_RUNs is, to the guest, a run of its threads on the kernel.
THEOREM ImplementsNative ==
  ASSUME PromptExit, CloneErrno = {}
  PROVE  Spec => NativeSpec
<1>1. Init => Native!Init
  BY StartMaps
<1>2. NativeInv /\ [Next]_vars => NativeInv'
  BY NativeStep, NextIsAny
<1>3. NativeInv /\ [Next]_vars => [Native!Next]_(Native!vars)
  BY StepMaps
<1>4. QED
  BY <1>1, <1>2, <1>3, NativeInit, PTL DEF Spec, NativeSpec, Native!Spec

\* A step ends its task or the whole group, starts a task, or moves one that keeps
\* its vcpus.
LEMMA StepKinds ==
  ASSUME TypeOK, CloneErrno = {}, NEW t \in Thread,
         pc[t] = "clone" => FlagsIntact(vcpu[t]),
         GuestStep(t) \/ LoopStep(t) \/ FreeStep(t) \/ AllocStep(t) \/ CloneStep(t)
  PROVE  \/ SyscallExit(t)
         \/ t \in Live /\ End(Group(t))
         \/ \E u \in Thread : SysClone(t, u)
         \/ \E x, y \in Labels \ {"none"} :
              /\ Transition(t, y, x) /\ vcpu' = vcpu
              /\ \A u \in Thread : child'[u] = child[u] \/ child[u] \notin Slot
<1> DEFINE Moves(x, y) ==
      /\ Transition(t, y, x) /\ vcpu' = vcpu
      /\ \A u \in Thread : child'[u] = child[u] \/ child[u] \notin Slot
<1>1. CASE GuestStep(t)
  <2>1. CASE GuestReturn(t)
    <3>1. Moves("guest", "guest")
      BY <2>1 DEF GuestReturn, Transition, hostVars, TypeOK
    <3>2. QED
      BY <3>1 DEF Labels
  <2>2. CASE ~GuestReturn(t)
    <3>1. Moves("exited", "guest")
      BY <1>1, <2>2 DEF GuestStep, GuestSyscall, GuestInterrupted, GuestFault
    <3>2. QED
      BY <3>1 DEF Labels
  <2>3. QED
    BY <2>1, <2>2
<1>2. CASE LoopStep(t)
  <2>1. CASE DispatchDie(t) \/ SyscallExit(t) \/ SyscallEndsGroup(t)
    BY <2>1 DEF DispatchDie, SyscallEndsGroup, Die, Live
  <2>2. CASE DispatchSyscall(t)
    <3>1. Moves(Entry(sysno[t]), "dispatch")
      BY <2>2 DEF DispatchSyscall
    <3>2. Entry(sysno[t]) \in Labels \ {"none"}
      BY DEF Entry, Labels
    <3>3. QED
      BY <3>1, <3>2 DEF Labels
  <2>3. ASSUME ~DispatchDie(t), ~SyscallExit(t), ~SyscallEndsGroup(t),
               ~DispatchSyscall(t)
        PROVE  \E x, y \in Labels \ {"none"} : Moves(x, y)
    BY <1>2, <2>3 DEF LoopStep, KvmRun, ReadSysno, DispatchIntr, LoadNr, LoadArgs,
        SyscallAnswered, StoreRet, Labels
  <2>4. QED
    BY <2>1, <2>2, <2>3
<1>3. CASE FreeStep(t)
  <2>1. CASE FreeAbort(t)
    BY <2>1 DEF FreeAbort, Die, Live
  <2>2. ASSUME ~FreeAbort(t) PROVE \E x, y \in Labels \ {"none"} : Moves(x, y)
    BY <1>3, <2>2 DEF FreeStep, FreeLock, FreeClear, FreeUnlock, Acquire, Release,
        Labels
  <2>3. QED
    BY <2>1, <2>2
<1>4. CASE AllocStep(t)
  <2>1. CASE NoMoreVcpu(t) \/ SetUpFails(t)
    BY <2>1 DEF NoMoreVcpu, SetUpFails, Die, Live
  <2>2. ASSUME NEW s \in Slot, AllocTake(t, s) PROVE Moves("alloc_unlock", "alloc_scan")
    BY <2>2 DEF AllocTake, Transition, TypeOK, SetUp
  <2>3. CASE AllocUnlock(t)
    <3>1. Moves(AfterScan(child[t]), "alloc_unlock")
      BY <2>3 DEF AllocUnlock, Release
    <3>2. AfterScan(child[t]) \in Labels \ {"none"}
      BY DEF AfterScan, Labels
    <3>3. QED
      BY <3>1, <3>2 DEF Labels
  <2>4. ASSUME ~NoMoreVcpu(t), ~SetUpFails(t), ~AllocUnlock(t),
               ~\E s \in Slot : AllocTake(t, s)
        PROVE  \E x, y \in Labels \ {"none"} : Moves(x, y)
    BY <1>4, <2>4 DEF AllocStep, AllocLock, AllocNone, Acquire, Calloc, CreateVcpu,
        MmapRun, Labels
  <2>5. QED
    BY <2>1, <2>2, <2>3, <2>4 DEF Labels
<1>5. CASE CloneStep(t)
  <2>1. CASE SysCloneGarbled(t)
    BY <2>1 DEF SysCloneGarbled, Die, Live
  <2>2. CASE InitChild(t) \/ StoreClone(t)
    <3>1. \E x, y \in Labels \ {"none"} : Moves(x, y)
      BY <2>2 DEF InitChild, StoreClone, Labels
    <3>2. QED
      BY <3>1
  <2>3. QED
    BY <1>5, <2>1, <2>2 DEF CloneStep, SysCloneLost, Transition
<1>6. QED
  BY <1>1, <1>2, <1>3, <1>4, <1>5

\* A slot of vcpu_pool is lost only by a task that ends without SYS_EXIT.
SlotsKept ==
  \A s \in Slot : \A t \in Holder(s) :
    valid'[s] /\ Holder(s)' = {} => pc'[t] = "none" /\ req[t].nr # "exit"

\* Every step keeps the slots, or loses them so.
LEMMA SlotStep ==
  ASSUME NativeInv, CloneErrno = {}, [Next]_vars
  PROVE  SlotsKept
<1> USE DEF SlotsKept
<1>1. CASE UNCHANGED vars
  BY <1>1 DEF vars, poolVars, hostVars, cpuVars, Holder, Live
<1>2. CASE Next
  <2>t. TypeOK /\ VcpuParts /\ OwnParts /\ NativeParts
    BY DEF NativeInv, OwnInv, VcpuInv
  <2> SUFFICES ASSUME NEW s \in Slot, NEW t \in Holder(s), valid'[s], Holder(s)' = {}
               PROVE  pc'[t] = "none" /\ req[t].nr # "exit"
    OBVIOUS
  <2>0. t \in Live /\ s \in {vcpu[t], child[t]}
    BY DEF Holder
  <2>1. ASSUME NEW S, S \subseteq Thread, End(S)
        PROVE  pc'[t] = "none" /\ req[t].nr # "exit"
    <3>1. t \in S
      BY <2>0, <2>1 DEF End, Holder, Live
    <3>2. pc'[t] = "none" /\ valid[s]
      BY <2>0, <2>1, <3>1 DEF End, poolVars, Live
    <3>3. ASSUME req[t].nr = "exit" PROVE FALSE
      <4>0. pc[t] \in {"args", "syscall"}
        BY <2>0, <2>t, <3>3 DEF Live, NativeParts, ReqCleared, NoReq
      <4>1. sysno[t] = "exit"
        <5>1. \/ req[t].nr = sysno[t]
              \/ req[t] = [nr |-> sysno[t], by |-> t]
          BY <2>0, <2>t, <4>0 DEF Live, OwnParts, ReqLoaded
        <5>2. QED
          BY <3>3, <5>1
      <4>2. s = vcpu[t]
        BY <2>0, <2>t, <4>0 DEF TypeOK, SetUp, Live
      <4>3. ~valid[s]
        BY <2>0, <2>t, <4>0, <4>1, <4>2 DEF Live, NativeParts, LeftFreed, Left
      <4>4. QED
        BY <3>2, <4>3
    <3>4. QED
      BY <3>2, <3>3
  <2>2. ASSUME NEW w \in Thread, NEW u \in Thread, SysClone(w, u) PROVE FALSE
    <3>1. /\ pc[u] = "none" /\ pc[w] # "none" /\ vcpu'[u] = child[w]
          /\ pc'[u] # "none" /\ u # w
          /\ \A x \in Thread \ {u} : vcpu'[x] = vcpu[x]
          /\ \A x \in Thread \ {w} : child'[x] = child[x]
          /\ \A x \in Live : pc'[x] # "none"
      BY <2>2, <2>t DEF SysClone, Unused, Live, TypeOK
    <3>2. QED
      BY <2>0, <3>1 DEF Holder, Live
  <2>3. ASSUME NEW w \in Thread, NEW x, NEW y, x # "none", Transition(w, y, x),
               vcpu' = vcpu, \A u \in Thread : child'[u] = child[u] \/ child[u] \notin Slot
        PROVE  FALSE
    BY <2>0, <2>3, <2>t DEF Transition, Holder, Live, TypeOK
  <2>4. ASSUME NEW w \in Thread,
               GuestStep(w) \/ LoopStep(w) \/ FreeStep(w) \/ AllocStep(w) \/ CloneStep(w)
        PROVE  pc'[t] = "none" /\ req[t].nr # "exit"
    <3>1. CASE SyscallExit(w) \/ End(Group(w))
      BY <2>1, <3>1 DEF SyscallExit, Group, Live
    <3>2. CASE \E u \in Thread : SysClone(w, u)
      BY <2>2, <3>2
    <3>3. CASE \E x, y \in Labels \ {"none"} :
                 /\ Transition(w, y, x) /\ vcpu' = vcpu
                 /\ \A u \in Thread : child'[u] = child[u] \/ child[u] \notin Slot
      BY <2>3, <3>3
    <3>4. QED
      BY <2>t, <2>4, <3>1, <3>2, <3>3, StepKinds, OwnFlags
  <2>5. QED
    <3>1. t \in Thread /\ pc[t] # "none"
      BY <2>0 DEF Live
    <3>2. ~Finished
      BY <3>1 DEF Finished, Live
    <3>3. QED
      BY <1>2, <2>4, <3>2 DEF Next
<1>3. QED
  BY <1>1, <1>2

\* So nothing leaks, of one process or of several.
THEOREM NothingLeaks ==
  ASSUME PromptExit, CloneErrno = {}
  PROVE  Spec => NoLeak
<1>1. NativeInv /\ [Next]_vars => NativeInv'
  BY NativeStep, NextIsAny
<1>2. NativeInv /\ [Next]_vars => SlotsKept
  BY SlotStep
<1>3. QED
  BY <1>1, <1>2, NativeInit, PTL DEF Spec, NoLeak, SlotsKept

\* Only the scan claims a slot.
LEMMA SlotTaken ==
  ASSUME TypeOK, NEW t \in Thread, NEW s \in Slot, ~valid[s], valid'[s],
         GuestStep(t) \/ LoopStep(t) \/ FreeStep(t) \/ AllocStep(t) \/ CloneStep(t)
  PROVE  AllocTake(t, s)
<1>1. CASE GuestStep(t)
  BY <1>1 DEF GuestStep, GuestSyscall, GuestReturn, GuestInterrupted, GuestFault, poolVars
<1>2. CASE LoopStep(t)
  BY <1>2 DEF LoopStep, KvmRun, ReadSysno, DispatchIntr, DispatchDie, DispatchSyscall,
      LoadNr, LoadArgs, SyscallAnswered, SyscallExit, SyscallEndsGroup, StoreRet, Die, End,
      poolVars
<1>3. CASE FreeStep(t)
  BY <1>3 DEF FreeStep, FreeLock, FreeClear, FreeAbort, FreeUnlock, Acquire, Release, Die,
      End, poolVars, TypeOK
<1>4. CASE AllocStep(t)
  <2>1. ASSUME NEW r \in Slot, AllocTake(t, r) PROVE r = s
    BY <2>1 DEF AllocTake, TypeOK
  <2>2. ASSUME ~\E r \in Slot : AllocTake(t, r) PROVE FALSE
    BY <1>4, <2>2 DEF AllocStep, AllocLock, AllocNone, AllocUnlock, NoMoreVcpu, Calloc,
        CreateVcpu, MmapRun, SetUpFails, Acquire, Release, Die, End, poolVars
  <2>3. QED
    BY <2>1, <2>2
<1>5. CASE CloneStep(t)
  BY <1>5 DEF CloneStep, InitChild, SysClone, SysCloneFails, SysCloneLost, SysCloneGarbled,
      StoreClone, Die, End, poolVars
<1>6. QED
  BY <1>1, <1>2, <1>3, <1>4, <1>5

\* A claimed slot has a task that runs its vcpu or sets it up.
Accounted == Live # {} => \A s \in Slot : valid[s] => Holder(s) # {}

\* Every step of a VM of one process keeps it so.
LEMMA AccountedStep ==
  ASSUME NativeInv, GroupInv, Accounted, CloneErrno = {},
         "clone_process" \notin Calls \union Flags, [Next]_vars
  PROVE  Accounted'
<1>t. TypeOK
  BY DEF GroupInv, PoolInv
<1>1. CASE UNCHANGED vars
  BY <1>1 DEF vars, poolVars, hostVars, Accounted, Holder, Live
<1>2. ASSUME NEW w \in Thread,
             GuestStep(w) \/ LoopStep(w) \/ FreeStep(w) \/ AllocStep(w) \/ CloneStep(w)
      PROVE  Accounted'
  <2> SUFFICES ASSUME NEW s \in Slot, valid'[s], Live' # {}, Holder(s)' = {} PROVE FALSE
    BY DEF Accounted
  <2>1. CASE Holder(s) # {}
    <3>1. PICK t \in Holder(s) : pc'[t] = "none" /\ req[t].nr # "exit"
      BY <2>1, SlotStep DEF SlotsKept
    <3>2. t \in Thread /\ pc[t] # "none"
      BY <3>1 DEF Holder, Live
    <3>3. CASE SyscallExit(w)
      BY <3>1, <3>2, <3>3 DEF SyscallExit, End
    <3>4. CASE w \in Live /\ End(Group(w))
      <4>1. Group(w) = Live
        BY <3>4 DEF GroupInv, OneGroup, Group
      <4>2. Live' = {}
        BY <3>4, <4>1 DEF End, Live
      <4>3. QED
        BY <4>2
    <3>5. CASE \E u \in Thread : SysClone(w, u)
      BY <3>1, <3>2, <3>5, <1>t DEF SysClone, TypeOK
    <3>6. CASE \E x, y \in Labels \ {"none"} : Transition(w, y, x)
      BY <3>1, <3>2, <3>6, <1>t DEF Transition, TypeOK
    <3>7. QED
      BY <1>2, <1>t, <3>3, <3>4, <3>5, <3>6, StepKinds, OwnFlags
  <2>2. CASE Holder(s) = {}
    <3>1. ~valid[s]
      <4>1. CASE Live = {}
        BY <1>2, <4>1, <1>t, StepKinds, OwnFlags DEF Live, SyscallExit, SysClone, Transition
      <4>2. QED
        BY <2>2, <4>1 DEF Accounted
    <3>2. AllocTake(w, s)
      BY <1>2, <1>t, <3>1, SlotTaken
    <3>3. w \in Live' /\ child'[w] = s
      BY <3>2, <1>t DEF AllocTake, Transition, TypeOK, Live
    <3>4. QED
      BY <3>3 DEF Holder
  <2>3. QED
    BY <2>1, <2>2
<1>3. QED
  BY <1>1, <1>2 DEF Next, Finished

\* In a VM of one process no vcpu is ever lost, however long it creates and ends
\* threads: a clone finds no vcpu only when live tasks run, or set up, all of them.
THEOREM PoolAccounted ==
  ASSUME PromptExit, CloneErrno = {}, "clone_process" \notin Calls \union Flags
  PROVE  Spec => []Accounted
<1>1. ASSUME Init PROVE Accounted
  <2>1. /\ MainThread \in Live /\ vcpu[MainThread] = 0
        /\ \A s \in Slot : valid[s] => s = 0
    BY <1>1, ThreadAssumption DEF Init, Live
  <2>2. QED
    BY <2>1 DEF Accounted, Holder
<1>2. NativeInv /\ [Next]_vars => NativeInv'
  BY NativeStep, NextIsAny
<1>3. NativeInv /\ GroupInv /\ Accounted /\ [Next]_vars => Accounted'
  BY AccountedStep
<1>4. QED
  BY <1>1, <1>2, <1>3, NativeInit, GroupInit, GroupStep, PTL DEF Spec

-----------------------------------------------------------------------------
(* The programs of Examples: nothing is joined too early.                  *)

\* The threads of the program, and their texts.
Names == 0 .. Count(example)
Prog  == [i \in Names |-> Text(i)]

\* How many threads main has asked for.
Asked == Cardinality({n \in 1 .. made[0] : Prog[0][n].nr \in Clones})

ProgTypes ==
  /\ name \in [Thread -> Names] /\ made \in [Names -> Nat]
  /\ over \subseteq Names /\ failed \subseteq Names
  /\ \A i \in Names : made[i] <= Len(Prog[i])

\* No two tasks run one thread, and what has ended runs no more.
NamesDiffer ==
  \A t \in Live : name[t] \notin over /\ \A u \in Live : name[t] = name[u] => t = u

\* The call that a vcpu's block holds for the host is the last its thread made.
LastCall ==
  \A t \in Live : Pending(t) =>
    /\ made[name[t]] > 0
    /\ param[vcpu[t]].nr = Prog[name[t]][made[name[t]]].nr

\* KVM_RUN returns for signals and calls only: the programs do not fault.
NoFault ==
  \A t \in Live :
    pc[t] \in {"exited", "dispatch"} => reason[vcpu[t]] \in {"intr", "hypercall"}

\* What main waited for in its last call has ended, once the call is performed,
\* or was never made.
Awaited ==
  \A t \in Live : name[t] = 0 /\ ~Pending(t) /\ made[0] > 0 =>
    Prog[0][made[0]].for \in over \union failed \union {0}

\* The threads are made in the order in which main asks for them, one by one.
Born ==
  /\ \A t \in Live : name[t] <= Asked
  /\ \A i \in over : i <= Asked
Wanted ==
  \A m \in Live : name[m] = 0 /\ Pending(m) /\ Prog[0][made[0]].nr \in Clones =>
    (\A t \in Live : name[t] < Asked) /\ (\A i \in over : i < Asked)

\* JoinedWhenDone, of the texts.
EndedDone == 0 \notin over => \A i \in over : made[i] = Len(Prog[i])
JoinDone  ==
  \A n \in 1 .. made[0] - 1 :
    LET i == Prog[0][n].for
    IN  i \notin failed \union {0} => i \in over /\ made[i] = Len(Prog[i])

ProgParts ==
  /\ ProgTypes /\ NamesDiffer /\ LastCall /\ NoFault /\ Awaited /\ Born /\ Wanted
  /\ EndedDone /\ JoinDone

ProgInv ==
  /\ NativeInv /\ example \in {"any", "pthread", "clone"}
  /\ example # "any" => ProgParts

-----------------------------------------------------------------------------
(* The texts.                                                              *)

\* The calls the texts are made of.
TextCalls == [nr : {"sys", "exit", "exit_group"} \union Clones, for : Names]

\* The text of a thread other than main ends with its only exit, and makes no
\* thread.
LEMMA ChildTexts ==
  ASSUME example \in {"pthread", "clone"}, NEW i \in Names \ {0}
  PROVE  /\ Text(i) \in Seq(TextCalls) /\ Len(Text(i)) \in Nat
         /\ \A n \in 1 .. Len(Text(i)) :
              /\ Text(i)[n].nr \in {"sys", "exit"}
              /\ Text(i)[n].nr = "exit" => n = Len(Text(i))
<1>0. 0 \in Names
  BY CountAssumption DEF Names, Count
<1>1. CASE example = "pthread"
  <2>1. Text(i) = <<Plain("sys"), Plain("sys"), Plain("exit")>>
    BY <1>1 DEF Text, thread_fn_01, Names
  <2>2. Plain("sys") \in TextCalls /\ Plain("exit") \in TextCalls
    BY <1>0 DEF Plain, TextCalls
  <2>3. QED
    BY <2>1, <2>2 DEF Plain
<1>2. CASE example = "clone"
  <2>1. Text(i) = <<Plain("sys"), Plain("exit")>>
    BY <1>2 DEF Text, childFunc, Names
  <2>2. Plain("sys") \in TextCalls /\ Plain("exit") \in TextCalls
    BY <1>0 DEF Plain, TextCalls
  <2>3. QED
    BY <2>1, <2>2 DEF Plain
<1>3. QED
  BY <1>1, <1>2

\* Main of pthread.c: thread_cnt clones, thread_cnt waits, and its end.
LEMMA PthreadMain ==
  /\ Len(test01) = thread_cnt + thread_cnt + 1
  /\ \A n \in 1 .. Len(test01) :
       test01[n] = IF n <= thread_cnt THEN Plain("clone_thread")
                   ELSE IF n <= thread_cnt + thread_cnt THEN Await(n - thread_cnt)
                   ELSE Plain("exit_group")
<1> DEFINE A == {Plain("clone_thread"), Plain("exit_group")}
                  \union {Await(i) : i \in 1 .. thread_cnt}
           E == <<Plain("exit_group")>>
<1>1. spawn_threads \in [1 .. thread_cnt -> A] /\ wait_threads \in [1 .. thread_cnt -> A]
  BY DEF spawn_threads, wait_threads, safe_pthread_create, safe_pthread_join
<1>2. spawn_threads \in Seq(A) /\ wait_threads \in Seq(A)
  BY <1>1, CountAssumption, SeqDef
<1>3. Len(spawn_threads) = thread_cnt /\ Len(wait_threads) = thread_cnt
  <2>1. DOMAIN spawn_threads = 1 .. thread_cnt /\ DOMAIN wait_threads = 1 .. thread_cnt
    BY <1>1
  <2>2. QED
    BY <1>2, <2>1, LenProperties, CountAssumption
<1>4. E \in Seq(A) /\ Len(E) = 1 /\ E[1] = Plain("exit_group")
  OBVIOUS
<1> HIDE DEF A, E
<1>5. /\ wait_threads \o E \in Seq(A) /\ Len(wait_threads \o E) = thread_cnt + 1
      /\ \A n \in 1 .. thread_cnt + 1 :
           (wait_threads \o E)[n] =
             IF n <= thread_cnt THEN wait_threads[n] ELSE E[n - thread_cnt]
  <2>1. /\ wait_threads \o E \in Seq(A)
        /\ Len(wait_threads \o E) = Len(wait_threads) + Len(E)
        /\ \A n \in 1 .. Len(wait_threads) + Len(E) :
             (wait_threads \o E)[n] =
               IF n <= Len(wait_threads) THEN wait_threads[n]
               ELSE E[n - Len(wait_threads)]
    BY <1>2, <1>4, ConcatProperties
  <2>2. QED
    BY <2>1, <1>3, <1>4
<1>6. spawn_threads \o wait_threads \o E = spawn_threads \o (wait_threads \o E)
  BY <1>2, <1>4, ConcatAssociative
<1>7. /\ Len(test01) = thread_cnt + (thread_cnt + 1)
      /\ \A n \in 1 .. thread_cnt + (thread_cnt + 1) :
           test01[n] = IF n <= thread_cnt THEN spawn_threads[n]
                       ELSE (wait_threads \o E)[n - thread_cnt]
  BY <1>2, <1>3, <1>5, <1>6, ConcatProperties DEF test01, E
<1>8. \A n \in 1 .. thread_cnt :
        spawn_threads[n] = Plain("clone_thread") /\ wait_threads[n] = Await(n)
  BY DEF spawn_threads, wait_threads, safe_pthread_create, safe_pthread_join
<1>9. Len(test01) = thread_cnt + thread_cnt + 1
  BY <1>7, CountAssumption
<1>10. ASSUME NEW n \in 1 .. Len(test01)
       PROVE  test01[n] = IF n <= thread_cnt THEN Plain("clone_thread")
                   ELSE IF n <= thread_cnt + thread_cnt THEN Await(n - thread_cnt)
                   ELSE Plain("exit_group")
  <2>1. CASE n <= thread_cnt
    BY <2>1, <1>7, <1>8, <1>9, CountAssumption
  <2>2. CASE n > thread_cnt /\ n <= thread_cnt + thread_cnt
    <3>1. n - thread_cnt \in 1 .. thread_cnt
      BY <2>2, CountAssumption
    <3>2. (wait_threads \o E)[n - thread_cnt] = Await(n - thread_cnt)
      BY <3>1, <1>5, <1>8, CountAssumption
    <3>3. n \in 1 .. thread_cnt + (thread_cnt + 1) /\ ~(n <= thread_cnt)
      BY <2>2, <1>7, CountAssumption
    <3>4. test01[n] = Await(n - thread_cnt)
      BY <3>2, <3>3, <1>7
    <3>5. QED
      BY <2>2, <3>3, <3>4
  <2>3. CASE n > thread_cnt + thread_cnt
    <3>1. n = thread_cnt + thread_cnt + 1
      BY <2>3, <1>9, CountAssumption
    <3>2. (wait_threads \o E)[thread_cnt + 1] = E[1]
      BY <1>5, CountAssumption
    <3>3. n - thread_cnt = thread_cnt + 1 /\ ~(n <= thread_cnt)
            /\ ~(n <= thread_cnt + thread_cnt)
      BY <3>1, CountAssumption
    <3>4. QED
      BY <3>1, <3>2, <3>3, <1>4, <1>7, <1>9
  <2>4. QED
    BY <2>1, <2>2, <2>3, CountAssumption
<1>11. QED
  BY <1>9, <1>10

\* Main asks for as many threads as there are, and waits only for such threads
\* and in calls of their own.
LEMMA MainText ==
  ASSUME example \in {"pthread", "clone"}
  PROVE  /\ Len(Text(0)) \in Nat
         /\ \A n \in 1 .. Len(Text(0)) :
              /\ Text(0)[n] \in TextCalls /\ Text(0)[n].nr # "exit"
              /\ Text(0)[n].for # 0 => Text(0)[n].nr = "sys"
         /\ LET C == {n \in 1 .. Len(Text(0)) : Text(0)[n].nr \in Clones} IN
            IsFiniteSet(C) /\ Cardinality(C) <= Count(example)
<1>1. CASE example = "pthread"
  <2> DEFINE C == {n \in 1 .. Len(test01) : test01[n].nr \in Clones}
  <2>0. Text(0) = test01 /\ Count(example) = thread_cnt /\ Names = 0 .. thread_cnt
    BY <1>1 DEF Text, Count, Names
  <2>1. Len(test01) \in Nat
    BY PthreadMain, CountAssumption
  <2>2. ASSUME NEW n \in 1 .. Len(test01)
        PROVE  /\ test01[n] \in TextCalls /\ test01[n].nr # "exit"
               /\ test01[n].for # 0 => test01[n].nr = "sys"
               /\ test01[n].nr \in Clones => n <= thread_cnt
    <3>1. CASE n <= thread_cnt
      <4>1. test01[n] = Plain("clone_thread")
        BY <3>1, PthreadMain
      <4>2. QED
        BY <3>1, <4>1, <2>0, CountAssumption DEF Plain, TextCalls, Clones
    <3>2. CASE n > thread_cnt /\ n <= thread_cnt + thread_cnt
      <4>1. test01[n] = Await(n - thread_cnt) /\ n - thread_cnt \in 0 .. thread_cnt
        BY <3>2, PthreadMain, CountAssumption
      <4>2. QED
        BY <4>1, <2>0, CountAssumption DEF Await, TextCalls, Clones
    <3>3. CASE n > thread_cnt + thread_cnt
      <4>1. test01[n] = Plain("exit_group")
        BY <3>3, PthreadMain, CountAssumption
      <4>2. QED
        BY <4>1, <2>0, CountAssumption DEF Plain, TextCalls, Clones
    <3>4. QED
      BY <3>1, <3>2, <3>3, CountAssumption
  <2>3. C \in SUBSET (1 .. thread_cnt)
    BY <2>1, <2>2, CountAssumption
  <2>4. IsFiniteSet(1 .. thread_cnt) /\ Cardinality(1 .. thread_cnt) = thread_cnt
    BY FS_Interval, CountAssumption
  <2>5. IsFiniteSet(C) /\ Cardinality(C) <= thread_cnt
    BY <2>3, <2>4, FS_Subset
  <2>6. QED
    BY <2>0, <2>1, <2>2, <2>5
<1>2. CASE example = "clone"
  <2> DEFINE C == {n \in 1 .. 5 : guest_clone[n].nr \in Clones}
  <2>0. Text(0) = guest_clone /\ Count(example) = 1 /\ Names = 0 .. 1
    BY <1>2 DEF Text, Count, Names
  <2>1. Len(guest_clone) = 5
    BY DEF guest_clone
  <2>2. /\ guest_clone[1] = Plain("sys") /\ guest_clone[2] = Plain("clone_process")
        /\ guest_clone[3] = Plain("sys") /\ guest_clone[4] = Await(1)
        /\ guest_clone[5] = Plain("exit_group")
    BY DEF guest_clone
  <2>3. ASSUME NEW n \in 1 .. 5
        PROVE  /\ guest_clone[n] \in TextCalls /\ guest_clone[n].nr # "exit"
               /\ guest_clone[n].for # 0 => guest_clone[n].nr = "sys"
               /\ guest_clone[n].nr \in Clones => n = 2
    <3>1. n = 1 \/ n = 2 \/ n = 3 \/ n = 4 \/ n = 5
      OBVIOUS
    <3>2. QED
      BY <3>1, <2>0, <2>2 DEF Plain, Await, TextCalls, Clones
  <2>4. C \in SUBSET {2}
    BY <2>3
  <2>5. IsFiniteSet(C) /\ Cardinality(C) <= 1
    <3>1. IsFiniteSet({2}) /\ Cardinality({2}) = 1
      BY FS_Singleton
    <3>2. QED
      BY <2>4, <3>1, FS_Subset
  <2>6. C = {n \in 1 .. Len(Text(0)) : Text(0)[n].nr \in Clones} /\ Len(Text(0)) = 5
    BY <2>0, <2>1
  <2> HIDE DEF C
  <2>7. LET T == {n \in 1 .. Len(Text(0)) : Text(0)[n].nr \in Clones} IN
        IsFiniteSet(T) /\ Cardinality(T) <= Count(example)
    BY <2>0, <2>5, <2>6
  <2>8. \A n \in 1 .. Len(Text(0)) :
          /\ Text(0)[n] \in TextCalls /\ Text(0)[n].nr # "exit"
          /\ Text(0)[n].for # 0 => Text(0)[n].nr = "sys"
    BY <2>0, <2>1, <2>3
  <2>9. QED
    BY <2>6, <2>7, <2>8
<1>3. QED
  BY <1>1, <1>2

\* The same of Prog, as the invariant needs it.
LEMMA ProgTexts ==
  ASSUME example \in {"pthread", "clone"}
  PROVE  /\ 0 \in Names /\ Names \subseteq Nat
         /\ \A i \in Names :
              /\ Len(Prog[i]) \in Nat
              /\ \A n \in 1 .. Len(Prog[i]) : Prog[i][n] \in TextCalls
         /\ \A i \in Names \ {0} : \A n \in 1 .. Len(Prog[i]) :
              /\ Prog[i][n].nr \in {"sys", "exit"}
              /\ Prog[i][n].nr = "exit" => n = Len(Prog[i])
         /\ \A n \in 1 .. Len(Prog[0]) :
              Prog[0][n].nr # "exit" /\ (Prog[0][n].for # 0 => Prog[0][n].nr = "sys")
<1>1. 0 \in Names /\ Names \subseteq Nat
  BY CountAssumption DEF Names, Count
<1>2. \A i \in Names : Prog[i] = Text(i)
  BY DEF Prog
<1>3. ASSUME NEW i \in Names
      PROVE  /\ Len(Prog[i]) \in Nat
             /\ \A n \in 1 .. Len(Prog[i]) : Prog[i][n] \in TextCalls
  <2>1. CASE i = 0
    BY <2>1, <1>2, MainText
  <2>2. CASE i # 0
    BY <2>2, <1>2, ChildTexts, ElementOfSeq
  <2>3. QED
    BY <2>1, <2>2
<1>4. \A i \in Names \ {0} : \A n \in 1 .. Len(Prog[i]) :
        /\ Prog[i][n].nr \in {"sys", "exit"}
        /\ Prog[i][n].nr = "exit" => n = Len(Prog[i])
  BY <1>2, ChildTexts
<1>5. QED
  BY <1>1, <1>2, <1>3, <1>4, MainText

\* Main never asks for more threads than the program has.
LEMMA AskedBound ==
  ASSUME example \in {"pthread", "clone"}, made[0] \in Nat, made[0] <= Len(Prog[0])
  PROVE  Asked \in Names
<1> DEFINE C == {n \in 1 .. Len(Prog[0]) : Prog[0][n].nr \in Clones}
           A == {n \in 1 .. made[0] : Prog[0][n].nr \in Clones}
<1>1. Prog[0] = Text(0) /\ Len(Prog[0]) \in Nat
  BY ProgTexts DEF Prog
<1>2. IsFiniteSet(C) /\ Cardinality(C) <= Count(example)
  BY <1>1, MainText
<1>3. A \in SUBSET C
  BY <1>1
<1> HIDE DEF A, C
<1>4. IsFiniteSet(A) /\ Cardinality(A) <= Cardinality(C)
  BY <1>2, <1>3, FS_Subset
<1>5. Cardinality(A) \in Nat /\ Cardinality(C) \in Nat
  BY <1>2, <1>4, FS_CardinalityType
<1>6. Asked = Cardinality(A)
  BY DEF Asked, A
<1>7. Count(example) \in Nat
  BY CountAssumption DEF Count
<1>8. QED
  BY <1>2, <1>4, <1>5, <1>6, <1>7 DEF Names

\* Only a clone asks for a thread.
LEMMA AskedNext ==
  ASSUME made[0] \in Nat, made'[0] = made[0] + 1, Prog' = Prog
  PROVE  Asked' = IF Prog[0][made[0] + 1].nr \in Clones THEN Asked + 1 ELSE Asked
<1> DEFINE x == made[0] + 1
           A == {n \in 1 .. made[0] : Prog[0][n].nr \in Clones}
           B == {n \in 1 .. x : Prog[0][n].nr \in Clones}
<1>1. Asked = Cardinality(A) /\ Asked' = Cardinality(B)
  BY DEF Asked
<1>2. IsFiniteSet(1 .. made[0]) /\ A \in SUBSET (1 .. made[0])
  BY FS_Interval
<1>3. IsFiniteSet(A)
  BY <1>2, FS_Subset
<1>4. x \notin A /\ B = IF Prog[0][x].nr \in Clones THEN A \union {x} ELSE A
  OBVIOUS
<1> HIDE DEF A, B
<1>5. Cardinality(A \union {x}) = Cardinality(A) + 1
  BY <1>3, <1>4, FS_AddElement
<1>6. QED
  BY <1>1, <1>4, <1>5

-----------------------------------------------------------------------------
(* The steps of a program.                                                 *)

\* What the texts are does not change.
LEMMA SameProgram ==
  ASSUME UNCHANGED example
  PROVE  Names' = Names /\ Prog' = Prog
  BY DEF Names, Prog, Count, Text, test01, spawn_threads, wait_threads,
      thread_fn_01, guest_clone, childFunc, safe_pthread_create, safe_pthread_join

\* A task moves between labels of a live task and makes no call; if the call of
\* main becomes a performed one, what it waited for has ended.
LEMMA ProgMove ==
  ASSUME ProgInv, example # "any", NEW t \in Thread, NEW x,
         pc[t] # "none", x # "none", pc' = [pc EXCEPT ![t] = x], vcpu' = vcpu,
         \A s \in Slot : param'[s].nr = param[s].nr,
         reason' = reason \/ reason' = [reason EXCEPT ![vcpu[t]] = "intr"],
         Pending(t)' => Pending(t),
         name[t] = 0 /\ Pending(t) /\ ~Pending(t)' =>
           Prog[0][made[0]].for \in over \union failed \union {0},
         x \in {"exited", "dispatch"} => reason'[vcpu[t]] \in {"intr", "hypercall"},
         UNCHANGED progVars
  PROVE  ProgParts'
<1>t. TypeOK /\ OneThreadPerVcpu /\ ProgParts
  BY DEF ProgInv, NativeInv, OwnInv, VcpuInv, VcpuParts
<1>1. /\ pc'[t] = x /\ \A u \in Thread \ {t} : pc'[u] = pc[u]
      /\ Live' = Live /\ t \in Live
      /\ \A u \in Live : u \in Thread /\ vcpu[u] \in Slot
      /\ \A u \in Live \ {t} : vcpu[u] # vcpu[t]
  BY <1>t DEF TypeOK, Live, OneThreadPerVcpu
<1>2. \A u \in Live \ {t} :
        reason'[vcpu[u]] = reason[vcpu[u]] /\ (Pending(u)' <=> Pending(u))
  BY <1>1, <1>t DEF TypeOK, Pending
<1>3. UNCHANGED <<example, name, made, over, failed, Names, Prog>>
  BY SameProgram DEF progVars
<1>4. UNCHANGED Asked
  BY <1>3 DEF Asked
<1>5. ProgTypes' /\ EndedDone' /\ JoinDone' /\ Born' /\ NamesDiffer'
  BY <1>1, <1>3, <1>4, <1>t
  DEF ProgParts, ProgTypes, EndedDone, JoinDone, Born, NamesDiffer
<1>6. LastCall' /\ NoFault'
  BY <1>1, <1>2, <1>3, <1>t DEF ProgParts, LastCall, NoFault
<1>7. Awaited'
  BY <1>1, <1>2, <1>3, <1>t DEF ProgParts, Awaited
<1>8. Wanted'
  BY <1>1, <1>2, <1>3, <1>4, <1>t DEF ProgParts, Wanted
<1>9. QED
  BY <1>5, <1>6, <1>7, <1>8 DEF ProgParts

\* Tasks end: main among them, or each behind its last call.
LEMMA ProgEnd ==
  ASSUME ProgInv, example # "any", NEW S, S \subseteq Live, End(S),
         \/ \E t \in S : name[t] = 0
         \/ \A t \in S : made[name[t]] = Len(Prog[name[t]]),
         over' = over \union {name[u] : u \in S},
         UNCHANGED <<example, name, made, failed>>
  PROVE  ProgParts'
<1>t. TypeOK /\ ProgParts
  BY DEF ProgInv, NativeInv, OwnInv, VcpuInv
<1>1. /\ Live' = Live \ S /\ Live \subseteq Thread
      /\ \A u \in Live' : pc'[u] = pc[u] /\ vcpu'[u] = vcpu[u]
      /\ UNCHANGED <<param, reason>>
  BY <1>t DEF End, Live, TypeOK, cpuVars
<1>2. \A u \in Live' : Pending(u)' <=> Pending(u)
  BY <1>1 DEF Pending
<1>3. UNCHANGED <<Names, Prog>>
  BY SameProgram
<1>4. UNCHANGED Asked
  BY <1>3 DEF Asked
<1>5. \A i \in over' : i \in over \/ \E u \in S : u \in Live /\ i = name[u]
  OBVIOUS
<1>6. ProgTypes' /\ NamesDiffer'
  BY <1>1, <1>3, <1>5, <1>t DEF ProgParts, ProgTypes, NamesDiffer
<1>7. LastCall' /\ NoFault'
  BY <1>1, <1>2, <1>3, <1>t DEF ProgParts, LastCall, NoFault
<1>8. Awaited'
  BY <1>1, <1>2, <1>3, <1>t DEF ProgParts, Awaited
<1>9. Born' /\ Wanted'
  BY <1>1, <1>2, <1>3, <1>4, <1>5, <1>t DEF ProgParts, Born, Wanted
<1>10. EndedDone'
  BY <1>3, <1>5, <1>t DEF ProgParts, EndedDone
<1>11. JoinDone'
  BY <1>3, <1>t DEF ProgParts, JoinDone
<1>12. QED
  BY <1>6, <1>7, <1>8, <1>9, <1>10, <1>11 DEF ProgParts

\* A thread is born, the one main has asked for.
LEMMA ProgBirth ==
  ASSUME ProgInv, example # "any", NEW t \in Thread, NEW u \in Thread, SysClone(t, u),
         name[t] = 0, Pending(t), Prog[0][made[0]].nr \in Clones, Asked \in Names,
         Prog[0][made[0]].for = 0,
         name' = [name EXCEPT ![u] = Asked], UNCHANGED <<example, made, over, failed>>
  PROVE  ProgParts'
<1>t. TypeOK /\ ProgParts
  BY DEF ProgInv, NativeInv, OwnInv, VcpuInv
<1>1. /\ t # u /\ t \in Live /\ u \notin Live /\ Live' = Live \union {u}
      /\ pc'[t] = "store_clone" /\ pc'[u] = "run"
      /\ \A w \in Live \ {t} : pc'[w] = pc[w]
      /\ \A w \in Live : vcpu'[w] = vcpu[w]
      /\ Live \subseteq Thread /\ UNCHANGED <<param, reason>>
  BY <1>t DEF SysClone, Unused, Live, TypeOK
<1>2. /\ \A w \in Live \ {t} : Pending(w)' <=> Pending(w)
      /\ ~Pending(t)' /\ ~Pending(u)'
  BY <1>1 DEF Pending
<1>3. UNCHANGED <<Names, Prog>>
  BY SameProgram
<1>4. UNCHANGED Asked
  BY <1>3 DEF Asked
<1>5. /\ name'[u] = Asked /\ \A w \in Live : name'[w] = name[w]
      /\ \A w \in Live : name[w] < Asked
      /\ \A i \in over : i < Asked
  BY <1>1, <1>t DEF ProgParts, ProgTypes, Wanted
<1>6. Asked \in Nat /\ Names \subseteq Nat /\ \A w \in Live : name[w] \in Nat
  BY <1>1, <1>t DEF ProgParts, ProgTypes, Names
<1>7. ProgTypes'
  BY <1>3, <1>t DEF ProgParts, ProgTypes
<1>8. NamesDiffer'
  <2>1. \A w \in Live : name'[w] \notin over /\ name'[w] # name'[u]
    BY <1>5, <1>6, <1>t DEF ProgParts, NamesDiffer
  <2>2. name'[u] \notin over
    BY <1>5, <1>6, <1>t DEF ProgParts, ProgTypes
  <2>3. QED
    BY <2>1, <2>2, <1>1, <1>5, <1>t DEF ProgParts, NamesDiffer
<1>9. LastCall' /\ NoFault'
  BY <1>1, <1>2, <1>3, <1>5, <1>t DEF ProgParts, LastCall, NoFault
<1>10. Awaited'
  <2>1. name'[u] # 0
    BY <1>1, <1>5, <1>6
  <2>2. QED
    BY <2>1, <1>1, <1>2, <1>3, <1>5, <1>t DEF ProgParts, Awaited
<1>11. Born'
  <2>1. \A w \in Live' : name'[w] <= Asked
    BY <1>1, <1>5, <1>6
  <2>2. \A i \in over : i \in Nat /\ i < Asked
    BY <1>5, <1>6, <1>t DEF ProgParts, ProgTypes
  <2>3. QED
    BY <2>1, <2>2, <1>4, <1>6 DEF Born
<1>12. Wanted'
  <2>1. \A w \in Live' : name'[w] = 0 => w = t
    BY <1>1, <1>5, <1>6, <1>t DEF ProgParts, NamesDiffer
  <2>2. QED
    BY <2>1, <1>2 DEF Wanted
<1>13. EndedDone' /\ JoinDone'
  BY <1>3, <1>t DEF ProgParts, EndedDone, JoinDone
<1>14. QED
  BY <1>7, <1>8, <1>9, <1>10, <1>11, <1>12, <1>13 DEF ProgParts

\* A pending call is the last of its thread's text.
LEMMA Caller ==
  ASSUME ProgInv, example # "any", NEW t \in Live, Pending(t)
  PROVE  LET i == name[t] IN
         /\ i \in Names /\ made[i] \in 1 .. Len(Prog[i])
         /\ param[vcpu[t]].nr = Prog[i][made[i]].nr
         /\ pc[t] # "exited" => sysno[t] = Prog[i][made[i]].nr
<1>1. ProgParts /\ t \in Thread /\ OwnParts
  BY DEF ProgInv, NativeInv, OwnInv, Live
<1>2. name[t] \in Names /\ made[name[t]] \in Nat
  BY <1>1 DEF ProgParts, ProgTypes
<1>3. /\ made[name[t]] > 0 /\ made[name[t]] <= Len(Prog[name[t]])
      /\ param[vcpu[t]].nr = Prog[name[t]][made[name[t]]].nr
  BY <1>1, <1>2 DEF ProgParts, ProgTypes, LastCall
<1>4. Len(Prog[name[t]]) \in Nat
  BY <1>2, ProgTexts DEF ProgInv
<1>5. pc[t] # "exited" => sysno[t] = param[vcpu[t]].nr
  BY <1>1 DEF OwnParts, SysnoKept
<1>6. QED
  BY <1>2, <1>3, <1>4, <1>5

\* Only main clones, and ends the group.
LEMMA MainCalls ==
  ASSUME ProgInv, example # "any", NEW t \in Live, Pending(t), pc[t] # "exited",
         sysno[t] \in Clones \union {"exit_group"}
  PROVE  name[t] = 0 /\ Prog[0][made[0]].nr = sysno[t] /\ Prog[0][made[0]].for = 0
<1>1. LET i == name[t] IN
      /\ i \in Names /\ made[i] \in 1 .. Len(Prog[i])
      /\ sysno[t] = Prog[i][made[i]].nr
  BY Caller
<1>2. name[t] = 0
  BY <1>1, ProgTexts DEF ProgInv, Clones
<1>3. QED
  BY <1>1, <1>2, ProgTexts DEF ProgInv, Clones

\* So a task that sets up a vcpu is main's.
LEMMA MainClones ==
  ASSUME ProgInv, example # "any", NEW t \in Thread, pc[t] \in CloneLabels
  PROVE  /\ t \in Live /\ Pending(t) /\ name[t] = 0
         /\ Prog[0][made[0]].nr \in Clones /\ Prog[0][made[0]].for = 0
<1>1. sysno[t] \in Clones
  BY DEF ProgInv, NativeInv, NativeParts, Routed
<1>2. t \in Live /\ Pending(t) /\ pc[t] # "exited"
  BY DEF Live, Pending, CloneLabels, SetUp
<1>3. QED
  BY <1>1, <1>2, MainCalls

\* A clone fails: main goes on as if it had the thread.
LEMMA ProgFailed ==
  ASSUME ProgInv, example # "any", NEW t \in Thread,
         name[t] = 0, Pending(t), Prog[0][made[0]].for = 0, Asked \in Names,
         pc' = [pc EXCEPT ![t] = "store_clone"], UNCHANGED <<vcpu, param, reason>>,
         failed' = failed \union {Asked}, UNCHANGED <<example, name, made, over>>
  PROVE  ProgParts'
<1>t. TypeOK /\ ProgParts
  BY DEF ProgInv, NativeInv, OwnInv, VcpuInv
<1>1. /\ pc'[t] = "store_clone" /\ \A u \in Thread \ {t} : pc'[u] = pc[u]
      /\ ~Pending(t)'
  BY <1>t DEF TypeOK, Pending
<1>2. t \in Live /\ Live' = Live /\ Live \subseteq Thread
  BY <1>1 DEF Live, Pending
<1>3. \A u \in Live \ {t} : Pending(u)' <=> Pending(u)
  BY <1>1, <1>2 DEF Pending
<1>4. UNCHANGED <<Names, Prog>>
  BY SameProgram
<1>5. UNCHANGED Asked
  BY <1>4 DEF Asked
<1>6. ProgTypes' /\ NamesDiffer' /\ Born' /\ EndedDone' /\ JoinDone'
  BY <1>2, <1>4, <1>5, <1>t
  DEF ProgParts, ProgTypes, NamesDiffer, Born, EndedDone, JoinDone
<1>7. LastCall' /\ NoFault' /\ Wanted'
  BY <1>1, <1>2, <1>3, <1>4, <1>5, <1>t DEF ProgParts, LastCall, NoFault, Wanted
<1>8. Awaited'
  BY <1>1, <1>2, <1>3, <1>4, <1>t DEF ProgParts, Awaited, NamesDiffer
<1>9. QED
  BY <1>6, <1>7, <1>8 DEF ProgParts

\* A thread makes the next call of its text.
LEMMA ProgCall ==
  ASSUME ProgInv, example # "any", NEW t \in Thread, ProgramCalls(t)
  PROVE  ProgParts'
<1> DEFINE i == name[t]
<1>t. TypeOK /\ OneThreadPerVcpu /\ WhoOwns /\ ProgParts
  BY DEF ProgInv, NativeInv, OwnInv, OwnParts, VcpuInv, VcpuParts
<1>1. /\ pc[t] = "guest" /\ t \in Live /\ vcpu[t] \in Slot /\ who[vcpu[t]] = t
      /\ i \in Names /\ made[i] \in Nat /\ Prog[i] = Text(i)
      /\ \A u \in Live : u \in Thread /\ vcpu[u] \in Slot /\ name[u] \in Names
      /\ \A u \in Live \ {t} : vcpu[u] # vcpu[t] /\ name[u] # i
  BY <1>t DEF ProgramCalls, TypeOK, Live, WhoOwns, OneThreadPerVcpu, ProgParts,
      ProgTypes, NamesDiffer, Prog
<1>2. /\ made[i] < Len(Prog[i]) /\ GuestSyscall(t, Prog[i][made[i] + 1].nr)
      /\ made' = [made EXCEPT ![i] = @ + 1]
      /\ UNCHANGED <<example, name, over, failed>>
  BY <1>1 DEF ProgramCalls
<1>3. /\ made'[i] = made[i] + 1 /\ \A j \in Names \ {i} : made'[j] = made[j]
      /\ made' \in [Names -> Nat]
  BY <1>1, <1>2, <1>t DEF ProgParts, ProgTypes
<1> HIDE DEF i
<1>4. /\ pc'[t] = "exited" /\ \A u \in Thread \ {t} : pc'[u] = pc[u]
      /\ Live' = Live /\ vcpu' = vcpu
      /\ param'[vcpu[t]].nr = Prog[i][made[i] + 1].nr
      /\ reason'[vcpu[t]] = "hypercall"
      /\ \A s \in Slot \ {vcpu[t]} : param'[s] = param[s] /\ reason'[s] = reason[s]
  <2>1. /\ pc' = [pc EXCEPT ![t] = "exited"] /\ vcpu' = vcpu
        /\ reason' = [reason EXCEPT ![vcpu[t]] = "hypercall"]
        /\ param' = [param EXCEPT ![vcpu[t]].nr = Prog[i][made[i] + 1].nr,
                                  ![vcpu[t]].by = who[vcpu[t]]]
    BY <1>2 DEF GuestSyscall, Transition
  <2>2. param \in [Slot -> Block] /\ reason \in [Slot -> {"none", "intr", "hypercall", "other"}]
    BY <1>t DEF TypeOK
  <2>3. pc \in [Thread -> Labels]
    BY <1>t DEF TypeOK
  <2>4. Live' = Live
    BY <2>1, <2>3, <1>1 DEF Live
  <2>5. param'[vcpu[t]].nr = Prog[i][made[i] + 1].nr
    BY <2>1, <2>2, <1>1 DEF Block
  <2>6. QED
    BY <2>1, <2>2, <2>3, <2>4, <2>5, <1>1
<1>5. /\ Pending(t)' /\ ~Pending(t)
      /\ \A u \in Live \ {t} : /\ Pending(u)' <=> Pending(u)
                               /\ param'[vcpu[u]] = param[vcpu[u]]
                               /\ reason'[vcpu[u]] = reason[vcpu[u]]
  BY <1>1, <1>4 DEF Pending
<1>6. UNCHANGED <<Names, Prog>>
  BY <1>2, SameProgram
<1>7. i = name[t] /\ Len(Prog[i]) \in Nat /\ 0 \in Names
  BY <1>1, ProgTexts DEF i, ProgInv
<1>8. i \notin over
  BY <1>1, <1>7, <1>t DEF ProgParts, NamesDiffer
<1>9. ProgTypes' /\ NamesDiffer'
  <2>1. \A j \in Names : made'[j] <= Len(Prog[j])
    BY <1>1, <1>2, <1>3, <1>7, <1>t DEF ProgParts, ProgTypes
  <2>2. QED
    BY <2>1, <1>2, <1>3, <1>4, <1>6, <1>t DEF ProgParts, ProgTypes, NamesDiffer
<1>10. LastCall' /\ NoFault'
  <2>1. \A u \in Live \ {t} : name[u] \in Names \ {i} /\ made'[name[u]] = made[name[u]]
    BY <1>1, <1>3
  <2>2. NoFault'
    BY <1>1, <1>4, <1>5, <1>t DEF ProgParts, NoFault
  <2>3. LastCall'
    BY <2>1, <1>1, <1>2, <1>3, <1>4, <1>5, <1>6, <1>7, <1>t DEF ProgParts, LastCall
  <2>4. QED
    BY <2>2, <2>3
<1>11. Awaited'
  BY <1>1, <1>2, <1>3, <1>4, <1>5, <1>6, <1>7, <1>t DEF ProgParts, Awaited
<1>12. Born' /\ Wanted'
  <2>0. Asked \in Nat /\ Names \subseteq Nat /\ over \subseteq Nat
    BY <1>7, <1>t, AskedBound, ProgTexts DEF ProgInv, ProgParts, ProgTypes
  <2>1. CASE i = 0
    <3>1. Asked' = IF Prog[0][made[0] + 1].nr \in Clones THEN Asked + 1 ELSE Asked
      BY <2>1, <1>1, <1>3, <1>6, AskedNext
    <3>2. /\ \A u \in Live : name[u] \in Nat /\ name[u] <= Asked
          /\ \A j \in over : j \in Nat /\ j <= Asked
      BY <2>0, <1>1, <1>t DEF ProgParts, Born
    <3>3. /\ \A u \in Live : name[u] <= Asked'
          /\ \A j \in over : j <= Asked'
          /\ Prog[0][made[0] + 1].nr \in Clones =>
               (\A u \in Live : name[u] < Asked') /\ (\A j \in over : j < Asked')
      <4>1. CASE Prog[0][made[0] + 1].nr \in Clones
        <5>1. Asked' = Asked + 1
          BY <3>1, <4>1
        <5>2. QED
          BY <5>1, <3>2, <2>0
      <4>2. CASE Prog[0][made[0] + 1].nr \notin Clones
        <5>1. Asked' = Asked
          BY <3>1, <4>2
        <5>2. QED
          BY <5>1, <3>2, <4>2
      <4>3. QED
        BY <4>1, <4>2
    <3>4. Born'
      BY <3>3, <1>2, <1>4 DEF Born
    <3>5. Wanted'
      BY <3>3, <2>1, <1>2, <1>3, <1>4, <1>6 DEF Wanted
    <3>6. QED
      BY <3>4, <3>5
  <2>2. CASE i # 0
    <3>1. made'[0] = made[0]
      BY <2>2, <1>3, <1>7
    <3>2. Asked' = Asked
      BY <3>1, <1>6 DEF Asked
    <3>3. Born'
      BY <3>2, <1>2, <1>4, <1>t DEF ProgParts, Born
    <3>4. Wanted'
      BY <3>1, <3>2, <2>2, <1>2, <1>4, <1>5, <1>6, <1>7, <1>t DEF ProgParts, Wanted
    <3>5. QED
      BY <3>3, <3>4
  <2>3. QED
    BY <2>1, <2>2
<1>13. EndedDone'
  BY <1>2, <1>3, <1>6, <1>8, <1>t DEF ProgParts, ProgTypes, EndedDone
<1>14. JoinDone'
  <2>1. \A j \in over : made'[j] = made[j]
    BY <1>3, <1>8, <1>t DEF ProgParts, ProgTypes
  <2>2. ASSUME NEW n \in 1 .. made'[0] - 1, Prog[0][n].for \notin failed \union {0}
        PROVE  /\ Prog[0][n].for \in over
               /\ made[Prog[0][n].for] = Len(Prog[Prog[0][n].for])
    <3>1. CASE n \in 1 .. made[0] - 1
      BY <3>1, <2>2, <1>t DEF ProgParts, JoinDone
    <3>2. CASE n \notin 1 .. made[0] - 1
      <4>1. made[0] \in Nat /\ (i # 0 => made'[0] = made[0])
        BY <1>3, <1>7, <1>t DEF ProgParts, ProgTypes
      <4>2. i = 0 /\ n = made[0] /\ made[0] > 0
        BY <3>2, <4>1, <2>2, <1>3
      <4>3. Prog[0][made[0]].for \in over /\ 0 \notin over
        BY <4>2, <2>2, <1>1, <1>5, <1>7, <1>8, <1>t DEF ProgParts, Awaited
      <4>4. QED
        BY <4>2, <4>3, <1>t DEF ProgParts, EndedDone
    <3>3. QED
      BY <3>1, <3>2
  <2>3. QED
    BY <2>1, <2>2, <1>2, <1>6 DEF JoinDone
<1>15. QED
  BY <1>9, <1>10, <1>11, <1>12, <1>13, <1>14 DEF ProgParts

\* Dune's steps keep ProgParts.
LEMMA ProgDune ==
  ASSUME ProgInv, example # "any", NEW t \in Thread, DuneSteps(t)
  PROVE  ProgParts'
<1>t. TypeOK /\ OwnParts /\ NativeParts /\ ProgParts
  BY DEF ProgInv, NativeInv, OwnInv, VcpuInv
<1>a. Newest = Asked
  BY ProgTexts DEF ProgInv, Newest, Asked, Prog
<1> DEFINE born == {u \in Thread \ Live : pc'[u] # "none"}
<1>d. /\ ~Waits(t) /\ UNCHANGED <<example, made>>
      /\ over' = over \union {name[u] : u \in {w \in Live : pc'[w] = "none"}}
      /\ name' = [u \in Thread |-> IF u \in born THEN Asked ELSE name[u]]
      /\ failed' = IF pc[t] = "clone" /\ pc'[t] = "store_clone" /\ born = {}
                     THEN failed \union {Asked} ELSE failed
  BY <1>a DEF DuneSteps
<1>s. /\ \A u \in Live : u \in Thread /\ vcpu[u] \in Slot
      /\ name \in [Thread -> Names]
      /\ reason \in [Slot -> {"none", "intr", "hypercall", "other"}]
      /\ param \in [Slot -> Block]
  BY <1>t DEF TypeOK, Live, ProgParts, ProgTypes
<1>p. pc \in [Thread -> Labels]
  BY <1>t DEF TypeOK
<1>r. pc[t] = "syscall" => req[t] = [nr |-> sysno[t], by |-> t]
  BY <1>t DEF OwnParts, ReqLoaded
\* Nobody is born and nobody ends when t moves on.
<1>m. ASSUME NEW x, pc[t] # "none", x # "none", pc' = [pc EXCEPT ![t] = x],
             pc[t] # "clone"
      PROVE  UNCHANGED progVars
  <2>1. \A u \in Thread : pc'[u] = "none" <=> pc[u] = "none"
    BY <1>m, <1>t DEF TypeOK
  <2>2. {w \in Live : pc'[w] = "none"} = {}
    BY <2>1 DEF Live
  <2>3. over' = over
    BY <2>2, <1>d
  <2>4. name' = name
    BY <2>1, <1>d, <1>s DEF Live
  <2>5. QED
    BY <2>3, <2>4, <1>d, <1>m DEF progVars
\* A move on which the call stays pending, if it is.
<1>k. ASSUME NEW x, pc[t] \notin {"none", "clone"}, x # "none", pc' = [pc EXCEPT ![t] = x],
             UNCHANGED <<vcpu, param, reason>>, Pending(t)' <=> Pending(t),
             x \in {"exited", "dispatch"} => pc[t] \in {"exited", "dispatch"}
      PROVE  ProgParts'
  <2>1. t \in Live /\ UNCHANGED progVars
    BY <1>k, <1>m DEF Live
  <2>2. x \in {"exited", "dispatch"} => reason[vcpu[t]] \in {"intr", "hypercall"}
    BY <1>k, <2>1, <1>t DEF ProgParts, NoFault
  <2>3. QED
    BY <1>k, <2>1, <2>2, ProgMove
\* Main's group ends, or tasks behind their last calls do.
<1>e. ASSUME NEW S, S \subseteq Live, End(S),
             \/ \E u \in S : name[u] = 0
             \/ \A u \in S : made[name[u]] = Len(Prog[name[u]])
      PROVE  ProgParts'
  <2>1. \A u \in Thread : pc'[u] = IF u \in S THEN "none" ELSE pc[u]
    BY <1>e DEF End
  <2>2. {w \in Live : pc'[w] = "none"} = S
    BY <2>1, <1>e DEF Live
  <2>3. over' = over \union {name[u] : u \in S}
    BY <2>2, <1>d
  <2>4. name' = name
    BY <2>1, <1>d, <1>s, <1>e DEF Live
  <2>5. failed' = failed
    <3>1. pc[t] = "clone" => pc'[t] # "store_clone"
      BY <2>1
    <3>2. QED
      BY <3>1, <1>d
  <2>6. QED
    BY <1>e, <2>3, <2>4, <2>5, <1>d, ProgEnd
<1>g. ASSUME t \in Live, name[t] = 0, Die(t) \/ End(Group(t)) PROVE ProgParts'
  BY <1>g, <1>e DEF Die, Group
<1>1. CASE KvmRun(t)
  BY <1>1, <1>p, <1>k DEF KvmRun, Transition, Pending, poolVars, cpuVars
<1>2. CASE ReadSysno(t)
  BY <1>2, <1>p, <1>k DEF ReadSysno, Transition, Pending, poolVars, cpuVars
<1>3. CASE DispatchIntr(t)
  BY <1>3, <1>p, <1>k DEF DispatchIntr, Transition, Pending, poolVars, cpuVars
<1>4. CASE LoadNr(t)
  BY <1>4, <1>p, <1>k DEF LoadNr, Transition, Pending, poolVars, cpuVars
<1>5. CASE LoadArgs(t)
  BY <1>5, <1>p, <1>k DEF LoadArgs, Transition, Pending, poolVars, cpuVars
<1>6. CASE FreeLock(t)
  BY <1>6, <1>p, <1>k DEF FreeLock, Acquire, Transition, Pending, poolVars, cpuVars
<1>7. CASE FreeClear(t)
  BY <1>7, <1>p, <1>k DEF FreeClear, Transition, Pending, poolVars, cpuVars
<1>8. CASE FreeUnlock(t)
  BY <1>8, <1>p, <1>k DEF FreeUnlock, Release, Transition, Pending, poolVars, cpuVars
<1>9. CASE AllocLock(t)
  BY <1>9, <1>p, <1>k DEF AllocLock, Acquire, Transition, Pending, poolVars, cpuVars
<1>10. CASE AllocNone(t)
  BY <1>10, <1>p, <1>k DEF AllocNone, Transition, Pending, poolVars, cpuVars
<1>11. CASE Calloc(t)
  BY <1>11, <1>p, <1>k DEF Calloc, Transition, Pending, poolVars, cpuVars
<1>12. CASE CreateVcpu(t)
  BY <1>12, <1>p, <1>k DEF CreateVcpu, Transition, Pending, poolVars, cpuVars
<1>13. CASE MmapRun(t)
  BY <1>13, <1>p, <1>k DEF MmapRun, Transition, Pending, poolVars, cpuVars
<1>14. CASE InitChild(t)
  BY <1>14, <1>p, <1>k DEF InitChild, Transition, Pending, poolVars, cpuVars
<1>15. ASSUME NEW s \in Slot, AllocTake(t, s) PROVE ProgParts'
  BY <1>15, <1>p, <1>k DEF AllocTake, Transition, Pending, cpuVars
<1>16. CASE AllocUnlock(t)
  BY <1>16, <1>p, <1>k DEF AllocUnlock, Release, AfterScan, Transition, Pending, cpuVars
<1>17. CASE DispatchSyscall(t)
  BY <1>17, <1>p, <1>k DEF DispatchSyscall, Entry, Transition, Pending, cpuVars, poolVars
<1>18. CASE GuestReturn(t)
  <2>1. pc[t] = "guest" /\ pc' = [pc EXCEPT ![t] = "guest"] /\ UNCHANGED <<vcpu, param, reason>>
    BY <1>18, <1>t DEF GuestReturn, TypeOK, hostVars
  <2>2. QED
    BY <2>1, <1>p, <1>k DEF Pending
<1>19. CASE GuestInterrupted(t)
  <2>1. /\ pc[t] = "guest" /\ pc' = [pc EXCEPT ![t] = "exited"]
        /\ UNCHANGED <<vcpu, param>> /\ reason' = [reason EXCEPT ![vcpu[t]] = "intr"]
    BY <1>19 DEF GuestInterrupted, Transition
  <2>2. t \in Live /\ pc'[t] = "exited" /\ reason'[vcpu'[t]] = "intr"
    BY <2>1, <1>s, <1>t DEF Live, TypeOK
  <2>3. ~Pending(t) /\ ~Pending(t)'
    BY <2>1, <2>2 DEF Pending
  <2>4. QED
    BY <2>1, <2>2, <2>3, <1>m, ProgMove
<1>20. CASE StoreRet(t) \/ StoreClone(t)
  <2>1. /\ pc[t] \in {"store", "store_clone"} /\ pc' = [pc EXCEPT ![t] = "run"]
        /\ UNCHANGED <<vcpu, reason>>
        /\ \E r : param' = [param EXCEPT ![vcpu[t]].a0 = r, ![vcpu[t]].by = NoThread]
    BY <1>20 DEF StoreRet, StoreClone, Transition
  <2>2. t \in Live /\ ~Pending(t) /\ ~Pending(t)'
    BY <2>1, <1>t DEF Live, Pending, TypeOK
  <2>3. \A s \in Slot : param'[s].nr = param[s].nr
    BY <2>1, <1>s DEF Block
  <2>4. QED
    BY <2>1, <2>2, <2>3, <1>m, ProgMove
<1>21. ASSUME NEW r, SyscallAnswered(t, r) PROVE ProgParts'
  <2>1. /\ pc[t] = "syscall" /\ pc' = [pc EXCEPT ![t] = "store"]
        /\ UNCHANGED <<vcpu, param, reason>>
    BY <1>21 DEF SyscallAnswered, Transition, poolVars, cpuVars
  <2>2. t \in Live /\ Pending(t) /\ ~Pending(t)'
    BY <2>1, <1>t DEF Live, Pending, TypeOK
  <2>3. req[t].nr = sysno[t] /\ req[t].by = t
    BY <2>1, <1>r
  <2>4. ASSUME name[t] = 0 PROVE Prog[0][made[0]].for \in over \union failed \union {0}
    <3>1. /\ made[0] \in 1 .. Len(Prog[0]) /\ Prog[0][made[0]].nr = req[t].nr
          /\ 0 \in Names
      BY <2>1, <2>2, <2>3, <2>4, Caller
    <3>2. Prog[0] = Text(0)
      BY <3>1 DEF Prog
    <3>3. req[t].nr = "sys" => Prog[0][made[0]].for \in over \union failed \union {0}
      BY <1>d, <2>1, <2>3, <2>4, <3>2 DEF Waits, Joins, AwaitedBy
    <3>4. req[t].nr # "sys" => Prog[0][made[0]].for = 0
      BY <3>1, ProgTexts DEF ProgInv
    <3>5. QED
      BY <3>3, <3>4
  <2>5. QED
    BY <2>1, <2>2, <2>4, <1>m, ProgMove
<1>22. CASE SyscallExit(t)
  <2>1. t \in Live /\ Pending(t) /\ sysno[t] = "exit" /\ pc[t] # "exited" /\ End({t})
    BY <1>22, <1>r DEF SyscallExit, Live, Pending
  <2>2. LET i == name[t] IN
        /\ i \in Names /\ made[i] \in 1 .. Len(Prog[i])
        /\ Prog[i][made[i]].nr = "exit"
    BY <2>1, Caller
  <2>3. made[name[t]] = Len(Prog[name[t]])
    BY <2>2, ProgTexts DEF ProgInv
  <2>4. QED
    BY <2>1, <2>3, <1>e
<1>23. CASE SyscallEndsGroup(t)
  <2>1. /\ t \in Live /\ Pending(t) /\ pc[t] = "syscall"
        /\ sysno[t] \in {"exit_group", "execve"} \union Clones
    BY <1>23, <1>r DEF SyscallEndsGroup, Live, Pending, Clones
  <2>2. LET i == name[t] IN
        /\ i \in Names /\ made[i] \in 1 .. Len(Prog[i])
        /\ sysno[t] = Prog[i][made[i]].nr
    BY <2>1, Caller
  <2>3. sysno[t] # "execve"
    <3>1. Prog[name[t]][made[name[t]]] \in TextCalls
      BY <2>2, ProgTexts DEF ProgInv
    <3>2. QED
      BY <2>2, <3>1 DEF TextCalls, Clones
  <2>4. name[t] = 0
    BY <2>1, <2>3, MainCalls
  <2>5. QED
    BY <1>23, <2>1, <2>4, <1>g DEF SyscallEndsGroup
<1>24. CASE DispatchDie(t)
  <2>1. t \in Live /\ pc[t] = "dispatch" /\ reason[vcpu[t]] \in {"intr", "hypercall"}
    BY <1>24, <1>t DEF DispatchDie, Live, ProgParts, NoFault
  <2>2. Pending(t) /\ sysno[t] = "kexec_load"
    BY <1>24, <2>1 DEF DispatchDie, Pending
  <2>3. LET i == name[t] IN
        /\ i \in Names /\ made[i] \in 1 .. Len(Prog[i])
        /\ Prog[i][made[i]].nr = "kexec_load"
    BY <2>1, <2>2, Caller
  <2>4. Prog[name[t]][made[name[t]]] \in TextCalls
    BY <2>3, ProgTexts DEF ProgInv
  <2>5. QED
    BY <2>3, <2>4 DEF TextCalls, Clones
<1>25. CASE FreeAbort(t)
  BY <1>25, <1>t DEF FreeAbort, OwnParts, FreedLeaves, Left, Live
<1>26. CASE NoMoreVcpu(t)
  BY <1>26, <1>g, MainClones DEF NoMoreVcpu, CloneLabels
<1>27. CASE SetUpFails(t)
  <2>1. pc[t] \in CloneLabels /\ Die(t)
    BY <1>27 DEF SetUpFails, CloneLabels, SetUp
  <2>2. QED
    BY <2>1, <1>g, MainClones
\* What the clone of main does.
<1>c. ASSUME pc[t] = "clone"
      PROVE  /\ t \in Live /\ name[t] = 0 /\ Pending(t) /\ Asked \in Names
             /\ Prog[0][made[0]].nr \in Clones /\ Prog[0][made[0]].for = 0
  <2>1. 0 \in Names
    BY ProgTexts DEF ProgInv
  <2>2. Asked \in Names
    BY <2>1, <1>t, AskedBound DEF ProgInv, ProgParts, ProgTypes
  <2>3. QED
    BY <1>c, <2>2, MainClones DEF CloneLabels, SetUp
<1>28. ASSUME NEW u \in Thread, SysClone(t, u) PROVE ProgParts'
  <2>1. /\ pc[t] = "clone" /\ u \notin Live /\ pc'[u] # "none"
        /\ \A w \in Live : pc'[w] # "none"
        /\ \A w \in Thread \ {u} : w \notin Live => pc'[w] = "none"
    BY <1>28, <1>t DEF SysClone, Unused, Live, TypeOK
  <2>2. born = {u}
    BY <2>1
  <2>3. name' = [name EXCEPT ![u] = Asked]
    BY <2>2, <1>d, <1>s
  <2>4. over' = over /\ failed' = failed
    BY <2>1, <2>2, <1>d
  <2>5. QED
    BY <1>28, <2>1, <2>3, <2>4, <1>c, <1>d, ProgBirth
<1>29. ASSUME NEW e \in CloneErrno, SysCloneFails(t, e) PROVE ProgParts'
  <2>1. /\ pc[t] = "clone" /\ pc' = [pc EXCEPT ![t] = "store_clone"]
        /\ UNCHANGED <<vcpu, param, reason>>
    BY <1>29 DEF SysCloneFails, Transition, cpuVars
  <2>2. \A w \in Thread : pc'[w] = "none" <=> pc[w] = "none"
    BY <2>1, <1>p
  <2>3. born = {} /\ {w \in Live : pc'[w] = "none"} = {} /\ pc'[t] = "store_clone"
    BY <2>1, <2>2, <1>p DEF Live
  <2>4. name' = name /\ over' = over /\ failed' = failed \union {Asked}
    BY <2>1, <2>3, <1>d, <1>s
  <2>5. QED
    BY <2>1, <2>4, <1>c, <1>d, ProgFailed
\* Its flags are intact.
<1>30. pc[t] = "clone" => FlagsIntact(vcpu[t])
  BY OwnFlags DEF ProgInv
<1>31. CASE CloneStep(t)
  <2>1. ~SysCloneGarbled(t) /\ \A u \in Thread : ~SysCloneLost(t, u)
    BY <1>30 DEF SysCloneGarbled, SysCloneLost, Transition
  <2>2. QED
    BY <1>31, <2>1, <1>14, <1>20, <1>28, <1>29 DEF CloneStep
<1>32. CASE LoopStep(t)
  BY <1>32, <1>1, <1>2, <1>3, <1>4, <1>5, <1>17, <1>20, <1>21, <1>22, <1>23, <1>24
  DEF LoopStep
<1>33. CASE HostStep(t)
  BY <1>33, <1>7, <1>8, <1>10, <1>11, <1>12, <1>13, <1>15, <1>16, <1>25, <1>26, <1>31, <1>32
  DEF HostStep
<1>34. QED
  BY <1>6, <1>9, <1>18, <1>19, <1>27, <1>33 DEF DuneSteps

\* The programs start with nothing made.
LEMMA ProgInit == ExampleInit => ProgInv
<1> SUFFICES ASSUME ExampleInit, example # "any" PROVE ProgParts
  BY NativeInit DEF ProgInv, ExampleInit
<1>1. /\ example \in {"pthread", "clone"} /\ over = {} /\ failed = {}
      /\ name = [t \in Thread |-> 0] /\ made = [i \in Names |-> 0]
      /\ \A t \in Live : t = MainThread /\ pc[t] = "run"
  BY DEF ExampleInit, Init, Names, Live
<1>2. 0 \in Names /\ \A i \in Names : Len(Prog[i]) \in Nat
  BY <1>1, ProgTexts
<1>3. Asked \in Names /\ Names \subseteq Nat /\ made[0] = 0
  BY <1>1, <1>2, AskedBound, ProgTexts
<1>4. \A t \in Live : ~Pending(t) /\ name[t] = 0
  BY <1>1 DEF Pending, Live
<1>5. ProgTypes /\ NamesDiffer /\ EndedDone /\ JoinDone
  BY <1>1, <1>2, <1>3 DEF ProgTypes, NamesDiffer, EndedDone, JoinDone
<1>6. LastCall /\ NoFault /\ Awaited
  <2>1. LastCall
    BY <1>4 DEF LastCall
  <2>2. NoFault
    BY <1>1 DEF NoFault
  <2>3. Awaited
    BY <1>3 DEF Awaited
  <2>4. QED
    BY <2>1, <2>2, <2>3
<1>7. Born /\ Wanted
  BY <1>1, <1>3, <1>4 DEF Born, Wanted
<1>8. QED
  BY <1>5, <1>6, <1>7 DEF ProgParts

\* Every step of theirs is one of DuneVm with some call.
LEMMA ProgIsAny == ProgInv /\ [ExampleNext]_<<vars, progVars>> => [AnyNext]_vars
<1> SUFFICES ASSUME ProgInv, ExampleNext PROVE [AnyNext]_vars
  OBVIOUS
<1>1. ASSUME example # "any", NEW t \in Thread, ProgramCalls(t) PROVE AnyNext
  <2> DEFINE i == name[t]
  <2>1. pc[t] = "guest" /\ t \in Live
    BY <1>1 DEF ProgramCalls, Live
  <2>2. who[vcpu[t]] = t /\ ProgParts
    BY <1>1, <2>1 DEF ProgInv, NativeInv, OwnInv, OwnParts, WhoOwns
  <2>3. i \in Names /\ made[i] \in Nat /\ Prog[i] = Text(i)
    BY <2>1, <2>2 DEF Live, ProgParts, ProgTypes, Prog
  <2>4. made[i] < Len(Prog[i]) /\ GuestSyscall(t, Prog[i][made[i] + 1].nr)
    BY <1>1, <2>2, <2>3 DEF ProgramCalls
  <2>5. Prog[i][made[i] + 1] \in TextCalls
    BY <1>1, <2>3, <2>4, ProgTexts DEF ProgInv
  <2>6. Prog[i][made[i] + 1].nr \in AllCalls
    BY <2>5 DEF TextCalls, AllCalls, Clones
  <2>7. QED
    BY <2>4, <2>6 DEF AnyNext
<1>2. ASSUME NEW t \in Thread, DuneSteps(t) PROVE Next
  BY <1>2 DEF DuneSteps, HostStep, Next, GuestStep, FreeStep, AllocStep
<1>3. QED
  BY <1>1, <1>2 DEF ExampleNext, AnyNext, Next

\* Every step of a program keeps ProgInv.
LEMMA ProgStep ==
  PromptExit /\ ProgInv /\ [ExampleNext]_<<vars, progVars>> => ProgInv'
<1> SUFFICES ASSUME PromptExit, ProgInv, [ExampleNext]_<<vars, progVars>> PROVE ProgInv'
  OBVIOUS
<1>1. NativeInv'
  BY ProgIsAny, NativeStep DEF ProgInv
<1>2. example' = example
  BY DEF ExampleNext, ProgramCalls, DuneSteps, progVars
<1>3. CASE example = "any"
  BY <1>1, <1>2, <1>3 DEF ProgInv
<1>4. CASE example # "any"
  <2>1. ASSUME UNCHANGED <<vars, progVars>> PROVE ProgParts'
    <3>1. ProgParts /\ UNCHANGED <<Names, Prog, Live>>
      BY <1>4, <2>1, SameProgram DEF ProgInv, progVars, Live, vars, hostVars
    <3>2. UNCHANGED Asked /\ \A t \in Live : Pending(t)' <=> Pending(t)
      BY <2>1, <3>1 DEF Asked, Pending, vars, progVars, hostVars, cpuVars
    <3>3. UNCHANGED <<ProgTypes, NamesDiffer, EndedDone, JoinDone, Born, NoFault>>
      BY <2>1, <3>1, <3>2 DEF vars, progVars, hostVars, cpuVars, ProgTypes, NamesDiffer,
          EndedDone, JoinDone, Born, NoFault
    <3>4. LastCall' /\ Awaited' /\ Wanted'
      BY <2>1, <3>1, <3>2 DEF vars, progVars, hostVars, cpuVars, ProgParts, LastCall,
          Awaited, Wanted
    <3>5. QED
      BY <3>1, <3>3, <3>4 DEF ProgParts
  <2>2. ProgParts'
    BY <1>4, <2>1, ProgCall, ProgDune DEF ExampleNext, Finished
  <2>3. QED
    BY <1>1, <1>2, <2>2 DEF ProgInv
<1>5. QED
  BY <1>3, <1>4

\* In the examples nothing is joined too early, and no thread ends before it has
\* made all its calls, however many threads there are.
THEOREM NoEarlyJoin ==
  ASSUME PromptExit
  PROVE  ExampleSpec => []JoinedWhenDone
<1>1. ASSUME ProgInv PROVE JoinedWhenDone
  <2> SUFFICES ASSUME example # "any" PROVE JoinedWhenDone
    BY DEF JoinedWhenDone
  <2>1. ProgParts /\ 0 \in Names /\ \A i \in Names : Prog[i] = Text(i)
    BY <1>1, ProgTexts DEF ProgInv, Prog
  <2>2. over \subseteq Names
    BY <2>1 DEF ProgParts, ProgTypes
  <2>3. 0 \notin over => \A i \in over : made[i] = Len(Text(i))
    BY <2>1, <2>2 DEF ProgParts, EndedDone
  <2>4. \A n \in 1 .. made[0] - 1 :
          LET i == Text(0)[n].for
          IN  i \notin failed \union {0} => i \in over /\ made[i] = Len(Text(i))
    BY <2>1, <2>2 DEF ProgParts, JoinDone
  <2>5. QED
    BY <2>3, <2>4 DEF JoinedWhenDone
<1>2. ProgInv /\ [ExampleNext]_<<vars, progVars>> => ProgInv'
  BY ProgStep
<1>3. QED
  BY <1>1, <1>2, ProgInit, PTL DEF ExampleSpec

\* Nor does a thread of theirs ever run in, or make the call of, another's vcpu.
THEOREM ExamplesSafe ==
  ASSUME PromptExit
  PROVE  ExampleSpec => [](OneThreadPerVcpu /\ AssertValid /\ OwnCall)
<1>1. ProgInv => OneThreadPerVcpu /\ AssertValid /\ OwnCall
  BY OwnSafe DEF ProgInv, NativeInv
<1>2. ProgInv /\ [ExampleNext]_<<vars, progVars>> => ProgInv'
  BY ProgStep
<1>3. QED
  BY <1>1, <1>2, ProgInit, PTL DEF ExampleSpec
=============================================================================

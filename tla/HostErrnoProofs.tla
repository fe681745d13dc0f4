-------------------------- MODULE HostErrnoProofs --------------------------
(***************************************************************************)
(* Theorems about HostErrno: for any number of tasks and however they are  *)
(* cloned, host_loop takes a signal for an error only in a task that       *)
(* shares its thread area or where a handler left errno behind KVM_RUN's.  *)
(***************************************************************************)
EXTENDS HostErrno, TLAPS

\* The states of tasks, their thread areas and errno have their types.
THEOREM TypeCorrect == Spec => []TypeOK
<1>1. Init => TypeOK
  BY TaskAssumption DEF Init, TypeOK
<1>2. TypeOK /\ [Next]_vars => TypeOK'
  <2> SUFFICES ASSUME TypeOK, [Next]_vars PROVE TypeOK'
    OBVIOUS
  <2> USE TaskAssumption, ErrnoAssumption DEF TypeOK
  <2>1. ASSUME NEW t \in Task, NEW e \in Errno, GuestFails(t, e) PROVE TypeOK'
    BY <2>1 DEF GuestFails
  <2>8. ASSUME NEW t \in Task, NEW e \in Errno, HandlerFails(t, e) PROVE TypeOK'
    BY <2>8 DEF HandlerFails
  <2>2. ASSUME NEW t \in Task, NEW u \in Task, NEW settls \in BOOLEAN, Clone(t, u, settls)
        PROVE  TypeOK'
    BY <2>2 DEF Clone, ChildArea
  <2>3. ASSUME NEW t \in Task, KvmRunInterrupted(t) PROVE TypeOK'
    BY <2>3 DEF KvmRunInterrupted, Transition
  <2>4. ASSUME NEW t \in Task, IoctlFails(t) PROVE TypeOK'
    BY <2>4 DEF IoctlFails, Transition, EINTR
  <2>5. ASSUME NEW t \in Task, RunAgain(t) PROVE TypeOK'
    BY <2>5 DEF RunAgain, Transition
  <2>6. ASSUME NEW t \in Task, Dies(t) PROVE TypeOK'
    BY <2>6 DEF Dies
  <2>7. CASE UNCHANGED vars
    BY <2>7 DEF vars
  <2> QED
    BY <2>1, <2>2, <2>3, <2>4, <2>5, <2>6, <2>7, <2>8 DEF Next
<1> QED
  BY <1>1, <1>2, PTL DEF Spec

-----------------------------------------------------------------------------
\* The area of a task that is not born yet is nobody else's: a clone with
\* CLONE_SETTLS makes no thread share.
FreshArea ==
  \A u \in Task : pc[u] = "none" => \A t \in Task : area[t] = u <=> t = u

\* A signal is taken for an error (dune.c:445) only by a task with a thread
\* area that others have too, or by one where the handler of a further signal
\* has overwritten errno between KVM_RUN and host_loop's look at it.
THEOREM SignalsNoError == Spec => []SignalsSurvived
<1>1. Init => FreshArea /\ SignalsSurvived
  BY DEF Init, FreshArea, SignalsSurvived
<1>2. TypeOK /\ FreshArea /\ [Next]_vars => FreshArea'
  <2> SUFFICES ASSUME TypeOK, FreshArea, [Next]_vars PROVE FreshArea'
    OBVIOUS
  <2> USE DEF TypeOK, FreshArea
  <2>1. ASSUME NEW t \in Task, NEW e \in Errno, GuestFails(t, e) PROVE FreshArea'
    BY <2>1 DEF GuestFails
  <2>8. ASSUME NEW t \in Task, NEW e \in Errno, HandlerFails(t, e) PROVE FreshArea'
    BY <2>8 DEF HandlerFails
  <2>2. ASSUME NEW t \in Task, NEW u \in Task, NEW settls \in BOOLEAN, Clone(t, u, settls)
        PROVE  FreshArea'
    BY <2>2 DEF Clone, ChildArea
  <2>3. ASSUME NEW t \in Task, KvmRunInterrupted(t) PROVE FreshArea'
    BY <2>3 DEF KvmRunInterrupted, Transition
  <2>4. ASSUME NEW t \in Task, IoctlFails(t) PROVE FreshArea'
    BY <2>4 DEF IoctlFails, Transition
  <2>5. ASSUME NEW t \in Task, RunAgain(t) PROVE FreshArea'
    BY <2>5 DEF RunAgain, Transition
  <2>6. ASSUME NEW t \in Task, Dies(t) PROVE FreshArea'
    BY <2>6 DEF Dies, Live
  <2>7. CASE UNCHANGED vars
    BY <2>7 DEF vars
  <2> QED
    BY <2>1, <2>2, <2>3, <2>4, <2>5, <2>6, <2>7, <2>8 DEF Next
<1>3. TypeOK /\ FreshArea /\ SignalsSurvived /\ [Next]_vars => SignalsSurvived'
  <2> SUFFICES ASSUME TypeOK, FreshArea, SignalsSurvived, [Next]_vars
               PROVE  SignalsSurvived'
    OBVIOUS
  <2> USE DEF TypeOK, FreshArea, SignalsSurvived
  <2>1. ASSUME NEW t \in Task, NEW e \in Errno, GuestFails(t, e) PROVE SignalsSurvived'
    BY <2>1 DEF GuestFails
  <2>8. ASSUME NEW t \in Task, NEW e \in Errno, HandlerFails(t, e) PROVE SignalsSurvived'
    BY <2>8 DEF HandlerFails
  <2>2. ASSUME NEW t \in Task, NEW u \in Task, NEW settls \in BOOLEAN, Clone(t, u, settls)
        PROVE  SignalsSurvived'
    BY <2>2 DEF Clone, ChildArea
  <2>3. ASSUME NEW t \in Task, KvmRunInterrupted(t) PROVE SignalsSurvived'
    BY <2>3 DEF KvmRunInterrupted, Transition
  <2>4. ASSUME NEW t \in Task, IoctlFails(t) PROVE SignalsSurvived'
    BY <2>4 DEF IoctlFails, Transition
  <2>5. ASSUME NEW t \in Task, RunAgain(t) PROVE SignalsSurvived'
    BY <2>5 DEF RunAgain, Transition
  <2>6. ASSUME NEW t \in Task, Dies(t) PROVE SignalsSurvived'
    BY <2>6 DEF Dies, Live
  <2>7. CASE UNCHANGED vars
    BY <2>7 DEF vars
  <2> QED
    BY <2>1, <2>2, <2>3, <2>4, <2>5, <2>6, <2>7, <2>8 DEF Next
<1> QED
  BY <1>1, <1>2, <1>3, TypeCorrect, PTL DEF Spec
=============================================================================

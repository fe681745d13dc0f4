-------------------------- MODULE DuneVmRefinement --------------------------
(***************************************************************************)
(* DuneVm implements NativeThreads: what the guest threads see of their    *)
(* system calls is what they would see without Dune.  The steps of         *)
(* host_loop, the vcpu pool and interrupted KVM_RUNs are stutters; the     *)
(* host's system call is the step that answers.                            *)
(***************************************************************************)
EXTENDS DuneVm

\* The guest of t has made a call that its host task has not performed yet.
Pending(t) ==
  \/ pc[t] \in {"exited", "dispatch"} /\ reason[vcpu[t]] = "hypercall"
  \/ pc[t] \notin {"none", "run", "guest", "exited", "dispatch", "store", "store_clone"}

\* Performed, and the answer is still a local of the host task.
Performed(t) == pc[t] \in {"store", "store_clone"}

stBar == [t \in Thread |->
  IF pc[t] = "none" THEN "none"
  ELSE IF Pending(t) THEN "called"
  ELSE IF at[vcpu[t]] = "user" THEN "user" ELSE "answered"]

callBar == [t \in Thread |->
  IF stBar[t] \in {"called", "answered"} THEN param[vcpu[t]].nr ELSE "none"]

retBar == [t \in Thread |->
  IF stBar[t] = "none" THEN 0
  ELSE IF Performed(t) THEN ret[t]
  ELSE IF stBar[t] = "answered" THEN param[vcpu[t]].a0 ELSE a0[vcpu[t]]]

Native == INSTANCE NativeThreads
            WITH st <- stBar, call <- callBar, ret <- retBar, grp <- grp

\* Every run of the VM is a run of the threads on the kernel itself.
NativeSpec == Native!Spec
=============================================================================

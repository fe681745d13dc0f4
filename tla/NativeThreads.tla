---------------------------- MODULE NativeThreads ----------------------------
(***************************************************************************)
(* What the threads of one address space do when the kernel runs them      *)
(* directly, without Dune in between: the abstract specification of the    *)
(* promise the Readme makes ("the process feels the address space is the   *)
(* same", "multi-thread program works").  A thread in user code issues a   *)
(* system call, the kernel performs it once, and the thread goes on with   *)
(* the kernel's answer.  DuneVm is shown to implement this specification.  *)
(*                                                                         *)
(* Only what concerns the address space is kept of a call: a plain call    *)
(* answers zero or a negative errno, a clone that shares the address space *)
(* adds a thread, exit ends the caller, exit_group and a successful execve *)
(* end the caller's whole thread group.                                    *)
(***************************************************************************)
EXTENDS Integers

CONSTANTS
  Thread,      \* task ids, positive so that they can be the answer of clone
  MainThread,  \* the thread that exists at the start
  Calls,       \* the system calls the threads make
  Errno,       \* the error numbers a call may fail with
  CloneErrno,  \* the error numbers a clone may fail with ({}: it succeeds)
  Faults       \* whether a thread may die of an invalid access

VARIABLES
  st,    \* st[t]: "none", "user", "called" or "answered"
  call,  \* call[t]: the call being made
  ret,   \* ret[t]: the answer of the last call, in the result register
  grp    \* grp[t]: the thread group of t

vars == <<st, call, ret, grp>>

Clones == {"clone_thread", "clone_process"}
Group(t) == {u \in Thread : st[u] # "none" /\ grp[u] = grp[t]}

Init ==
  /\ st   = [t \in Thread |-> IF t = MainThread THEN "user" ELSE "none"]
  /\ call = [t \in Thread |-> "none"]
  /\ ret  = [t \in Thread |-> 0]
  /\ grp  = [t \in Thread |-> t]

\* The threads of S end, and their ids may name new threads.
End(S) ==
  /\ st'   = [t \in Thread |-> IF t \in S THEN "none" ELSE st[t]]
  /\ call' = [t \in Thread |-> IF t \in S THEN "none" ELSE call[t]]
  /\ ret'  = [t \in Thread |-> IF t \in S THEN 0 ELSE ret[t]]
  /\ grp'  = [t \in Thread |-> IF t \in S THEN t ELSE grp[t]]

Issue(t, k) ==
  /\ st[t] = "user"
  /\ st'   = [st EXCEPT ![t] = "called"]
  /\ call' = [call EXCEPT ![t] = k]
  /\ ret'  = [ret EXCEPT ![t] = 0]
  /\ UNCHANGED grp

\* The kernel performs t's call and leaves r for it.
Answer(t, r) ==
  /\ st[t] = "called"
  /\ \/ call[t] = "sys" /\ r \in {0} \union {-e : e \in Errno}
     \/ call[t] = "execve" /\ r \in {-e : e \in Errno}
     \/ call[t] \in Clones /\ r \in {-e : e \in CloneErrno}
  /\ st'  = [st EXCEPT ![t] = "answered"]
  /\ ret' = [ret EXCEPT ![t] = r]
  /\ UNCHANGED <<call, grp>>

\* A clone adds thread u, which starts in user code with answer 0.
Clone(t, u) ==
  /\ st[t] = "called" /\ call[t] \in Clones
  /\ st[u] = "none" /\ \A w \in Thread : st[w] # "none" => grp[w] # u
  /\ st'  = [st EXCEPT ![t] = "answered", ![u] = "user"]
  /\ ret' = [ret EXCEPT ![t] = u, ![u] = 0]
  /\ grp' = [grp EXCEPT ![u] = IF call[t] = "clone_thread" THEN grp[t] ELSE u]
  /\ UNCHANGED call

\* The thread goes on in user code with the answer.
Return(t) ==
  /\ st[t] = "answered"
  /\ st'   = [st EXCEPT ![t] = "user"]
  /\ call' = [call EXCEPT ![t] = "none"]
  /\ UNCHANGED <<ret, grp>>

Exit(t) == st[t] = "called" /\ call[t] = "exit" /\ End({t})

EndGroup(t) ==
  /\ st[t] = "called" /\ call[t] \in {"exit_group", "execve"}
  /\ End(Group(t))

Fault(t) == Faults /\ st[t] = "user" /\ End(Group(t))

\* Where Dune may differ: it gives up a process that clones when it has no vcpu
\* for the new thread (Readme, "KVM_MAX_VCPU limits the dune threads"), and one
\* that calls kexec_load.
GiveUp(t) ==
  /\ st[t] = "called" /\ call[t] \in Clones \union {"kexec_load"}
  /\ End(Group(t))

Next ==
  \E t \in Thread :
    \/ \E k \in Calls : Issue(t, k)
    \/ \E r \in {0} \union {-e : e \in Errno \union CloneErrno} : Answer(t, r)
    \/ \E u \in Thread \ {t} : Clone(t, u)
    \/ Return(t)
    \/ Exit(t)
    \/ EndGroup(t)
    \/ Fault(t)
    \/ GiveUp(t)

Spec == Init /\ [][Next]_vars
=============================================================================

------------------------------ MODULE MCDuneVm ------------------------------
(* Small instances of DuneVm.  With one vcpu less than tasks a clone finds  *)
(* a slot never used, one to reuse, or none, and a task that is exiting can *)
(* meet a running one and a new one.                                        *)
EXTENDS DuneVmRefinement

ThreeTasks == 1 .. 3

ThreadCalls == {"sys", "kexec_load", "exit", "clone_thread"}
RaceCalls   == {"kexec_load", "exit", "clone_thread"}
PromptCalls == {"sys", "exit", "execve", "clone_thread", "clone_process"}
ThreadFlags == {"clone_thread"}

NoErrno   == {}
SomeErrno == {11}  \* EAGAIN

\* No step depends on the value of an answer (a0, ret, word 0 of the blocks).
ControlView ==
  <<poolVars, pc, vcpu, child, sysno, req, grp, reason, who, at,
    [s \in Slot |-> <<param[s].nr, param[s].by>>]>>
=============================================================================

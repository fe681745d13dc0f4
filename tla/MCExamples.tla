----------------------------- MODULE MCExamples -----------------------------
(* Any program with three threads in two vcpus, so that a clone meets a     *)
(* slot never used, one to reuse, or none; pthread.c with the one thread it *)
(* creates; and clone.c with its child.                                     *)
EXTENDS Examples

ThreeTasks  == 1 .. 3
ThreadCalls == {"sys", "kexec_load", "exit", "clone_thread"}

NoErrno   == {}
SomeErrno == {11}  \* EAGAIN
=============================================================================

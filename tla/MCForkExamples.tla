--------------------------- MODULE MCForkExamples ---------------------------
(* Any program with three tasks, fork.c with its two children, and clone2.c *)
(* with one.  Two vcpus: a slot is new, used again, or none is left.        *)
EXTENDS ForkExamples

ThreeTasks == 1 .. 3

LiveKinds == {"fork_old", "fork_files", "thread"}
=============================================================================

----------------------------- MODULE MCForkTree -----------------------------
(* Small instances of ForkTree.  Three tasks: a VM whose process has a      *)
(* thread and a forked child, a child of a child, a thread in a child.      *)
(* Three vcpus: each task may have one, and one is left.                    *)
EXTENDS ForkTree

ThreeTasks == 1 .. 3

TreeKinds == {"fork_new", "thread", "process"}
=============================================================================

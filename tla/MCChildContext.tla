--------------------------- MODULE MCChildContext ---------------------------
(* Two cpus: a child in a vcpu that is new, and in one that a parent, a      *)
(* child or the main thread has left behind; or a forked child.             *)
EXTENDS ChildContext

TwoCpus   == 1 .. 2
OneValue  == {1}
=============================================================================

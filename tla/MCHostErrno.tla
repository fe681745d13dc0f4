---------------------------- MODULE MCHostErrno ----------------------------
(* A small instance of HostErrno: three tasks, two errors of their own.    *)
EXTENDS HostErrno

Tasks    == 1 .. 3
TwoErrno == {2, 13}
=============================================================================

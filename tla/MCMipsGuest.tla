---------------------------- MODULE MCMipsGuest ----------------------------
(* A small instance of MipsGuest: pages of 4096 bytes, two pairs of them,   *)
(* addresses in even and odd pages, three values, two of them the numbers   *)
(* of pipe and set_thread_area.                                             *)
EXTENDS MipsGuest

SomeAddr  == {5, 4100, 9000, 13000}
SomeValue == {0, 21, 42}
=============================================================================

--------------------------- MODULE MCStackGrowth ---------------------------
(* A small instance of StackGrowth: pages of four words, room for a stack  *)
(* of six, among 64 addresses; limits of two to five pages, of more than    *)
(* there is room for, of a page and a half, of nothing, and none.           *)
EXTENDS StackGrowth

SomeLimits == {0, 6, 8, 16, 20, 28, RLIM_INFINITY}
=============================================================================

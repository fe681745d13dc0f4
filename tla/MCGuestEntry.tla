---------------------------- MODULE MCGuestEntry ----------------------------
(* A small address space: two pairs of pages of 128 bytes, the handler in   *)
(* the second one, and addresses in even and odd pages.                     *)
EXTENDS GuestEntry

SomeAddr  == {5, 130, 390}
SomeValue == {1, 2}
=============================================================================

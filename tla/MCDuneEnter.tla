---------------------------- MODULE MCDuneEnter ----------------------------
(* A small instance of DuneEnter: both ports; the registers the asm uses    *)
(* and another, a floating point register that functions keep and one they  *)
(* do not, all of them set on entry but for one of the asm's; frames above  *)
(* kvm_launch's; vectors of four words, so that the four pages have 512; a  *)
(* miss of the TLB, and of each port the system call, an exception next to  *)
(* it, a breakpoint and an interrupt.                                       *)
EXTENDS DuneEnter

BothPorts     == {"loongarch", "mips"}
SomeRegisters == {6, 8, 23}
SomeFRegs     == {0, 24}
SomeValues    == {0, 1}
SomeEntered   ==
  {[r   |-> [x \in Reg |-> IF x = other THEN 0 ELSE 1],
    fpu |-> [fpr |-> [x \in FReg |-> 1], fcsr |-> 1, vec |-> 1]] : other \in {6, 8}}
Exceptions    == {Refill, 0, 4, 8, 9, 11, 12, 64}
=============================================================================

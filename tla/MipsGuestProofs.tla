--------------------------- MODULE MipsGuestProofs ---------------------------
(***************************************************************************)
(* MipsGuest's properties hold for every size of a page, any addresses and *)
(* values, and programs of any length; ProgramUndisturbed unless a system  *)
(* call is made from the slot of a branch.                                 *)
(***************************************************************************)
EXTENDS MipsGuest, TLAPS

\* The entry of a pair of pages.
EntryOf(b) == [pair |-> b,
               lo0  |-> (b * 2 * PageSize) \div EntryLo_VPN_SHIFT + EntryLo_FLAGS,
               lo1  |-> (b * 2 * PageSize) \div EntryLo_VPN_SHIFT + EntryLo_FLAGS
                          + PageSize \div EntryLo_VPN_SHIFT]

\* The words of an entry in units of EntryLo's, for a page of q small ones.
EntryWord(b, q) == 128 * (b * q) + 31

-----------------------------------------------------------------------------
(* Division.                                                               *)

\* Quotient of a number given by quotient and remainder.
LEMMA Quotient ==
  ASSUME NEW d \in Nat \ {0}, NEW q \in Nat, NEW r \in Nat, NEW n, n = q * d + r, r < d
  PROVE  n \div d = q
  OBVIOUS

\* A number is given by its quotient and remainder.
LEMMA DivMod ==
  ASSUME NEW d \in Nat \ {0}, NEW n \in Nat
  PROVE  /\ n \div d \in Nat /\ n % d \in Nat /\ n % d < d
         /\ n = (n \div d) * d + (n % d)
  OBVIOUS

\* A number is even or odd.
LEMMA Halves ==
  ASSUME NEW k \in Nat
  PROVE  \E h \in Nat : \/ k = 2 * h /\ k % 2 = 0
                        \/ k = 2 * h + 1 /\ k % 2 # 0
<1>1. k \div 2 \in Nat /\ k % 2 \in 0 .. 1 /\ k = 2 * (k \div 2) + (k % 2)
  OBVIOUS
<1>2. k % 2 = 0 \/ k % 2 = 1
  BY <1>1
<1> QED
  BY <1>1, <1>2

\* A page is in the first or the second half of its pair.
LEMMA PairHalf ==
  ASSUME NEW d \in Nat \ {0}, NEW n \in Nat
  PROVE  \/ (n \div d) % 2 = 0 /\ n \div d = 2 * (n \div (2 * d))
         \/ (n \div d) % 2 # 0 /\ n \div d = 2 * (n \div (2 * d)) + 1
<1>1. PICK k \in Nat, m \in Nat : k = n \div d /\ m < d /\ n = k * d + m
  BY DivMod
<1>2. PICK h \in Nat : \/ k = 2 * h /\ k % 2 = 0
                       \/ k = 2 * h + 1 /\ k % 2 # 0
  BY Halves
<1>3. PICK D \in Nat \ {0} : D = 2 * d
  OBVIOUS
<1>4. CASE k = 2 * h /\ k % 2 = 0
  <2>1. k * d = h * D
    BY <1>3, <1>4
  <2>2. n = h * D + m /\ m < D
    BY <1>1, <1>3, <2>1
  <2>3. n \div D = h
    BY <2>2, Quotient
  <2> QED
    BY <1>1, <1>3, <1>4, <2>3
<1>5. CASE k = 2 * h + 1 /\ k % 2 # 0
  <2>1. k * d = h * D + d
    BY <1>3, <1>5
  <2>2. n = h * D + (d + m) /\ d + m \in Nat /\ d + m < D
    BY <1>1, <1>3, <2>1
  <2>3. n \div D = h
    BY <2>2, Quotient
  <2> QED
    BY <1>1, <1>3, <1>5, <2>3
<1> QED
  BY <1>2, <1>4, <1>5

-----------------------------------------------------------------------------
(* The TLB.                                                                *)

\* A page is a whole number of small ones.
LEMMA Small == \E q \in Nat \ {0} : PageSize = q * 4096
<1>1. PageSize \in Nat \ {0} /\ PageSize % 4096 = 0
  BY PageAssumption
<1>2. PICK P \in Nat \ {0}, D \in Nat \ {0} : P = PageSize /\ D = 4096
  BY <1>1
<1>3. PICK q \in Nat, r \in Nat : q = P \div D /\ r = P % D /\ P = q * D + r
  BY DivMod
<1>4. r = 0
  BY <1>1, <1>2, <1>3
<1> QED
  BY <1>2, <1>3, <1>4

\* EntryFor's shifts and sums, without remainders.
LEMMA EntryWords ==
  ASSUME NEW b \in Nat, NEW q \in Nat \ {0}, PageSize = q * 4096
  PROVE  /\ EntryOf(b).lo0 = EntryWord(b, q)
         /\ EntryOf(b).lo1 = EntryWord(b, q) + 64 * q
<1>1. PICK k \in Nat : k = b * q
  OBVIOUS
<1>2. PICK X \in Nat : X = b * 2 * PageSize
  OBVIOUS
<1>3. X = (128 * k) * 64 + 0
  BY <1>1, <1>2
<1>4. X \div 64 = 128 * k
  BY <1>3, Quotient
<1>5. PICK P \in Nat : P = PageSize /\ P = (64 * q) * 64 + 0
  OBVIOUS
<1>6. P \div 64 = 64 * q
  BY <1>5, Quotient
<1> QED
  BY <1>1, <1>2, <1>4, <1>5, <1>6 DEF EntryOf, EntryWord, EntryLo_VPN_SHIFT, EntryLo_FLAGS

\* Such an entry is of natural numbers.
LEMMA EntryType == \A b \in Nat : EntryOf(b) \in Entry
<1> SUFFICES ASSUME NEW b \in Nat PROVE EntryOf(b) \in Entry
  OBVIOUS
<1>1. PICK q \in Nat \ {0} : PageSize = q * 4096
  BY Small
<1>2. EntryWord(b, q) \in Nat /\ EntryWord(b, q) + 64 * q \in Nat
  BY DEF EntryWord
<1>3. EntryOf(b).lo0 \in Nat /\ EntryOf(b).lo1 \in Nat
  BY <1>1, <1>2, EntryWords
<1> QED
  BY <1>3 DEF EntryOf, Entry

\* It maps the addresses it covers to themselves.
LEMMA EntryIdentity ==
  ASSUME NEW b \in Nat, NEW a \in Nat, Hits(EntryOf(b), a)
  PROVE  Translate(EntryOf(b), a) = a
<1>1. PICK q \in Nat \ {0} : PageSize = q * 4096
  BY Small
<1>2. PICK P \in Nat \ {0} : P = PageSize /\ P = q * 4096
  BY <1>1
<1>3. a \div (2 * P) = b
  BY <1>2 DEF Hits, PairOf, EntryOf
<1>4. PICK n \in Nat, r \in Nat : n = a \div P /\ r = a % P /\ a = n * P + r
  BY DivMod
<1>5. \/ n % 2 = 0 /\ n = 2 * b
      \/ n % 2 # 0 /\ n = 2 * b + 1
  BY <1>3, <1>4, PairHalf
<1>6. PICK k \in Nat : k = b * q
  OBVIOUS
<1>7. (2 * b) * P = (2 * k) * 4096 /\ (2 * b + 1) * P = (2 * k + q) * 4096
  BY <1>2, <1>6
<1>n. n = a \div PageSize /\ r = a % PageSize
  BY <1>2, <1>4
<1>8. EntryOf(b).lo0 \div 64 = 2 * k
  <2>1. EntryOf(b).lo0 = (2 * k) * 64 + 31
    BY <1>1, <1>6, EntryWords DEF EntryWord
  <2> QED
    BY <2>1, Quotient
<1>9. EntryOf(b).lo1 \div 64 = 2 * k + q
  <2>1. EntryOf(b).lo1 = (2 * k + q) * 64 + 31
    BY <1>1, <1>6, EntryWords DEF EntryWord
  <2> QED
    BY <2>1, Quotient
<1>10. CASE n % 2 = 0
  <2>1. Translate(EntryOf(b), a) = (2 * k) * 4096 + r
    <3>1. PICK w \in Nat : w = EntryOf(b).lo0 /\ w \div 64 = (2 * k)
      BY <1>8, EntryType DEF Entry
    <3>2. Translate(EntryOf(b), a) = (w \div 64) * 4096 + (a % PageSize)
      BY <1>n, <1>10, <3>1 DEF Translate
    <3> QED
      BY <1>n, <3>1, <3>2
  <2>2. n * P = (2 * k) * 4096
    BY <1>5, <1>7, <1>10
  <2> QED
    BY <1>4, <2>1, <2>2
<1>11. CASE n % 2 # 0
  <2>1. Translate(EntryOf(b), a) = (2 * k + q) * 4096 + r
    <3>1. PICK w \in Nat : w = EntryOf(b).lo1 /\ w \div 64 = (2 * k + q)
      BY <1>9, EntryType DEF Entry
    <3>2. Translate(EntryOf(b), a) = (w \div 64) * 4096 + (a % PageSize)
      BY <1>n, <1>11, <3>1 DEF Translate
    <3> QED
      BY <1>n, <3>1, <3>2
  <2>2. n * P = (2 * k + q) * 4096
    BY <1>5, <1>7, <1>11
  <2> QED
    BY <1>4, <2>1, <2>2
<1> QED
  BY <1>10, <1>11

-----------------------------------------------------------------------------
(* The inductive invariant.                                                *)

\* The TLB has what ebase_tlb_entry writes.
Entries == \A e \in tlb : \E b \in Nat : e = EntryOf(b)

\* TypeOK, where TypeOK has entries of any numbers.
Types ==
  /\ at \in {"user", "host"} /\ pc \in 0 .. LastPc /\ epc \in 0 .. LastPc
  /\ reg \in [Reg -> Nat]
  /\ block \in [{0, 1, 4} -> Nat]
  /\ want \in [Reg -> Nat \union {AnyValue}] /\ next \in 0 .. LastPc
  /\ tp \in Nat /\ userlocal \in Nat
  /\ at = "host" => epc + 1 \in 0 .. LastPc
  /\ \A r \in Reg \ {3} : want[r] # AnyValue

\* The program's registers, in the program and during a call.
Kept == \A r \in Reg \ {k0, k1} : want[r] # AnyValue => reg[r] = want[r]

\* EPC names the call, if it is in no branch's slot.
Place ==
  /\ at = "user" => pc = next
  /\ at = "host" => next = epc + 1

\* The inductive invariant.
Inv == Types /\ Entries /\ Kept /\ ArgsDelivered

\* No value the program relies on is AnyValue, and registers differ.
LEMMA RegFacts ==
  /\ {2, 3, 4, 7, 16, 26, 27} = Reg /\ k0 = 26 /\ k1 = 27
  /\ AnyValue \notin Nat /\ Value \subseteq Nat /\ SYS_PIPE \in Nat /\ SYS_SET_THREAD_AREA \in Nat
<1>1. {2, 3, 4, 7, 16, 26, 27} = Reg /\ k0 = 26 /\ k1 = 27
  BY DEF Reg, k0, k1
<1>2. AnyValue \notin Nat
  BY DEF AnyValue
<1>3. Value \subseteq Nat /\ SYS_PIPE \in Nat /\ SYS_SET_THREAD_AREA \in Nat
  BY ValueAssumption
<1> QED
  BY <1>1, <1>2, <1>3

\* What ebase_tlb_entry writes is an entry of a pair.
LEMMA EntryForOf ==
  ASSUME NEW a \in Nat
  PROVE  \E b \in Nat : EntryFor(a) = EntryOf(b)
<1>1. PageSize \in Nat \ {0} /\ 2 * PageSize \in Nat \ {0}
  BY PageAssumption
<1>2. PairOf(a) \in Nat
  BY <1>1, DivMod DEF PairOf
<1>3. EntryFor(a) = EntryOf(PairOf(a))
  BY DEF EntryFor, EntryOf
<1> QED
  BY <1>2, <1>3

\* Behind a call the program has its answer, and the rest as it was.
LEMMA ResumeKeeps ==
  ASSUME Types, Kept, at = "host", NEW answer \in [{0, 1, 4} -> Nat], Resume(answer),
         want' \in [Reg -> Nat \union {AnyValue}],
         want'[2] = answer[0], want'[3] \in {answer[1], AnyValue}, want'[7] = answer[4],
         \A r \in Reg \ {2, 3, 7} : want'[r] = want[r],
         block' = answer, next' = next, tp' \in Nat, userlocal' \in Nat
  PROVE  Types' /\ Kept' /\ ArgsDelivered'
<1>1. reg' = [reg EXCEPT ![2] = answer[0], ![3] = answer[1], ![7] = answer[4], ![k0] = epc + 1]
      /\ at' = "user" /\ epc' = epc + 1 /\ pc' = epc + 1
  BY DEF Resume, ReturnsTo
<1>2. reg' \in [Reg -> Nat]
  BY <1>1, RegFacts DEF Types
<1>3. Types'
  BY <1>1, <1>2, RegFacts DEF Types
<1>4. Kept'
  BY <1>1, RegFacts DEF Types, Kept
<1> QED
  BY <1>1, <1>3, <1>4 DEF ArgsDelivered

\* Every step keeps Inv.
LEMMA NextInv == Inv /\ [Next]_vars => Inv'
<1> SUFFICES ASSUME Inv, [Next]_vars PROVE Inv'
  OBVIOUS
<1> USE DEF Inv
<1>0. CASE UNCHANGED vars
  BY <1>0 DEF vars, Types, Entries, Kept, ArgsDelivered
<1>1. ASSUME NEW r \in Reg, NEW v \in Value, Compute(r, v) PROVE Inv'
  <2>1. Types'
    BY <1>1, RegFacts, ProgramAssumption DEF Compute, Types
  <2>2. Kept' /\ ArgsDelivered' /\ Entries'
    BY <1>1, RegFacts DEF Compute, Types, Kept, ArgsDelivered, Entries
  <2> QED
    BY <2>1, <2>2
<1>2. ASSUME NEW e \in tlb, TlbLoses(e) PROVE Inv'
  BY <1>2 DEF TlbLoses, Types, Entries, Kept, ArgsDelivered
<1>3. ASSUME NEW a \in Addr, ebase_tlb_entry(a) PROVE Inv'
  <2>1. PICK b \in Nat : EntryFor(a) = EntryOf(b)
    BY EntryForOf, AddrAssumption
  <2>2. Entries'
    BY <1>3, <2>1 DEF ebase_tlb_entry, Entries
  <2>3. EntryOf(b).lo1 \in Nat /\ PageSize \div EntryLo_VPN_SHIFT \in Nat
    BY EntryType, PageAssumption DEF Entry, EntryLo_VPN_SHIFT
  <2>4. Types'
    BY <1>3, <2>1, <2>3, RegFacts DEF ebase_tlb_entry, Types
  <2>5. Kept' /\ ArgsDelivered'
    BY <1>3, RegFacts DEF ebase_tlb_entry, Types, Kept, ArgsDelivered
  <2> QED
    BY <2>2, <2>4, <2>5
<1>4. ASSUME NEW d \in BOOLEAN, ebase_general_entry(d) PROVE Inv'
  <2>1. Types'
    BY <1>4, RegFacts, ProgramAssumption DEF ebase_general_entry, Types
  <2>2. Kept' /\ Entries'
    BY <1>4, RegFacts DEF ebase_general_entry, Types, Kept, Entries
  <2>3. ArgsDelivered'
    BY <1>4, RegFacts DEF ebase_general_entry, Types, Kept, ArgsDelivered
  <2> QED
    BY <2>1, <2>2, <2>3
<1>5. ASSUME NEW r2 \in Value, NEW r7 \in {0, 1}, do_syscall(r2, r7) PROVE Inv'
  <2>1. block' \in [{0, 1, 4} -> Nat] /\ block'[0] = r2 /\ block'[4] = r7
    BY <1>5, RegFacts DEF do_syscall, Answer, Types
  <2>2. /\ want' \in [Reg -> Nat \union {AnyValue}]
        /\ want'[2] = r2 /\ want'[3] = AnyValue /\ want'[7] = r7
        /\ \A r \in Reg \ {2, 3, 7} : want'[r] = want[r]
    BY <1>5, RegFacts DEF do_syscall, Types
  <2>3. at = "host" /\ Resume(block') /\ next' = next /\ tp' \in Nat /\ userlocal' \in Nat /\ tlb' = tlb
    BY <1>5 DEF do_syscall, Types
  <2> QED
    BY <2>1, <2>2, <2>3, ResumeKeeps DEF Entries
<1>6. CASE set_thread_area
  <2>1. block' \in [{0, 1, 4} -> Nat] /\ block'[0] = 0 /\ block'[4] = 0
    BY <1>6 DEF set_thread_area, Answer, Types
  <2>2. /\ want' \in [Reg -> Nat \union {AnyValue}]
        /\ want'[2] = 0 /\ want'[3] = AnyValue /\ want'[7] = 0
        /\ \A r \in Reg \ {2, 3, 7} : want'[r] = want[r]
    BY <1>6, RegFacts DEF set_thread_area, Types
  <2>3. at = "host" /\ Resume(block') /\ next' = next /\ tp' \in Nat /\ userlocal' \in Nat /\ tlb' = tlb
    BY <1>6 DEF set_thread_area, get_tp, Types
  <2> QED
    BY <2>1, <2>2, <2>3, ResumeKeeps DEF Entries
<1>7. ASSUME NEW fd0 \in Value, NEW fd1 \in Value, PipeSucceeds(fd0, fd1) PROVE Inv'
  <2>1. block' \in [{0, 1, 4} -> Nat] /\ block'[0] = fd0 /\ block'[1] = fd1 /\ block'[4] = 0
    BY <1>7, RegFacts DEF PipeSucceeds, Types
  <2>2. /\ want' \in [Reg -> Nat \union {AnyValue}]
        /\ want'[2] = fd0 /\ want'[3] = fd1 /\ want'[7] = 0
        /\ \A r \in Reg \ {2, 3, 7} : want'[r] = want[r]
    BY <1>7, RegFacts DEF PipeSucceeds, Types
  <2>3. at = "host" /\ Resume(block') /\ next' = next /\ tp' \in Nat /\ userlocal' \in Nat /\ tlb' = tlb
    BY <1>7 DEF PipeSucceeds, Types
  <2> QED
    BY <2>1, <2>2, <2>3, ResumeKeeps DEF Entries
<1>8. ASSUME NEW errno \in Value, PipeFails(errno) PROVE Inv'
  <2>1. block' \in [{0, 1, 4} -> Nat] /\ block'[0] = errno /\ block'[4] = 1
    BY <1>8, RegFacts DEF PipeFails, Types
  <2>2. /\ want' \in [Reg -> Nat \union {AnyValue}]
        /\ want'[2] = errno /\ want'[3] = AnyValue /\ want'[7] = 1
        /\ \A r \in Reg \ {2, 3, 7} : want'[r] = want[r]
    BY <1>8, RegFacts DEF PipeFails, Types
  <2>3. at = "host" /\ Resume(block') /\ next' = next /\ tp' \in Nat /\ userlocal' \in Nat /\ tlb' = tlb
    BY <1>8 DEF PipeFails, Types
  <2> QED
    BY <2>1, <2>2, <2>3, ResumeKeeps DEF Entries
<1> QED
  BY <1>0, <1>1, <1>2, <1>3, <1>4, <1>5, <1>6, <1>7, <1>8 DEF Next

\* The program, before its first call.
LEMMA InitInv == Init => Inv
<1> SUFFICES ASSUME Init PROVE Inv
  OBVIOUS
<1>1. PICK v \in Value : reg = [r \in Reg |-> v] /\ want = reg
  BY DEF Init
<1>2. Types /\ Kept
  BY <1>1, RegFacts, ProgramAssumption DEF Init, Types, Kept, get_tp
<1> QED
  BY <1>2 DEF Init, Inv, Entries, ArgsDelivered

\* Inv holds throughout.
THEOREM Invariance == Spec => []Inv
  BY InitInv, NextInv, PTL DEF Spec

\* TypeOK, for every page size, any values and programs of any length.
THEOREM TypeCorrect == Spec => []TypeOK
<1>1. Inv => TypeOK
  BY EntryType DEF Inv, Types, Entries, TypeOK
<1> QED
  BY <1>1, Invariance, PTL

\* IdentityMap: the entries that ebase_tlb_entry writes map each address to
\* itself, for every page size.
THEOREM MemoryIdentity == Spec => []IdentityMap
<1>1. Inv => IdentityMap
  BY EntryIdentity, AddrAssumption DEF Inv, Entries, IdentityMap
<1> QED
  BY <1>1, Invariance, PTL

\* ArgsDelivered: do_syscall finds the number and the arguments of the call.
THEOREM ArgsAreDelivered == Spec => []ArgsDelivered
<1>1. Inv => ArgsDelivered
  BY DEF Inv
<1> QED
  BY <1>1, Invariance, PTL

\* ProgramUndisturbed: a program that makes no call from the slot of a branch
\* goes on behind it, with its registers or the call's answer.
THEOREM ProgramGoesOn ==
  ASSUME ~DelaySlots
  PROVE  Spec => []ProgramUndisturbed
<1>1. Init => Place
  BY DEF Init, Place
<1>2. Inv /\ Place /\ [Next]_vars => Place'
  <2> SUFFICES ASSUME Inv, Place, [Next]_vars PROVE Place'
    OBVIOUS
  <2> USE DEF Place, Resume, ReturnsTo
  <2>1. CASE \/ UNCHANGED vars
             \/ \E r \in Reg, v \in Value : Compute(r, v)
             \/ \E e \in tlb : TlbLoses(e)
             \/ \E a \in Addr : ebase_tlb_entry(a)
    BY <2>1 DEF vars, Compute, TlbLoses, ebase_tlb_entry
  <2>2. ASSUME NEW d \in BOOLEAN, ebase_general_entry(d) PROVE Place'
    BY <2>2 DEF ebase_general_entry
  <2>3. ASSUME NEW r2 \in Value, NEW r7 \in {0, 1}, do_syscall(r2, r7) PROVE Place'
    BY <2>3 DEF do_syscall
  <2>4. CASE set_thread_area
    BY <2>4 DEF set_thread_area
  <2>5. ASSUME NEW fd0 \in Value, NEW fd1 \in Value, PipeSucceeds(fd0, fd1) PROVE Place'
    BY <2>5 DEF PipeSucceeds
  <2>6. ASSUME NEW errno \in Value, PipeFails(errno) PROVE Place'
    BY <2>6 DEF PipeFails
  <2> QED
    BY <2>1, <2>2, <2>3, <2>4, <2>5, <2>6 DEF Next
<1>3. Inv /\ Place => ProgramUndisturbed
  BY DEF Inv, Kept, Place, ProgramUndisturbed
<1> QED
  BY <1>1, <1>2, <1>3, InitInv, NextInv, PTL DEF Spec
=============================================================================

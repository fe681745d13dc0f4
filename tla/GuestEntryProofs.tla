-------------------------- MODULE GuestEntryProofs --------------------------
(***************************************************************************)
(* Theorems about GuestEntry: for every page size, every address and every *)
(* placement of the handler the TLB maps memory to itself, the program     *)
(* notices nothing of the handlers, and the host gets its arguments.       *)
(***************************************************************************)
EXTENDS GuestEntry, TLAPS

-----------------------------------------------------------------------------
(* Division.                                                               *)

\* Quotient and remainder of a number given by them.
LEMMA DivUnique ==
  ASSUME NEW d \in Nat \ {0}, NEW q \in Nat, NEW r \in Nat, r < d
  PROVE  (q * d + r) \div d = q /\ (q * d + r) % d = r
  OBVIOUS

\* A number is given by its quotient and remainder.
LEMMA DivMod ==
  ASSUME NEW d \in Nat \ {0}, NEW n \in Nat
  PROVE  /\ n \div d \in Nat /\ n % d \in Nat /\ n % d < d
         /\ n = (n \div d) * d + (n % d)
  OBVIOUS

\* The quotient of a number given by quotient and remainder.
LEMMA Quotient ==
  ASSUME NEW d \in Nat \ {0}, NEW q \in Nat, NEW r \in Nat, NEW n,
         n = q * d + r, r < d
  PROVE  n \div d = q
  BY DivUnique

\* A number is even or odd.
LEMMA Halves ==
  ASSUME NEW k \in Nat
  PROVE  \E h \in Nat : \/ k = 2 * h /\ k % 2 = 0
                        \/ k = 2 * h + 1 /\ k % 2 # 0
<1>1. k \div 2 \in Nat /\ k % 2 \in 0 .. 1 /\ k = 2 * (k \div 2) + (k % 2)
  OBVIOUS
<1>2. k % 2 = 0 \/ k % 2 = 1
  BY <1>1
<1> QED
  BY <1>1, <1>2

\* The quotient by d from that by 2 * d.
LEMMA PairHalf ==
  ASSUME NEW d \in Nat \ {0}, NEW n \in Nat
  PROVE  \/ (n \div d) % 2 = 0 /\ n \div d = 2 * (n \div (2 * d))
         \/ (n \div d) % 2 # 0 /\ n \div d = 2 * (n \div (2 * d)) + 1
<1>1. PICK k \in Nat, m \in Nat : k = n \div d /\ m < d /\ n = k * d + m
  BY DivMod
<1>2. PICK h \in Nat : \/ k = 2 * h /\ k % 2 = 0
                       \/ k = 2 * h + 1 /\ k % 2 # 0
  BY Halves
<1>3. PICK D \in Nat \ {0} : D = 2 * d
  OBVIOUS
<1>4. CASE k = 2 * h /\ k % 2 = 0
  <2>1. k * d = h * D
    BY <1>3, <1>4
  <2>2. n = h * D + m /\ m < D
    BY <1>1, <1>3, <2>1
  <2>3. n \div D = h
    BY <2>2, Quotient
  <2> QED
    BY <1>1, <1>3, <1>4, <2>3
<1>5. CASE k = 2 * h + 1 /\ k % 2 # 0
  <2>1. k * d = h * D + d
    BY <1>3, <1>5
  <2>2. n = h * D + (d + m) /\ d + m \in Nat /\ d + m < D
    BY <1>1, <1>3, <2>1
  <2>3. n \div D = h
    BY <2>2, Quotient
  <2> QED
    BY <1>1, <1>3, <1>5, <2>3
<1> QED
  BY <1>2, <1>4, <1>5

-----------------------------------------------------------------------------
(* TLB entries.                                                            *)

\* The entry of pair b.
EntryOf(b) == [hi  |-> b * (2 * PageSize) + TLB_PS,
               lo0 |-> b * (2 * PageSize) + TLBRELO0_STANDARD_BITS,
               lo1 |-> b * (2 * PageSize) + TLBRELO1_STANDARD_BITS]

\* Pages are larger than the attribute bits.
LEMMA PageFacts ==
  /\ PageSize \in Nat \ {0} /\ PageSize > 83 /\ 2 * PageSize \in Nat \ {0}
  /\ TLB_PS \in Nat /\ TLB_PS < 2 * PageSize
  BY PageAssumption

\* Such an entry maps the addresses it covers to themselves.
LEMMA EntryIdentity ==
  ASSUME NEW b \in Nat, NEW a \in Nat, Hits(EntryOf(b), a)
  PROVE  Translate(EntryOf(b), a) = a
<1>1. PICK P \in Nat \ {0} : P = PageSize /\ P > 83
  BY PageFacts
<1>2. PICK D \in Nat \ {0} : D = 2 * P /\ TLB_PS \in Nat /\ TLB_PS < D
  BY <1>1, PageFacts
<1>3. PICK h \in Nat : h = b * D + TLB_PS
  BY <1>2
<1>4. h \div D = b
  BY <1>2, <1>3, Quotient
<1>5. h = EntryOf(b).hi
  BY <1>1, <1>2, <1>3 DEF EntryOf
<1>6. a \div D = b
  BY <1>1, <1>2, <1>4, <1>5 DEF Hits, PairOf
<1>7. PICK q \in Nat, r \in Nat : q = a \div P /\ r = a % P /\ a = q * P + r
  BY DivMod
<1>8. \/ q % 2 = 0 /\ q = 2 * b
      \/ q % 2 # 0 /\ q = 2 * b + 1
  BY <1>2, <1>6, <1>7, PairHalf
<1>9. PICK m \in Nat : m = b * D
  BY <1>2
<1>10. PICK e \in Nat, o \in Nat : e = 2 * b /\ o = 2 * b + 1
  OBVIOUS
<1>11. e * P = m /\ o * P = m + P
  <2>1. b * (2 * P) = (2 * b) * P /\ (2 * b + 1) * P = (2 * b) * P + P
    OBVIOUS
  <2>2. QED
    BY <1>2, <1>9, <1>10, <2>1
<1>12. (m + 83) \div P = e
  <2>1. PICK n \in Nat : n = m + 83
    OBVIOUS
  <2>2. n = e * P + 83
    BY <1>11, <2>1
  <2>3. n \div P = e
    BY <1>1, <2>2, Quotient
  <2>4. QED
    BY <2>1, <2>3
<1>13. (m + 83 + P) \div P = o
  <2>1. PICK n \in Nat : n = m + 83 + P
    OBVIOUS
  <2>2. n = o * P + 83
    BY <1>11, <2>1
  <2>3. n \div P = o
    BY <1>1, <2>2, Quotient
  <2>4. QED
    BY <2>1, <2>3
<1>14. /\ EntryOf(b).lo0 = m + 83
       /\ EntryOf(b).lo1 = m + 83 + P
  BY <1>1, <1>2, <1>9 DEF EntryOf, TLBRELO0_STANDARD_BITS, TLBRELO1_STANDARD_BITS
<1>15. CASE q % 2 = 0
  <2>1. Translate(EntryOf(b), a) = e * P + r
    BY <1>1, <1>7, <1>12, <1>14, <1>15 DEF Translate
  <2>2. q = e
    BY <1>8, <1>10, <1>15
  <2>3. QED
    BY <1>7, <2>1, <2>2
<1>16. CASE q % 2 # 0
  <2>1. Translate(EntryOf(b), a) = o * P + r
    BY <1>1, <1>7, <1>13, <1>14, <1>16 DEF Translate
  <2>2. q = o
    BY <1>8, <1>10, <1>16
  <2>3. QED
    BY <1>7, <2>1, <2>2
<1>17. QED
  BY <1>15, <1>16
-----------------------------------------------------------------------------
(* The inductive invariant.                                                *)

RegName == {"t0", "t1", "a0", "a7"}
CsrName == {"KS0", "KS5", "KS6", "KS7", "TLBRSAVE", "TLBREHI", "TLBRELO0",
            "TLBRELO1", "EPC", "TLBREPC"}

\* Where a vcpu can be.
Place(p) == \/ p[1] = "user"
            \/ p[1] = "sys" /\ p[2] \in 1 .. 10
            \/ p[1] = "refill" /\ p[2] \in 1 .. 18
            \/ p[1] = "host" /\ p[2] = 5

Shape ==
  /\ reg = [r \in RegName |-> reg[r]]
  /\ csr = [c \in CsrName |-> csr[c]]
  /\ goal \in Addr \union {NoAddr}
  /\ Place(at)

\* An exception is taken in the program or in the system call handler.
Return == Place(csr["TLBREPC"]) /\ csr["TLBREPC"][1] \in {"user", "sys"}

\* The CSRs the refill handler reads.
Bits ==
  /\ csr["KS6"] = TLBRELO0_STANDARD_BITS /\ csr["KS7"] = TLBRELO1_STANDARD_BITS
  /\ csr["TLBREHI"] \in Nat

Entries == \A e \in tlb : \E b \in Nat : e = EntryOf(b)

\* What the refill handler has computed for pair b before instruction i.
Computed(b, i) ==
  /\ i = 4 => reg["t0"] \in Nat
  /\ i = 5 => reg["t0"] = b
  /\ i \in 6 .. 15 => reg["t0"] = b * (2 * PageSize)
  /\ i = 7 => reg["t1"] = TLB_PS
  /\ i = 8 => reg["t1"] = EntryOf(b).hi
  /\ i = 10 => reg["t1"] = TLBRELO0_STANDARD_BITS
  /\ i = 11 => reg["t1"] = EntryOf(b).lo0
  /\ i = 13 => reg["t1"] = TLBRELO1_STANDARD_BITS
  /\ i = 14 => reg["t1"] = EntryOf(b).lo1
  /\ i \in 9 .. 15 => csr["TLBREHI"] = EntryOf(b).hi
  /\ i \in 12 .. 15 => csr["TLBRELO0"] = EntryOf(b).lo0
  /\ i = 15 => csr["TLBRELO1"] = EntryOf(b).lo1

Computing == at[1] = "refill" => \E b \in Nat : Computed(b, at[2])

EntryInv == Shape /\ Return /\ Bits /\ Entries /\ Computing

-----------------------------------------------------------------------------
(* The instructions.                                                       *)

\* The refill handler, instruction by instruction.
LEMMA RefillTable ==
  /\ tlb_refill_entry[1] = <<"csrwr", "t0", "TLBRSAVE">>
  /\ tlb_refill_entry[2] = <<"csrwr", "t1", "KS0">>
  /\ tlb_refill_entry[3] = <<"csrrd", "t0", "TLBREHI">>
  /\ tlb_refill_entry[4] = <<"srli", "t0", 2 * PageSize>>
  /\ tlb_refill_entry[5] = <<"slli", "t0", 2 * PageSize>>
  /\ tlb_refill_entry[6] = <<"li", "t1", TLB_PS>>
  /\ tlb_refill_entry[7] = <<"add", "t1", "t0">>
  /\ tlb_refill_entry[8] = <<"csrwr", "t1", "TLBREHI">>
  /\ tlb_refill_entry[9] = <<"csrrd", "t1", "KS6">>
  /\ tlb_refill_entry[10] = <<"add", "t1", "t0">>
  /\ tlb_refill_entry[11] = <<"csrwr", "t1", "TLBRELO0">>
  /\ tlb_refill_entry[12] = <<"csrrd", "t1", "KS7">>
  /\ tlb_refill_entry[13] = <<"add", "t1", "t0">>
  /\ tlb_refill_entry[14] = <<"csrwr", "t1", "TLBRELO1">>
  /\ tlb_refill_entry[15] = <<"tlbfill">>
  /\ tlb_refill_entry[16] = <<"csrrd", "t0", "TLBRSAVE">>
  /\ tlb_refill_entry[17] = <<"csrrd", "t1", "KS0">>
  /\ tlb_refill_entry[18] = <<"ertn">>
  BY DEF tlb_refill_entry, RefillCode

\* The system call handler, instruction by instruction.
LEMMA SyscallTable ==
  /\ syscall_entry[1] = <<"csrrd", "t0", "KS5">>
  /\ syscall_entry[2] = <<"st", "a0">>
  /\ syscall_entry[3] = <<"st", "a7">>
  /\ syscall_entry[4] = <<"clear", "a0">>
  /\ syscall_entry[5] = <<"hypercall">>
  /\ syscall_entry[6] = <<"ld", "a0">>
  /\ syscall_entry[7] = <<"csrrd", "t0", "EPC">>
  /\ syscall_entry[8] = <<"addi", "t0", 4>>
  /\ syscall_entry[9] = <<"csrwr", "t0", "EPC">>
  /\ syscall_entry[10] = <<"ertn">>
  BY DEF syscall_entry, SyscallCode

\* The mnemonic says what is executed.
LEMMA Decode ==
  ASSUME NEW op, Handler[at[2]][1] = op, Instruction
  PROVE  /\ at[1] \in {"sys", "refill"}
         /\ op = "csrrd" => Csrrd
         /\ op = "csrwr" => Csrwr
         /\ op \in {"srli", "slli", "li", "add", "addi", "clear"} => Compute
         /\ op = "tlbfill" => Tlbfill
         /\ op = "st" => Store
         /\ op = "ld" => Load
         /\ op = "ertn" => Ertn
         /\ op = "hypercall" => Hypercall
  BY DEF Instruction, Csrrd, Csrwr, Compute, Tlbfill, Store, Load, Ertn,
         Hypercall, Fetch

-----------------------------------------------------------------------------
(* Every step keeps the invariant.                                         *)

\* The initial state satisfies EntryInv.
LEMMA InitEntry == Init => EntryInv
<1> SUFFICES ASSUME Init PROVE EntryInv
  OBVIOUS
<1>1. Shape
  BY DEF Init, Shape, Place, RegName, CsrName
<1>2. Return
  BY DEF Init, Return, Place
<1>3. Bits
  BY DEF Init, Bits
<1>4. Entries /\ Computing
  BY DEF Init, Entries, Computing
<1> QED
  BY <1>1, <1>2, <1>3, <1>4 DEF EntryInv

\* What an instruction of the system call handler does to the state the
\* invariant is about.
LEMMA SyscallEffect ==
  ASSUME EntryInv, Instruction, at[1] = "sys"
  PROVE  /\ UNCHANGED <<tlb, goal>>
         /\ (reg = [r \in RegName |-> reg[r]])'
         /\ (csr = [c \in CsrName |-> csr[c]])'
         /\ \A c \in CsrName \ {"EPC"} : csr'[c] = csr[c]
         /\ Place(at)' /\ at'[1] # "refill"
<1>1. Handler = syscall_entry /\ at[2] \in 1 .. 10
  BY DEF EntryInv, Shape, Place, Handler
<1>n. {"t0", "a0"} \subseteq RegName /\ "EPC" \in CsrName
  BY DEF RegName, CsrName
<1>s. Shape
  BY DEF EntryInv
<1>2. CASE at[2] \in {1, 7}
  <2>1. Handler[at[2]][1] = "csrrd" /\ Rd = "t0"
    BY <1>1, <1>2, SyscallTable DEF Rd
  <2>2. Csrrd
    BY <2>1, Decode
  <2>3. /\ reg' = [reg EXCEPT !["t0"] = csr[Src]] /\ UNCHANGED <<csr, tlb, goal>>
        /\ at' = <<"sys", at[2] + 1>>
    BY <2>1, <2>2 DEF Csrrd, Sets, Forward
  <2> QED
    BY <1>2, <1>n, <1>s, <2>3 DEF Shape, Place
<1>3. CASE at[2] \in {2, 3}
  <2>1. Handler[at[2]][1] = "st"
    BY <1>1, <1>3, SyscallTable
  <2>2. Store
    BY <2>1, Decode
  <2> QED
    BY <1>3, <1>s, <2>2 DEF Store, Forward, Shape, Place
<1>4. CASE at[2] \in {4, 8}
  <2>1. Handler[at[2]][1] \in {"clear", "addi"} /\ Rd \in RegName
    BY <1>1, <1>4, SyscallTable DEF Rd, RegName
  <2>2. Compute
    BY <2>1, Decode
  <2> QED
    BY <1>4, <1>s, <2>1, <2>2 DEF Compute, Sets, Forward, Shape, Place
<1>5. CASE at[2] = 5
  <2>1. Handler[at[2]][1] = "hypercall"
    BY <1>1, <1>5, SyscallTable
  <2>2. Hypercall
    BY <2>1, Decode
  <2> QED
    BY <1>5, <1>s, <2>2 DEF Hypercall, Shape, Place
<1>6. CASE at[2] = 6
  <2>1. Handler[at[2]][1] = "ld" /\ Rd = "a0"
    BY <1>1, <1>6, SyscallTable DEF Rd
  <2>2. Load
    BY <2>1, Decode
  <2>3. /\ \E v : reg' = [reg EXCEPT !["a0"] = v]
        /\ UNCHANGED <<csr, tlb, goal>> /\ at' = <<"sys", at[2] + 1>>
    BY <2>1, <2>2 DEF Load, Sets, Forward
  <2> QED
    BY <1>6, <1>n, <1>s, <2>3 DEF Shape, Place
<1>7. CASE at[2] = 9
  <2>1. Handler[at[2]][1] = "csrwr" /\ Rd = "t0" /\ Src = "EPC"
    BY <1>1, <1>7, SyscallTable DEF Rd, Src
  <2>2. Csrwr
    BY <2>1, Decode
  <2>3. /\ reg' = [reg EXCEPT !["t0"] = csr["EPC"]]
        /\ csr' = [csr EXCEPT !["EPC"] = reg["t0"]]
        /\ UNCHANGED <<tlb, goal>> /\ at' = <<"sys", at[2] + 1>>
    BY <2>1, <2>2 DEF Csrwr, Sets, Forward
  <2> QED
    BY <1>7, <1>n, <1>s, <2>3 DEF Shape, Place
<1>8. CASE at[2] = 10
  <2>1. Handler[at[2]][1] = "ertn"
    BY <1>1, <1>8, SyscallTable
  <2>2. Ertn
    BY <2>1, Decode
  <2>3. at' = <<"user", csr["EPC"]>> /\ UNCHANGED <<tlb, goal, reg, csr>>
    BY <2>2 DEF Ertn
  <2> QED
    BY <1>n, <1>s, <2>3 DEF Shape, Place
<1> QED
  BY <1>1, <1>2, <1>3, <1>4, <1>5, <1>6, <1>7, <1>8

\* The system call handler keeps EntryInv.
LEMMA SyscallStep ==
  ASSUME EntryInv, Instruction, at[1] = "sys"
  PROVE  EntryInv'
<1>1. Shape'
  BY SyscallEffect DEF EntryInv, Shape
<1>2. Return'
  BY SyscallEffect DEF EntryInv, Return, Place, CsrName
<1>3. Bits'
  BY SyscallEffect DEF EntryInv, Bits, CsrName
<1>4. Entries'
  BY SyscallEffect DEF EntryInv, Entries
<1>5. Computing'
  BY SyscallEffect DEF Computing
<1> QED
  BY <1>1, <1>2, <1>3, <1>4, <1>5 DEF EntryInv

\* A csrrd of the refill handler reads a CSR.
LEMMA RefillCsrrd ==
  ASSUME EntryInv, Instruction, at[1] = "refill", NEW r, NEW c,
         tlb_refill_entry[at[2]] = <<"csrrd", r, c>>
  PROVE  /\ reg' = [reg EXCEPT ![r] = csr[c]] /\ UNCHANGED <<csr, tlb, goal>>
         /\ at' = <<"refill", at[2] + 1>>
<1>1. Handler[at[2]][1] = "csrrd" /\ Rd = r /\ Src = c
  BY DEF Handler, Rd, Src
<1>2. Csrrd
  BY <1>1, Decode
<1> QED
  BY <1>1, <1>2 DEF Csrrd, Sets, Forward

\* A csrwr of the refill handler exchanges a register and a CSR.
LEMMA RefillCsrwr ==
  ASSUME EntryInv, Instruction, at[1] = "refill", NEW r, NEW c,
         tlb_refill_entry[at[2]] = <<"csrwr", r, c>>
  PROVE  /\ reg' = [reg EXCEPT ![r] = csr[c]] /\ csr' = [csr EXCEPT ![c] = reg[r]]
         /\ UNCHANGED <<tlb, goal>> /\ at' = <<"refill", at[2] + 1>>
<1>1. Handler[at[2]][1] = "csrwr" /\ Rd = r /\ Src = c
  BY DEF Handler, Rd, Src
<1>2. Csrwr
  BY <1>1, Decode
<1> QED
  BY <1>1, <1>2 DEF Csrwr, Sets, Forward

\* An arithmetic instruction of the refill handler.
LEMMA RefillCompute ==
  ASSUME EntryInv, Instruction, at[1] = "refill", NEW op, NEW r, NEW x,
         op \in {"srli", "slli", "li", "add"},
         tlb_refill_entry[at[2]] = <<op, r, x>>
  PROVE  /\ op = "srli" => reg' = [reg EXCEPT ![r] = reg[r] \div x]
         /\ op = "slli" => reg' = [reg EXCEPT ![r] = reg[r] * x]
         /\ op = "li"   => reg' = [reg EXCEPT ![r] = x]
         /\ op = "add"  => reg' = [reg EXCEPT ![r] = reg[r] + reg[x]]
         /\ UNCHANGED <<csr, tlb, goal>> /\ at' = <<"refill", at[2] + 1>>
<1>1. Handler[at[2]][1] = op /\ Rd = r /\ Src = x
  BY DEF Handler, Rd, Src
<1>2. Compute
  BY <1>1, Decode
<1> QED
  BY <1>1, <1>2 DEF Compute, Sets, Forward, Fetch

\* The CSRs the refill handler writes.
RefillCsr == {"TLBRSAVE", "KS0", "TLBREHI", "TLBRELO0", "TLBRELO1"}

\* What an instruction of the refill handler leaves alone.
LEMMA RefillEffect ==
  ASSUME EntryInv, Instruction, at[1] = "refill"
  PROVE  /\ (reg = [r \in RegName |-> reg[r]])'
         /\ (csr = [c \in CsrName |-> csr[c]])'
         /\ \A c \in CsrName \ RefillCsr : csr'[c] = csr[c]
         /\ at[2] \notin {1, 2, 8, 11, 14} => csr' = csr
         /\ goal' = goal
         /\ at[2] # 18 => at' = <<"refill", at[2] + 1>>
         /\ at[2] = 18 => at' = csr["TLBREPC"]
         /\ at[2] # 15 => tlb' = tlb
<1>1. Handler = tlb_refill_entry /\ at[2] \in 1 .. 18 /\ Shape
  BY DEF EntryInv, Shape, Place, Handler
<1>2. RegName = {"t0", "t1", "a0", "a7"} /\ RefillCsr \subseteq CsrName
  BY DEF RegName, CsrName, RefillCsr
<1>3. \A c \in {"TLBRSAVE", "KS0", "TLBREHI", "TLBRELO0", "TLBRELO1"} : c \in RefillCsr
  BY DEF RefillCsr
<1>4. CASE at[2] \in {3, 9, 12, 16, 17}
  <2>1. PICK r \in {"t0", "t1"}, c \in CsrName : tlb_refill_entry[at[2]] = <<"csrrd", r, c>>
    BY <1>4, RefillTable DEF CsrName
  <2>2. reg' = [reg EXCEPT ![r] = csr[c]] /\ UNCHANGED <<csr, tlb, goal>>
        /\ at' = <<"refill", at[2] + 1>>
    BY <2>1, RefillCsrrd
  <2> QED
    BY <1>1, <1>2, <1>4, <2>2 DEF Shape
<1>5. CASE at[2] \in {1, 2, 8, 11, 14}
  <2>1. PICK r \in {"t0", "t1"}, c \in RefillCsr : tlb_refill_entry[at[2]] = <<"csrwr", r, c>>
    BY <1>5, RefillTable DEF RefillCsr
  <2>2. reg' = [reg EXCEPT ![r] = csr[c]] /\ csr' = [csr EXCEPT ![c] = reg[r]]
        /\ UNCHANGED <<tlb, goal>> /\ at' = <<"refill", at[2] + 1>>
    BY <2>1, RefillCsrwr
  <2> QED
    BY <1>1, <1>2, <1>5, <2>2 DEF Shape
<1>6. CASE at[2] \in {4, 5, 6, 7, 10, 13}
  <2>1. PICK op \in {"srli", "slli", "li", "add"}, r \in {"t0", "t1"}, x \in {2 * PageSize, TLB_PS, "t0"} :
          tlb_refill_entry[at[2]] = <<op, r, x>>
    BY <1>6, RefillTable
  <2>2. (\E v : reg' = [reg EXCEPT ![r] = v]) /\ UNCHANGED <<csr, tlb, goal>>
        /\ at' = <<"refill", at[2] + 1>>
    BY <2>1, RefillCompute
  <2> QED
    BY <1>1, <1>2, <1>6, <2>2 DEF Shape
<1>7. CASE at[2] = 15
  <2>1. Tlbfill
    BY <1>1, <1>7, RefillTable, Decode
  <2> QED
    BY <1>1, <1>7, <2>1 DEF Tlbfill, Forward, Shape
<1>8. CASE at[2] = 18
  <2>1. Ertn
    BY <1>1, <1>8, RefillTable, Decode
  <2> QED
    BY <1>1, <1>8, <2>1 DEF Ertn, Shape
<1> QED
  BY <1>1, <1>4, <1>5, <1>6, <1>7, <1>8

\* Only the csrwr of instruction 8 changes TLBREHI.
LEMMA HiKept ==
  ASSUME EntryInv, Instruction, at[1] = "refill", at[2] # 8
  PROVE  csr'["TLBREHI"] = csr["TLBREHI"]
<1>1. at[2] \in 1 .. 18 /\ Shape
  BY DEF EntryInv, Shape, Place
<1>2. CASE at[2] \in {1, 2, 11, 14}
  <2>1. PICK r \in {"t0", "t1"}, c \in RefillCsr \ {"TLBREHI"} :
          tlb_refill_entry[at[2]] = <<"csrwr", r, c>>
    BY <1>2, RefillTable DEF RefillCsr
  <2>2. csr' = [csr EXCEPT ![c] = reg[r]]
    BY <2>1, RefillCsrwr
  <2> QED
    BY <1>1, <2>1, <2>2 DEF Shape, CsrName
<1>3. CASE at[2] \notin {1, 2, 11, 14}
  BY <1>1, <1>3, RefillEffect
<1> QED
  BY <1>2, <1>3

\* Each instruction of the refill handler takes the computation one step on.
LEMMA ComputedStep ==
  ASSUME EntryInv, Instruction, at[1] = "refill", at[2] # 18
  PROVE  \E b \in Nat : Computed(b, at[2])'
<1>1. at[2] \in 1 .. 17 /\ Bits /\ Shape
  BY DEF EntryInv, Shape, Place
<1>2. at'[2] = at[2] + 1
  BY <1>1, RefillEffect
<1>3. PICK b \in Nat : Computed(b, at[2])
  BY DEF EntryInv, Computing
<1>4. PICK P \in Nat \ {0} : P = 2 * PageSize
  BY PageFacts
<1>5. {"t0", "t1"} \subseteq RegName /\ RefillCsr \subseteq CsrName
  BY DEF RegName, CsrName, RefillCsr
<1>6. reg = [r \in RegName |-> reg[r]] /\ csr = [c \in CsrName |-> csr[c]]
  BY <1>1 DEF Shape
<1>7. csr["KS6"] = TLBRELO0_STANDARD_BITS /\ csr["KS7"] = TLBRELO1_STANDARD_BITS
      /\ csr["TLBREHI"] \in Nat
  BY <1>1 DEF Bits
<1>8. CASE at[2] = 1
  <2>1. reg' = [reg EXCEPT !["t0"] = csr["TLBRSAVE"]] /\ csr' = [csr EXCEPT !["TLBRSAVE"] = reg["t0"]]
    BY <1>8, RefillTable, RefillCsrwr
  <2> QED
    BY <1>3, <1>5, <1>6, <1>2, <1>8, <2>1 DEF Computed, RefillCsr
<1>9. CASE at[2] = 2
  <2>1. reg' = [reg EXCEPT !["t1"] = csr["KS0"]] /\ csr' = [csr EXCEPT !["KS0"] = reg["t1"]]
    BY <1>9, RefillTable, RefillCsrwr
  <2> QED
    BY <1>3, <1>5, <1>6, <1>2, <1>9, <2>1 DEF Computed, RefillCsr
<1>10. CASE at[2] = 3
  <2>1. reg' = [reg EXCEPT !["t0"] = csr["TLBREHI"]] /\ csr' = csr
    BY <1>10, RefillTable, RefillCsrrd
  <2> QED
    BY <1>3, <1>5, <1>6, <1>2, <1>7, <1>10, <2>1 DEF Computed
<1>11. CASE at[2] = 4
  <2>1. reg' = [reg EXCEPT !["t0"] = reg["t0"] \div (2 * PageSize)] /\ csr' = csr
    BY <1>11, RefillTable, RefillCompute
  <2> QED
    BY <1>3, <1>4, <1>5, <1>6, <1>2, <1>11, <2>1, PageFacts DEF Computed
<1>12. CASE at[2] = 5
  <2>1. reg' = [reg EXCEPT !["t0"] = reg["t0"] * (2 * PageSize)] /\ csr' = csr
    BY <1>12, RefillTable, RefillCompute
  <2> QED
    BY <1>3, <1>4, <1>5, <1>6, <1>2, <1>12, <2>1, PageFacts DEF Computed
<1>13. CASE at[2] = 6
  <2>1. reg' = [reg EXCEPT !["t1"] = TLB_PS] /\ csr' = csr
    BY <1>13, RefillTable, RefillCompute
  <2> QED
    BY <1>3, <1>4, <1>5, <1>6, <1>2, <1>13, <2>1, PageFacts DEF Computed
<1>14. CASE at[2] = 7
  <2>1. reg' = [reg EXCEPT !["t1"] = reg["t1"] + reg["t0"]] /\ csr' = csr
    BY <1>14, RefillTable, RefillCompute
  <2> QED
    BY <1>3, <1>4, <1>5, <1>6, <1>2, <1>14, <2>1, PageFacts DEF Computed, EntryOf
<1>15. CASE at[2] = 8
  <2>1. reg' = [reg EXCEPT !["t1"] = csr["TLBREHI"]] /\ csr' = [csr EXCEPT !["TLBREHI"] = reg["t1"]]
    BY <1>15, RefillTable, RefillCsrwr
  <2> QED
    BY <1>3, <1>5, <1>6, <1>2, <1>15, <2>1 DEF Computed, RefillCsr
<1>16. CASE at[2] = 9
  <2>1. reg' = [reg EXCEPT !["t1"] = csr["KS6"]] /\ csr' = csr
    BY <1>16, RefillTable, RefillCsrrd
  <2> QED
    BY <1>3, <1>5, <1>6, <1>2, <1>7, <1>16, <2>1 DEF Computed
<1>17. CASE at[2] = 10
  <2>1. reg' = [reg EXCEPT !["t1"] = reg["t1"] + reg["t0"]] /\ csr' = csr
    BY <1>17, RefillTable, RefillCompute
  <2> QED
    BY <1>3, <1>4, <1>5, <1>6, <1>2, <1>17, <2>1, PageFacts DEF Computed, EntryOf, TLBRELO0_STANDARD_BITS
<1>18. CASE at[2] = 11
  <2>1. reg' = [reg EXCEPT !["t1"] = csr["TLBRELO0"]] /\ csr' = [csr EXCEPT !["TLBRELO0"] = reg["t1"]]
    BY <1>18, RefillTable, RefillCsrwr
  <2> QED
    BY <1>3, <1>5, <1>6, <1>2, <1>18, <2>1 DEF Computed, RefillCsr
<1>19. CASE at[2] = 12
  <2>1. reg' = [reg EXCEPT !["t1"] = csr["KS7"]] /\ csr' = csr
    BY <1>19, RefillTable, RefillCsrrd
  <2> QED
    BY <1>3, <1>5, <1>6, <1>2, <1>7, <1>19, <2>1 DEF Computed
<1>20. CASE at[2] = 13
  <2>1. reg' = [reg EXCEPT !["t1"] = reg["t1"] + reg["t0"]] /\ csr' = csr
    BY <1>20, RefillTable, RefillCompute
  <2> QED
    BY <1>3, <1>4, <1>5, <1>6, <1>2, <1>20, <2>1, PageFacts DEF Computed, EntryOf, TLBRELO1_STANDARD_BITS, TLBRELO0_STANDARD_BITS
<1>21. CASE at[2] = 14
  <2>1. reg' = [reg EXCEPT !["t1"] = csr["TLBRELO1"]] /\ csr' = [csr EXCEPT !["TLBRELO1"] = reg["t1"]]
    BY <1>21, RefillTable, RefillCsrwr
  <2> QED
    BY <1>3, <1>5, <1>6, <1>2, <1>21, <2>1 DEF Computed, RefillCsr
<1>22. CASE at[2] \in 15 .. 17
  BY <1>2, <1>22 DEF Computed
<1> QED
  BY <1>1, <1>8, <1>9, <1>10, <1>11, <1>12, <1>13, <1>14, <1>15, <1>16, <1>17, <1>18,
     <1>19, <1>20, <1>21, <1>22

\* The refill handler keeps EntryInv.
LEMMA RefillStep ==
  ASSUME EntryInv, Instruction, at[1] = "refill"
  PROVE  EntryInv'
<1>1. at[2] \in 1 .. 18 /\ Shape /\ Return /\ Bits /\ Entries
  BY DEF EntryInv, Shape, Place
<1>2. Place(at)'
  <2>1. CASE at[2] = 18
    BY <1>1, <2>1, RefillEffect DEF Return, Place
  <2>2. CASE at[2] # 18
    BY <1>1, <2>2, RefillEffect DEF Place
  <2> QED
    BY <2>1, <2>2
<1>3. Shape'
  BY <1>1, <1>2, RefillEffect DEF Shape
<1>4. Return'
  <2>1. csr'["TLBREPC"] = csr["TLBREPC"]
    BY RefillEffect DEF CsrName, RefillCsr
  <2> QED
    BY <1>1, <2>1 DEF Return, Place
<1>5. Computing'
  <2>1. CASE at[2] = 18
    BY <1>1, <2>1, RefillEffect DEF Return, Computing
  <2>2. CASE at[2] # 18
    BY <2>2, ComputedStep DEF Computing
  <2> QED
    BY <2>1, <2>2
<1>6. Bits'
  <2>1. csr'["KS6"] = csr["KS6"] /\ csr'["KS7"] = csr["KS7"]
    BY RefillEffect DEF CsrName, RefillCsr
  <2>2. csr'["TLBREHI"] \in Nat
    <3>1. CASE at[2] = 8
      <4>1. csr' = [csr EXCEPT !["TLBREHI"] = reg["t1"]]
        BY <3>1, RefillTable, RefillCsrwr
      <4>2. PICK b \in Nat : reg["t1"] = EntryOf(b).hi
        BY <3>1 DEF EntryInv, Computing, Computed
      <4>3. EntryOf(b).hi \in Nat
        BY PageFacts DEF EntryOf
      <4> QED
        BY <1>1, <4>1, <4>2, <4>3 DEF Shape, CsrName
    <3>2. CASE at[2] # 8
      BY <1>1, <3>2, HiKept DEF Bits
    <3> QED
      BY <3>1, <3>2
  <2> QED
    BY <1>1, <2>1, <2>2 DEF Bits
<1>7. Entries'
  <2>1. CASE at[2] = 15
    <3>1. Tlbfill
      BY <1>1, <2>1, RefillTable, Decode DEF Handler
    <3>2. PICK b \in Nat : Computed(b, 15)
      BY <2>1 DEF EntryInv, Computing
    <3>3. [hi |-> csr["TLBREHI"], lo0 |-> csr["TLBRELO0"], lo1 |-> csr["TLBRELO1"]]
            = EntryOf(b)
      BY <3>2 DEF Computed, EntryOf
    <3> QED
      BY <1>1, <3>1, <3>3 DEF Tlbfill, Entries
  <2>2. CASE at[2] # 15
    BY <1>1, <2>2, RefillEffect DEF Entries
  <2> QED
    BY <2>1, <2>2
<1> QED
  BY <1>3, <1>4, <1>5, <1>6, <1>7 DEF EntryInv

\* A miss takes the address into TLBREHI and starts the refill handler.
LEMMA MissStep ==
  ASSUME EntryInv, Miss
  PROVE  EntryInv'
<1>1. PICK a \in Nat : Refill(a)
  BY AddrAssumption DEF Miss, EntryInv, Shape
<1>2. at[1] \in {"user", "sys"} /\ Shape /\ Bits /\ Entries
  BY DEF Miss, EntryInv
<1>3. PICK hi \in Nat :
        csr' = [csr EXCEPT !["TLBREPC"] = at, !["TLBREHI"] = hi]
  <2>1. (a \div 64) * 64 + (csr["TLBREHI"] % 64) \in Nat
    <3>1. a \div 64 \in Nat /\ csr["TLBREHI"] % 64 \in Nat
      BY <1>2, DivMod DEF Bits
    <3> QED
      BY <3>1
  <2> QED
    BY <1>1, <1>2, <2>1 DEF Refill, Shape, CsrName
<1>4. Shape'
  <2>1. (csr = [c \in CsrName |-> csr[c]])'
    BY <1>2, <1>3 DEF Shape
  <2>2. Place(at)'
    BY <1>1 DEF Refill, Place
  <2> QED
    BY <1>1, <1>2, <2>1, <2>2 DEF Refill, Shape
<1>5. csr'["TLBREPC"] = at /\ csr'["TLBREHI"] = hi
      /\ csr'["KS6"] = csr["KS6"] /\ csr'["KS7"] = csr["KS7"]
  BY <1>2, <1>3 DEF Shape, CsrName
<1>6. Return' /\ Bits'
  BY <1>2, <1>5 DEF Return, Bits, Shape, Place
<1>7. Entries' /\ Computing'
  BY <1>1, <1>2 DEF Refill, Entries, Computing, Computed
<1> QED
  BY <1>4, <1>6, <1>7 DEF EntryInv

\* The other steps do not touch what the handlers compute with.
LEMMA OutsideStep ==
  ASSUME EntryInv,
         \/ AccessDone \/ Program
         \/ \E r \in Value : HostAnswers(r)
         \/ \E e \in tlb : Evict(e)
  PROVE  EntryInv'
<1>1. Shape /\ Return /\ Bits /\ Entries
  BY DEF EntryInv
<1>2. CASE AccessDone
  BY <1>1, <1>2 DEF AccessDone, EntryInv, Shape, Return, Bits, Entries, Computing, Place
<1>3. CASE \E r \in DOMAIN reg, v \in Value : ProgramComputes(r, v)
  BY <1>1, <1>3 DEF ProgramComputes, EntryInv, Shape, Return, Bits, Entries, Computing, Place
<1>4. CASE \E a \in Addr : ProgramAccesses(a)
  BY <1>1, <1>4 DEF ProgramAccesses, Quiet, EntryInv, Shape, Return, Bits, Entries, Computing, Place
<1>5. CASE ProgramCalls
  <2>1. Shape'
    <3>1. (csr = [c \in CsrName |-> csr[c]])'
      BY <1>1, <1>5 DEF ProgramCalls, Shape
    <3>2. Place(at)'
      BY <1>5 DEF ProgramCalls, Place
    <3> QED
      BY <1>1, <1>5, <3>1, <3>2 DEF ProgramCalls, Shape
  <2>2. \A c \in CsrName \ {"EPC"} : csr'[c] = csr[c]
    BY <1>1, <1>5 DEF ProgramCalls, Shape
  <2>3. Return' /\ Bits'
    BY <1>1, <2>2 DEF Return, Bits, Place, CsrName
  <2> QED
    BY <1>1, <1>5, <2>1, <2>3 DEF ProgramCalls, EntryInv, Entries, Computing
<1>6. CASE \E r \in Value : HostAnswers(r)
  BY <1>1, <1>6 DEF HostAnswers, EntryInv, Shape, Return, Bits, Entries, Computing, Place
<1>7. CASE \E e \in tlb : Evict(e)
  BY <1>1, <1>7 DEF Evict, EntryInv, Shape, Return, Bits, Entries, Computing, Place
<1> QED
  BY <1>2, <1>3, <1>4, <1>5, <1>6, <1>7 DEF Program

\* Every step keeps EntryInv.
LEMMA NextEntry == EntryInv /\ [Next]_vars => EntryInv'
<1> SUFFICES ASSUME EntryInv, [Next]_vars PROVE EntryInv'
  OBVIOUS
<1>1. CASE Instruction
  <2>1. at[1] \in {"sys", "refill"}
    BY <1>1, Decode
  <2> QED
    BY <1>1, <2>1, SyscallStep, RefillStep
<1>2. CASE Miss
  BY <1>2, MissStep
<1>3. CASE \/ AccessDone \/ Program
           \/ \E r \in Value : HostAnswers(r)
           \/ \E e \in tlb : Evict(e)
  BY <1>3, OutsideStep
<1>4. CASE UNCHANGED vars
  BY <1>4 DEF vars, EntryInv, Shape, Return, Bits, Entries, Computing, Computed, Place
<1> QED
  BY <1>1, <1>2, <1>3, <1>4 DEF Next

\* "GVA mapped to HVA 1:1" (Readme.md:25): for every page size, every address
\* the program uses and every place of the system call handler, no entry the
\* refill handler (entry.S:12-37) has made translates an address to another.
THEOREM MemoryIdentity == Spec => []IdentityMap
<1>1. Init => EntryInv
  BY InitEntry
<1>2. EntryInv /\ [Next]_vars => EntryInv'
  BY NextEntry
<1>3. EntryInv => IdentityMap
  <2> SUFFICES ASSUME EntryInv, NEW e \in tlb, NEW a \in Addr \union {Ebase}, Hits(e, a)
               PROVE  Translate(e, a) = a
    BY DEF IdentityMap
  <2>1. PICK b \in Nat : e = EntryOf(b)
    BY DEF EntryInv, Entries
  <2>2. a \in Nat
    BY AddrAssumption
  <2> QED
    BY <2>1, <2>2, EntryIdentity
<1> QED
  BY <1>1, <1>2, <1>3, PTL DEF Spec
-----------------------------------------------------------------------------
(* What the program sees.  A refill keeps t0 in TLBRSAVE and t1 in KS0      *)
(* while it computes with them; T0, T1 and Here are the registers and the   *)
(* place of the code that it interrupted.                                   *)

SysPlace  == {"sys"} \X (1 .. 10)
UserPlace == {"user"} \X {0, 4}

Here == IF at[1] = "refill" THEN csr["TLBREPC"] ELSE at
T0   == IF at[1] = "refill" /\ at[2] \in 2 .. 16 THEN csr["TLBRSAVE"] ELSE reg["t0"]
T1   == IF at[1] = "refill" /\ at[2] \in 3 .. 17 THEN csr["KS0"] ELSE reg["t1"]

\* Types, and the shape of the variables EntryInv does not look at.
Typed ==
  /\ at \in UserPlace \union SysPlace \union ({"refill"} \X (1 .. 18))
              \union ({"host"} \X {5})
  /\ csr["TLBREPC"] \in UserPlace \union SysPlace
  /\ \A r \in RegName : reg[r] \in Int
  /\ \A c \in CsrName \ {"TLBREPC"} : csr[c] \in Int
  /\ block \in [{"a0", "a7"} -> Int]
  /\ want \in [RegName \union {"pc"} -> Int]

\* The program at place p with t0 and t1 as given: in user code, or at
\* instruction p[2] of the system call handler.
InUser(p, t0) ==
  /\ p[2] = want["pc"] /\ reg["a0"] = want["a0"]
  /\ want["t0"] # AnyValue => t0 = want["t0"]

InCall(p, t0) ==
  /\ p[2] \in 2 .. 6 => t0 = SyscallParameter
  /\ p[2] \in 1 .. 4 => reg["a0"] = want["a0"]
  /\ p[2] \in 3 .. 6 => block["a0"] = want["a0"]
  /\ p[2] \in 4 .. 5 => block["a7"] = want["a7"]
  /\ p[2] \in 7 .. 10 => reg["a0"] = want["a0"]
  /\ p[2] \in 6 .. 10 => want["pc"] = 4 /\ want["t0"] = AnyValue
  /\ p[2] \in 1 .. 9 => csr["EPC"] = 0
  /\ p[2] = 8 => t0 = 0
  /\ p[2] = 9 => t0 = 4
  /\ p[2] = 10 => csr["EPC"] = 4

Seen(p, t0, t1) ==
  /\ csr["KS5"] = SyscallParameter
  /\ t1 = want["t1"] /\ reg["a7"] = want["a7"]
  /\ p[1] = "user" => InUser(p, t0)
  /\ p[1] \in {"sys", "host"} => InCall(p, t0)

ProgramInv == EntryInv /\ Typed /\ Seen(Here, T0, T1)
-----------------------------------------------------------------------------
(* Every step keeps the program's view.                                    *)

\* The initial state satisfies ProgramInv.
LEMMA InitProgram == Init => ProgramInv
<1> SUFFICES ASSUME Init PROVE ProgramInv
  OBVIOUS
<1>1. /\ Here = <<"user", 0>> /\ T0 = reg["t0"] /\ T1 = reg["t1"]
  BY DEF Init, Here, T0, T1
<1>2. reg \in [RegName -> Int]
  <2>1. reg \in [RegName -> Value]
    BY DEF Init, RegName
  <2>2. Value \subseteq Int
    BY ValueAssumption
  <2> QED
    BY <2>1, <2>2
<1>3. \A c \in CsrName \ {"TLBREPC"} : csr[c] \in Int
  BY PageFacts DEF Init, CsrName, SyscallParameter, TLBRELO0_STANDARD_BITS,
     TLBRELO1_STANDARD_BITS
<1>4. want \in [RegName \union {"pc"} -> Int]
  <2>1. \A r \in RegName : reg[r] \in Int
    BY <1>2
  <2>2. DOMAIN want = RegName \union {"pc"}
    BY DEF Init, RegName
  <2>3. \A r \in RegName \union {"pc"} : want[r] \in Int
    BY <2>1 DEF Init, RegName
  <2>4. want = [r \in DOMAIN want |-> want[r]]
    BY DEF Init
  <2> QED
    BY <2>2, <2>3, <2>4
<1>5. Typed
  <2>1. block \in [{"a0", "a7"} -> Int]
    BY DEF Init
  <2>2. csr["TLBREPC"] \in UserPlace /\ at \in UserPlace
    BY DEF Init, UserPlace
  <2> QED
    BY <1>2, <1>3, <1>4, <2>1, <2>2 DEF Typed
<1>6. Seen(Here, T0, T1)
  BY <1>1 DEF Init, Seen, InUser
<1> QED
  BY <1>5, <1>6, InitEntry DEF ProgramInv

\* No instruction of a handler changes what the program knows, and only the
\* system call handler writes into the block.
LEMMA WantKept ==
  ASSUME Instruction
  PROVE  want' = want /\ (Handler[at[2]][1] # "st" => block' = block)
  BY DEF Instruction, Csrrd, Csrwr, Compute, Tlbfill, Store, Load, Ertn,
         Hypercall, Fetch

\* What an instruction of the refill handler does to the registers, to the CSRs
\* that keep them, and to what the program uses.
LEMMA RefillSaves ==
  ASSUME EntryInv, Instruction, at[1] = "refill"
  PROVE  /\ \A r \in {"a0", "a7"} : reg'[r] = reg[r]
         /\ at[2] \notin {1, 3, 4, 5, 16} => reg'["t0"] = reg["t0"]
         /\ at[2] \in {1, 3, 4, 5, 16, 18} => reg'["t1"] = reg["t1"]
         /\ csr'["TLBRSAVE"] = IF at[2] = 1 THEN reg["t0"] ELSE csr["TLBRSAVE"]
         /\ csr'["KS0"] = IF at[2] = 2 THEN reg["t1"] ELSE csr["KS0"]
         /\ at[2] = 16 => reg'["t0"] = csr["TLBRSAVE"]
         /\ at[2] = 17 => reg'["t1"] = csr["KS0"]
         /\ \A c \in {"KS5", "EPC", "TLBREPC"} : csr'[c] = csr[c]
         /\ block' = block
<1>1. /\ Handler = tlb_refill_entry /\ at[2] \in 1 .. 18
      /\ reg = [r \in RegName |-> reg[r]] /\ csr = [c \in CsrName |-> csr[c]]
  BY DEF EntryInv, Shape, Place, Handler
<1>2. RegName = {"t0", "t1", "a0", "a7"} /\ {"TLBRSAVE", "KS0"} \subseteq CsrName
  BY DEF RegName, CsrName
<1>3. \A c \in {"KS5", "EPC", "TLBREPC"} : csr'[c] = csr[c]
  BY RefillEffect DEF CsrName, RefillCsr
<1>4. block' = block
  BY <1>1, RefillTable, WantKept
<1>5. CASE at[2] \in {3, 16}
  <2>1. PICK c \in {"TLBREHI", "TLBRSAVE"} :
          /\ tlb_refill_entry[at[2]] = <<"csrrd", "t0", c>>
          /\ at[2] = 16 => c = "TLBRSAVE"
    BY <1>5, RefillTable
  <2>2. reg' = [reg EXCEPT !["t0"] = csr[c]] /\ csr' = csr
    BY <2>1, RefillCsrrd
  <2> QED
    BY <1>1, <1>2, <1>3, <1>4, <1>5, <2>1, <2>2
<1>6. CASE at[2] \in {9, 12, 17}
  <2>1. PICK c \in {"KS6", "KS7", "KS0"} :
          /\ tlb_refill_entry[at[2]] = <<"csrrd", "t1", c>>
          /\ at[2] = 17 => c = "KS0"
    BY <1>6, RefillTable
  <2>2. reg' = [reg EXCEPT !["t1"] = csr[c]] /\ csr' = csr
    BY <2>1, RefillCsrrd
  <2> QED
    BY <1>1, <1>2, <1>3, <1>4, <1>6, <2>1, <2>2
<1>7. CASE at[2] = 1
  <2>1. reg' = [reg EXCEPT !["t0"] = csr["TLBRSAVE"]]
        /\ csr' = [csr EXCEPT !["TLBRSAVE"] = reg["t0"]]
    BY <1>7, RefillTable, RefillCsrwr
  <2> QED
    BY <1>1, <1>2, <1>3, <1>4, <1>7, <2>1
<1>8. CASE at[2] \in {2, 8, 11, 14}
  <2>1. PICK c \in {"KS0", "TLBREHI", "TLBRELO0", "TLBRELO1"} :
          /\ tlb_refill_entry[at[2]] = <<"csrwr", "t1", c>>
          /\ c = "KS0" <=> at[2] = 2
    BY <1>8, RefillTable
  <2>2. reg' = [reg EXCEPT !["t1"] = csr[c]] /\ csr' = [csr EXCEPT ![c] = reg["t1"]]
    BY <2>1, RefillCsrwr
  <2>3. c \in CsrName
    BY <2>1 DEF CsrName
  <2> QED
    BY <1>1, <1>2, <1>3, <1>4, <1>8, <2>1, <2>2, <2>3
<1>9. CASE at[2] \in {4, 5}
  <2>1. PICK op \in {"srli", "slli"} : tlb_refill_entry[at[2]] = <<op, "t0", 2 * PageSize>>
    BY <1>9, RefillTable
  <2>2. (\E v : reg' = [reg EXCEPT !["t0"] = v]) /\ csr' = csr
    BY <2>1, RefillCompute
  <2> QED
    BY <1>1, <1>2, <1>3, <1>4, <1>9, <2>2
<1>10. CASE at[2] \in {6, 7, 10, 13}
  <2>1. PICK op \in {"li", "add"}, x \in {TLB_PS, "t0"} :
          tlb_refill_entry[at[2]] = <<op, "t1", x>>
    BY <1>10, RefillTable
  <2>2. (\E v : reg' = [reg EXCEPT !["t1"] = v]) /\ csr' = csr
    BY <2>1, RefillCompute
  <2> QED
    BY <1>1, <1>2, <1>3, <1>4, <1>10, <2>2
<1>11. CASE at[2] = 15
  <2>1. Tlbfill
    BY <1>1, <1>11, RefillTable, Decode
  <2> QED
    BY <1>3, <1>4, <1>11, <2>1 DEF Tlbfill
<1>12. CASE at[2] = 18
  <2>1. Ertn
    BY <1>1, <1>12, RefillTable, Decode
  <2> QED
    BY <1>3, <1>4, <1>12, <2>1 DEF Ertn
<1> QED
  BY <1>1, <1>5, <1>6, <1>7, <1>8, <1>9, <1>10, <1>11, <1>12

\* A refill changes nothing of the code it interrupted.
LEMMA RefillHidden ==
  ASSUME EntryInv, Typed, Instruction, at[1] = "refill"
  PROVE  Here' = Here /\ T0' = T0 /\ T1' = T1
<1>1. at[2] \in 1 .. 18
  BY DEF EntryInv, Shape, Place
<1>2. CASE at[2] = 18
  <2>1. at' = csr["TLBREPC"] /\ at'[1] # "refill"
    BY <1>2, RefillEffect DEF EntryInv, Return
  <2> QED
    BY <1>2, <2>1, RefillSaves DEF Here, T0, T1
<1>3. CASE at[2] # 18
  <2>1. at'[1] = "refill" /\ at'[2] = at[2] + 1
    BY <1>3, RefillEffect
  <2>2. Here' = Here
    BY <2>1, RefillSaves DEF Here
  <2>3. T0' = T0
    <3>1. CASE at[2] = 1
      BY <2>1, <3>1, RefillSaves DEF T0
    <3>2. CASE at[2] \in 2 .. 15
      BY <2>1, <3>2, RefillSaves DEF T0
    <3>3. CASE at[2] \in {16, 17}
      BY <2>1, <3>3, RefillSaves DEF T0
    <3> QED
      BY <1>1, <1>3, <3>1, <3>2, <3>3
  <2>4. T1' = T1
    <3>1. CASE at[2] = 1
      BY <2>1, <3>1, RefillSaves DEF T1
    <3>2. CASE at[2] = 2
      BY <2>1, <3>2, RefillSaves DEF T1
    <3>3. CASE at[2] \in 3 .. 16
      BY <2>1, <3>3, RefillSaves DEF T1
    <3>4. CASE at[2] = 17
      BY <2>1, <3>4, RefillSaves DEF T1
    <3> QED
      BY <1>1, <1>3, <3>1, <3>2, <3>3, <3>4
  <2> QED
    BY <2>2, <2>3, <2>4
<1> QED
  BY <1>2, <1>3

\* The refill handler keeps ProgramInv.
LEMMA RefillProgram ==
  ASSUME ProgramInv, Instruction, at[1] = "refill"
  PROVE  ProgramInv'
<1>1. /\ EntryInv /\ Typed /\ Seen(Here, T0, T1) /\ at[2] \in 1 .. 18 /\ Shape
  BY DEF ProgramInv, EntryInv, Shape, Place
<1>2. EntryInv'
  BY <1>1, RefillStep
<1>3. Seen(Here, T0, T1)'
  <2>1. Here' = Here /\ T0' = T0 /\ T1' = T1 /\ want' = want /\ block' = block
    BY <1>1, RefillHidden, RefillSaves, WantKept
  <2>2. /\ \A r \in {"a0", "a7"} : reg'[r] = reg[r]
        /\ \A c \in {"KS5", "EPC"} : csr'[c] = csr[c]
    BY <1>1, RefillSaves
  <2> QED
    BY <1>1, <2>1, <2>2 DEF Seen, InUser, InCall
<1>4. /\ at' \in UserPlace \union SysPlace \union ({"refill"} \X (1 .. 18))
      /\ csr'["TLBREPC"] \in UserPlace \union SysPlace
  <2>1. at[2] # 18 => at' = <<"refill", at[2] + 1>>
    BY <1>1, RefillEffect
  <2>2. at[2] = 18 => at' = csr["TLBREPC"]
    BY <1>1, RefillEffect
  <2>3. csr'["TLBREPC"] = csr["TLBREPC"]
    BY <1>1, RefillSaves
  <2> QED
    BY <1>1, <2>1, <2>2, <2>3 DEF Typed
<1>5. \A r \in RegName : reg'[r] \in Int
  <2>1. reg'["a0"] \in Int /\ reg'["a7"] \in Int
    BY <1>1, RefillSaves DEF Typed, RegName
  <2>2. {"t0", "t1"} \subseteq RegName /\ CsrName \ {"TLBREPC"} \subseteq CsrName
    BY DEF RegName
  <2>3. reg = [r \in RegName |-> reg[r]]
    BY <1>1 DEF Shape
  <2>4. CASE at[2] \in {3, 9, 12, 16, 17}
    <3>1. PICK r \in {"t0", "t1"}, c \in CsrName \ {"TLBREPC"} :
            tlb_refill_entry[at[2]] = <<"csrrd", r, c>>
      BY <2>4, RefillTable DEF CsrName
    <3>2. reg' = [reg EXCEPT ![r] = csr[c]]
      BY <1>1, <3>1, RefillCsrrd
    <3> QED
      BY <1>1, <2>2, <2>3, <3>1, <3>2 DEF Typed
  <2>5. CASE at[2] \in {1, 2, 8, 11, 14}
    <3>1. PICK r \in {"t0", "t1"}, c \in CsrName \ {"TLBREPC"} :
            tlb_refill_entry[at[2]] = <<"csrwr", r, c>>
      BY <2>5, RefillTable DEF CsrName
    <3>2. reg' = [reg EXCEPT ![r] = csr[c]]
      BY <1>1, <3>1, RefillCsrwr
    <3> QED
      BY <1>1, <2>2, <2>3, <3>1, <3>2 DEF Typed
  <2>6. CASE at[2] \in {4, 5}
    <3>1. PICK b \in Nat : Computed(b, at[2])'
      BY <1>1, <2>6, ComputedStep
    <3>2. at'[2] = at[2] + 1
      BY <1>1, <2>6, RefillEffect
    <3>3. reg'["t0"] \in Int
      BY <2>6, <3>1, <3>2, PageFacts DEF Computed
    <3>4. reg'["t1"] = reg["t1"]
      BY <1>1, <2>6, RefillSaves
    <3> QED
      BY <1>1, <2>1, <3>3, <3>4 DEF Typed, RegName
  <2>7. CASE at[2] \in {6, 7, 10, 13}
    <3>1. PICK b \in Nat : Computed(b, at[2])'
      BY <1>1, <2>7, ComputedStep
    <3>2. at'[2] = at[2] + 1
      BY <1>1, <2>7, RefillEffect
    <3>3. EntryOf(b).hi \in Int /\ EntryOf(b).lo0 \in Int /\ EntryOf(b).lo1 \in Int
      BY PageFacts DEF EntryOf, TLBRELO0_STANDARD_BITS, TLBRELO1_STANDARD_BITS
    <3>4. reg'["t1"] \in Int
      BY <2>7, <3>1, <3>2, <3>3, PageFacts DEF Computed
    <3>5. reg'["t0"] = reg["t0"]
      BY <1>1, <2>7, RefillSaves
    <3> QED
      BY <1>1, <2>1, <3>4, <3>5 DEF Typed, RegName
  <2>8. CASE at[2] = 15
    <3>1. Tlbfill
      BY <1>1, <2>8, RefillTable, Decode DEF Handler
    <3> QED
      BY <1>1, <3>1 DEF Tlbfill, Typed
  <2>9. CASE at[2] = 18
    <3>1. Ertn
      BY <1>1, <2>9, RefillTable, Decode DEF Handler
    <3> QED
      BY <1>1, <3>1 DEF Ertn, Typed
  <2> QED
    BY <1>1, <2>4, <2>5, <2>6, <2>7, <2>8, <2>9
<1>6. \A c \in CsrName \ {"TLBREPC"} : csr'[c] \in Int
  <2>1. CASE at[2] \in {1, 2, 8, 11, 14}
    <3>1. PICK r \in RegName, c \in CsrName :
            tlb_refill_entry[at[2]] = <<"csrwr", r, c>>
      BY <2>1, RefillTable DEF CsrName, RegName
    <3>2. csr' = [csr EXCEPT ![c] = reg[r]]
      BY <1>1, <3>1, RefillCsrwr
    <3>3. csr = [d \in CsrName |-> csr[d]]
      BY <1>1 DEF Shape
    <3> QED
      BY <1>1, <3>1, <3>2, <3>3 DEF Typed
  <2>2. CASE at[2] \notin {1, 2, 8, 11, 14}
    BY <1>1, <2>2, RefillEffect DEF Typed
  <2> QED
    BY <2>1, <2>2
<1>7. Typed'
  <2>1. block' = block /\ want' = want
    BY <1>1, RefillSaves, WantKept
  <2> QED
    BY <1>1, <1>4, <1>5, <1>6, <2>1 DEF Typed
<1> QED
  BY <1>2, <1>3, <1>7 DEF ProgramInv

\* The system call handler, instruction by instruction.
LEMMA SyscallDoes ==
  ASSUME EntryInv, Instruction, at[1] = "sys"
  PROVE  /\ at[2] \in 1 .. 10 /\ want' = want
         /\ at[2] \notin {5, 10} => at' = <<"sys", at[2] + 1>>
         /\ at[2] = 1 => reg' = [reg EXCEPT !["t0"] = csr["KS5"]]
         /\ at[2] = 2 /\ reg["t0"] = SyscallParameter
              => block' = [block EXCEPT !["a0"] = reg["a0"]]
         /\ at[2] = 3 /\ reg["t0"] = SyscallParameter
              => block' = [block EXCEPT !["a7"] = reg["a7"]]
         /\ at[2] = 4 => reg' = [reg EXCEPT !["a0"] = 0]
         /\ at[2] = 5 => at' = <<"host", 5>>
         /\ at[2] = 6 /\ reg["t0"] = SyscallParameter
              => reg' = [reg EXCEPT !["a0"] = block["a0"]]
         /\ at[2] = 7 => reg' = [reg EXCEPT !["t0"] = csr["EPC"]]
         /\ at[2] = 8 => reg' = [reg EXCEPT !["t0"] = reg["t0"] + 4]
         /\ at[2] = 9 => /\ reg' = [reg EXCEPT !["t0"] = csr["EPC"]]
                         /\ csr' = [csr EXCEPT !["EPC"] = reg["t0"]]
         /\ at[2] = 10 => at' = <<"user", csr["EPC"]>>
         /\ at[2] \in {2, 3, 5, 10} => reg' = reg
         /\ at[2] # 9 => csr' = csr
         /\ at[2] \notin {2, 3} => block' = block
<1>1. Handler = syscall_entry /\ at[2] \in 1 .. 10 /\ want' = want
  BY WantKept DEF EntryInv, Shape, Place, Handler
<1>2. CASE at[2] \in {1, 7}
  <2>1. /\ Handler[at[2]][1] = "csrrd" /\ Rd = "t0"
        /\ at[2] = 1 => Src = "KS5"
        /\ at[2] = 7 => Src = "EPC"
    BY <1>1, <1>2, SyscallTable DEF Rd, Src
  <2>2. Csrrd
    BY <2>1, Decode
  <2>3. /\ reg' = [reg EXCEPT !["t0"] = csr[Src]] /\ at' = <<"sys", at[2] + 1>>
        /\ UNCHANGED <<csr, block>>
    BY <2>1, <2>2 DEF Csrrd, Sets, Forward
  <2>4. /\ at[2] = 1 => reg' = [reg EXCEPT !["t0"] = csr["KS5"]]
        /\ at[2] = 7 => reg' = [reg EXCEPT !["t0"] = csr["EPC"]]
    BY <2>1, <2>3
  <2> QED
    BY <1>1, <1>2, <2>3, <2>4
<1>3. CASE at[2] \in {2, 3}
  <2>1. /\ Handler[at[2]][1] = "st"
        /\ at[2] = 2 => Rd = "a0"
        /\ at[2] = 3 => Rd = "a7"
    BY <1>1, <1>3, SyscallTable DEF Rd
  <2>2. Store
    BY <2>1, Decode
  <2>3. /\ at' = <<"sys", at[2] + 1>> /\ UNCHANGED <<reg, csr>>
        /\ reg["t0"] = SyscallParameter => block' = [block EXCEPT ![Rd] = reg[Rd]]
    BY <2>2 DEF Store, Forward
  <2> QED
    BY <1>1, <1>3, <2>1, <2>3
<1>4. CASE at[2] = 4
  <2>1. Handler[at[2]][1] = "clear" /\ Rd = "a0"
    BY <1>1, <1>4, SyscallTable DEF Rd
  <2>2. Compute
    BY <2>1, Decode
  <2> QED
    BY <1>1, <1>4, <2>1, <2>2 DEF Compute, Sets, Forward, Fetch
<1>5. CASE at[2] = 5
  <2>1. Handler[at[2]][1] = "hypercall"
    BY <1>1, <1>5, SyscallTable
  <2>2. Hypercall
    BY <2>1, Decode
  <2> QED
    BY <1>1, <1>5, <2>2 DEF Hypercall
<1>6. CASE at[2] = 6
  <2>1. Handler[at[2]][1] = "ld" /\ Rd = "a0"
    BY <1>1, <1>6, SyscallTable DEF Rd
  <2>2. Load
    BY <2>1, Decode
  <2>3. /\ at' = <<"sys", at[2] + 1>> /\ UNCHANGED <<csr, block>>
        /\ reg["t0"] = SyscallParameter => reg' = [reg EXCEPT !["a0"] = block["a0"]]
    BY <2>1, <2>2 DEF Load, Sets, Forward
  <2> QED
    BY <1>1, <1>6, <2>1, <2>3
<1>7. CASE at[2] = 8
  <2>1. Handler[at[2]][1] = "addi" /\ Rd = "t0" /\ Src = 4
    BY <1>1, <1>7, SyscallTable DEF Rd, Src
  <2>2. Compute
    BY <2>1, Decode
  <2> QED
    BY <1>1, <1>7, <2>1, <2>2 DEF Compute, Sets, Forward, Fetch
<1>8. CASE at[2] = 9
  <2>1. Handler[at[2]][1] = "csrwr" /\ Rd = "t0" /\ Src = "EPC"
    BY <1>1, <1>8, SyscallTable DEF Rd, Src
  <2>2. Csrwr
    BY <2>1, Decode
  <2> QED
    BY <1>1, <1>8, <2>1, <2>2 DEF Csrwr, Sets, Forward
<1>9. CASE at[2] = 10
  <2>1. Handler[at[2]][1] = "ertn"
    BY <1>1, <1>9, SyscallTable
  <2>2. Ertn
    BY <2>1, Decode
  <2> QED
    BY <1>1, <1>9, <2>2 DEF Ertn
<1> QED
  BY <1>1, <1>2, <1>3, <1>4, <1>5, <1>6, <1>7, <1>8, <1>9

\* The system call handler keeps ProgramInv.
LEMMA SyscallProgram ==
  ASSUME ProgramInv, Instruction, at[1] = "sys"
  PROVE  ProgramInv'
<1>1. EntryInv /\ Typed /\ Seen(Here, T0, T1) /\ Shape
  BY DEF ProgramInv, EntryInv
<1>2. EntryInv' /\ at[2] \in 1 .. 10 /\ want' = want
  BY <1>1, SyscallStep, SyscallDoes
<1>3. Here = at /\ T0 = reg["t0"] /\ T1 = reg["t1"]
  BY DEF Here, T0, T1
<1>4. Here' = at' /\ T0' = reg'["t0"] /\ T1' = reg'["t1"]
  BY <1>1, SyscallEffect DEF Here, T0, T1
<1>5. /\ reg = [r \in RegName |-> reg[r]] /\ csr = [c \in CsrName |-> csr[c]]
      /\ {"t0", "t1", "a0", "a7"} = RegName /\ {"KS5", "EPC"} \subseteq CsrName
  BY <1>1 DEF Shape, RegName, CsrName
<1>6. /\ csr["KS5"] = SyscallParameter
      /\ reg["t1"] = want["t1"] /\ reg["a7"] = want["a7"] /\ InCall(at, reg["t0"])
  BY <1>1, <1>3 DEF Seen
<1>7. \A c \in CsrName \ {"EPC"} : csr'[c] = csr[c]
  BY <1>1, SyscallEffect
<1>8. Seen(Here, T0, T1)'
  <2>1. csr'["KS5"] = SyscallParameter
    BY <1>5, <1>6, <1>7
  <2>2. reg'["t1"] = want["t1"] /\ reg'["a7"] = want["a7"]
    <3>1. CASE at[2] \in {2, 3, 5, 10}
      BY <1>1, <1>6, <3>1, SyscallDoes
    <3>2. CASE at[2] \in {1, 7, 8, 9}
      BY <1>1, <1>5, <1>6, <3>2, SyscallDoes
    <3>3. CASE at[2] = 4
      BY <1>1, <1>5, <1>6, <3>3, SyscallDoes
    <3>4. CASE at[2] = 6
      BY <1>1, <1>5, <1>6, <3>4, SyscallDoes DEF InCall
    <3> QED
      BY <1>2, <3>1, <3>2, <3>3, <3>4
  <2>3. CASE at[2] = 10
    <3>1. at' = <<"user", csr["EPC"]>> /\ reg' = reg /\ csr["EPC"] = 4
      BY <1>1, <1>6, <2>3, SyscallDoes DEF InCall
    <3>2. InUser(at, reg["t0"])'
      BY <1>2, <1>6, <2>3, <3>1 DEF InUser, InCall
    <3> QED
      BY <1>2, <1>4, <2>1, <2>2, <3>1, <3>2 DEF Seen
  <2>4. CASE at[2] = 5
    <3>1. at' = <<"host", 5>> /\ reg' = reg /\ csr' = csr /\ block' = block
      BY <1>1, <2>4, SyscallDoes
    <3>2. InCall(at, reg["t0"])'
      BY <1>2, <1>6, <2>4, <3>1 DEF InCall
    <3> QED
      BY <1>2, <1>4, <2>1, <2>2, <3>1, <3>2 DEF Seen
  <2>5. CASE at[2] \notin {5, 10}
    <3>1. at' = <<"sys", at[2] + 1>>
      BY <1>1, <2>5, SyscallDoes
    <3>2. block = [r \in {"a0", "a7"} |-> block[r]]
      BY <1>1 DEF Typed
    <3>3. InCall(at, reg["t0"])'
      <4>1. CASE at[2] = 1
        <5>1. reg'["t0"] = SyscallParameter /\ reg'["a0"] = reg["a0"] /\ csr' = csr
          BY <1>1, <1>5, <1>6, <4>1, SyscallDoes
        <5> QED
          BY <1>2, <1>6, <3>1, <4>1, <5>1 DEF InCall
      <4>2. CASE at[2] = 2
        <5>1. block'["a0"] = reg["a0"] /\ reg' = reg /\ csr' = csr
          BY <1>1, <1>6, <3>2, <4>2, SyscallDoes DEF InCall
        <5> QED
          BY <1>2, <1>6, <3>1, <4>2, <5>1 DEF InCall
      <4>3. CASE at[2] = 3
        <5>1. block'["a7"] = reg["a7"] /\ block'["a0"] = block["a0"] /\ reg' = reg /\ csr' = csr
          BY <1>1, <1>6, <3>2, <4>3, SyscallDoes DEF InCall
        <5> QED
          BY <1>2, <1>6, <3>1, <4>3, <5>1 DEF InCall
      <4>4. CASE at[2] = 4
        <5>1. reg'["t0"] = reg["t0"] /\ block' = block /\ csr' = csr
          BY <1>1, <1>5, <4>4, SyscallDoes
        <5> QED
          BY <1>2, <1>6, <3>1, <4>4, <5>1 DEF InCall
      <4>5. CASE at[2] = 6
        <5>1. reg'["a0"] = block["a0"] /\ csr' = csr
          BY <1>1, <1>5, <1>6, <4>5, SyscallDoes DEF InCall
        <5> QED
          BY <1>2, <1>6, <3>1, <4>5, <5>1 DEF InCall
      <4>6. CASE at[2] = 7
        <5>1. reg'["t0"] = csr["EPC"] /\ reg'["a0"] = reg["a0"] /\ csr' = csr
          BY <1>1, <1>5, <4>6, SyscallDoes
        <5> QED
          BY <1>2, <1>6, <3>1, <4>6, <5>1 DEF InCall
      <4>7. CASE at[2] = 8
        <5>1. reg'["t0"] = reg["t0"] + 4 /\ reg'["a0"] = reg["a0"] /\ csr' = csr
          BY <1>1, <1>5, <4>7, SyscallDoes
        <5> QED
          BY <1>2, <1>6, <3>1, <4>7, <5>1 DEF InCall
      <4>8. CASE at[2] = 9
        <5>1. csr'["EPC"] = reg["t0"] /\ reg'["a0"] = reg["a0"]
          BY <1>1, <1>5, <4>8, SyscallDoes
        <5> QED
          BY <1>2, <1>6, <3>1, <4>8, <5>1 DEF InCall
      <4> QED
        BY <1>2, <2>5, <4>1, <4>2, <4>3, <4>4, <4>5, <4>6, <4>7, <4>8
    <3> QED
      BY <1>2, <1>4, <2>1, <2>2, <3>1, <3>3 DEF Seen
  <2> QED
    BY <2>3, <2>4, <2>5
<1>9. Typed'
  <2>1. /\ at' \in UserPlace \union SysPlace \union ({"refill"} \X (1 .. 18))
                     \union ({"host"} \X {5})
        /\ csr'["TLBREPC"] \in UserPlace \union SysPlace
    <3>1. csr'["TLBREPC"] = csr["TLBREPC"]
      BY <1>7 DEF CsrName
    <3>2. CASE at[2] \notin {5, 10}
      BY <1>1, <1>2, <3>1, <3>2, SyscallDoes DEF Typed, SysPlace
    <3>3. CASE at[2] = 5
      BY <1>1, <3>1, <3>3, SyscallDoes DEF Typed
    <3>4. CASE at[2] = 10
      BY <1>1, <1>6, <3>1, <3>4, SyscallDoes DEF Typed, UserPlace, InCall
    <3> QED
      BY <3>2, <3>3, <3>4
  <2>2. \A r \in RegName : reg'[r] \in Int
    <3>1. csr["KS5"] \in Int /\ csr["EPC"] \in Int /\ block["a0"] \in Int
      BY <1>1 DEF Typed, CsrName
    <3>2. \A r \in RegName : reg[r] \in Int
      BY <1>1 DEF Typed
    <3>3. CASE at[2] \in {2, 3, 5, 10}
      BY <1>1, <3>2, <3>3, SyscallDoes
    <3>4. CASE at[2] \in {1, 7, 9}
      BY <1>1, <1>5, <3>1, <3>2, <3>4, SyscallDoes
    <3>5. CASE at[2] = 4
      BY <1>1, <1>5, <3>2, <3>5, SyscallDoes
    <3>6. CASE at[2] = 6
      BY <1>1, <1>5, <1>6, <3>1, <3>2, <3>6, SyscallDoes DEF InCall
    <3>7. CASE at[2] = 8
      BY <1>1, <1>5, <3>2, <3>7, SyscallDoes
    <3> QED
      BY <1>2, <3>3, <3>4, <3>5, <3>6, <3>7
  <2>3. \A c \in CsrName \ {"TLBREPC"} : csr'[c] \in Int
    <3>1. CASE at[2] = 9
      BY <1>1, <1>5, <3>1, SyscallDoes DEF Typed
    <3>2. CASE at[2] # 9
      BY <1>1, <3>2, SyscallDoes DEF Typed
    <3> QED
      BY <3>1, <3>2
  <2>4. block' \in [{"a0", "a7"} -> Int]
    <3>1. reg["a0"] \in Int /\ reg["a7"] \in Int /\ block \in [{"a0", "a7"} -> Int]
      BY <1>1, <1>5 DEF Typed
    <3>2. CASE at[2] = 2
      BY <1>1, <1>6, <3>1, <3>2, SyscallDoes DEF InCall
    <3>3. CASE at[2] = 3
      BY <1>1, <1>6, <3>1, <3>3, SyscallDoes DEF InCall
    <3>4. CASE at[2] \notin {2, 3}
      BY <1>1, <3>1, <3>4, SyscallDoes
    <3> QED
      BY <3>2, <3>3, <3>4
  <2> QED
    BY <1>1, <1>2, <2>1, <2>2, <2>3, <2>4 DEF Typed
<1> QED
  BY <1>2, <1>8, <1>9 DEF ProgramInv

\* A miss sets t0, t1 and the place aside.
LEMMA MissProgram ==
  ASSUME ProgramInv, Miss
  PROVE  ProgramInv'
<1>1. EntryInv /\ Typed /\ Seen(Here, T0, T1) /\ Shape
  BY DEF ProgramInv, EntryInv
<1>2. PICK a \in Nat : Refill(a)
  BY <1>1, AddrAssumption DEF Miss, Shape
<1>3. /\ at' = <<"refill", 1>> /\ UNCHANGED <<reg, tlb, block, goal, want>>
      /\ at \in UserPlace \union SysPlace
  <2>1. at[1] \in {"user", "sys"}
    BY DEF Miss
  <2>2. at \in UserPlace \union SysPlace
    BY <1>1, <2>1 DEF Typed
  <2> QED
    BY <1>2, <2>2 DEF Refill
<1>4. EntryInv'
  BY <1>1, MissStep
<1>5. csr["TLBREHI"] \in Nat /\ csr = [c \in CsrName |-> csr[c]]
  BY <1>1 DEF EntryInv, Bits, Shape
<1>6. PICK hi \in Nat : csr' = [csr EXCEPT !["TLBREPC"] = at, !["TLBREHI"] = hi]
  <2>1. (a \div 64) * 64 + (csr["TLBREHI"] % 64) \in Nat
    <3>1. a \div 64 \in Nat /\ csr["TLBREHI"] % 64 \in Nat
      BY <1>5, DivMod
    <3> QED
      BY <3>1
  <2>2. {"TLBREPC", "TLBREHI"} \subseteq CsrName
    BY DEF CsrName
  <2> QED
    BY <1>2, <1>5, <2>1, <2>2 DEF Refill
<1>7. /\ csr'["TLBREPC"] = at /\ csr'["TLBREHI"] = hi
      /\ \A c \in CsrName \ {"TLBREPC", "TLBREHI"} : csr'[c] = csr[c]
  <2>1. {"TLBREPC", "TLBREHI"} \subseteq CsrName
    BY DEF CsrName
  <2> QED
    BY <1>5, <1>6, <2>1
<1>8. Typed'
  BY <1>1, <1>3, <1>7 DEF Typed
<1>9. Here' = Here /\ T0' = T0 /\ T1' = T1
  <2>1. at[1] # "refill"
    BY DEF Miss
  <2> QED
    BY <1>3, <1>7, <2>1 DEF Here, T0, T1
<1>10. csr'["KS5"] = csr["KS5"] /\ csr'["EPC"] = csr["EPC"]
  BY <1>7 DEF CsrName
<1>11. Seen(Here, T0, T1)'
  BY <1>1, <1>3, <1>9, <1>10 DEF Seen, InUser, InCall
<1> QED
  BY <1>4, <1>8, <1>11 DEF ProgramInv

\* The program, the host and the losses of the TLB keep ProgramInv.
LEMMA OutsideProgram ==
  ASSUME ProgramInv,
         \/ AccessDone \/ Program
         \/ \E r \in Value : HostAnswers(r)
         \/ \E e \in tlb : Evict(e)
  PROVE  ProgramInv'
<1>1. EntryInv /\ Typed /\ Seen(Here, T0, T1) /\ Shape
  BY DEF ProgramInv, EntryInv
<1>2. EntryInv'
  BY <1>1, OutsideStep
<1>3. /\ reg = [r \in RegName |-> reg[r]] /\ csr = [c \in CsrName |-> csr[c]]
      /\ RegName = {"t0", "t1", "a0", "a7"} /\ {"KS5", "EPC"} \subseteq CsrName
      /\ \A r \in RegName : reg[r] \in Int
      /\ want \in [RegName \union {"pc"} -> Int]
  BY <1>1 DEF Shape, RegName, CsrName, Typed
<1>4. CASE AccessDone \/ \E a \in Addr : ProgramAccesses(a)
  <2>1. UNCHANGED <<at, reg, csr, block, want>>
    BY <1>4 DEF AccessDone, ProgramAccesses
  <2> QED
    BY <1>1, <1>2, <2>1 DEF ProgramInv, Typed, Seen, InUser, InCall, Here, T0, T1
<1>5. CASE \E e \in tlb : Evict(e)
  <2>1. UNCHANGED <<at, reg, csr, block, want>>
    BY <1>5 DEF Evict
  <2> QED
    BY <1>1, <1>2, <2>1 DEF ProgramInv, Typed, Seen, InUser, InCall, Here, T0, T1
<1>6. ASSUME NEW r \in DOMAIN reg, NEW v \in Value, ProgramComputes(r, v)
      PROVE  ProgramInv'
  <2>1. /\ at[1] = "user" /\ at' = <<"user", 0>> /\ UNCHANGED <<csr, block>>
        /\ reg' = [reg EXCEPT ![r] = v]
        /\ want' = [want EXCEPT ![r] = v, !["pc"] = 0]
    BY <1>6 DEF ProgramComputes, Quiet
  <2>2. r \in RegName /\ v \in Int
    BY <1>3, ValueAssumption
  <2>3. Typed'
    <3>1. at' \in UserPlace
      BY <2>1 DEF UserPlace
    <3>2. \A q \in RegName : reg'[q] \in Int
      BY <1>3, <2>1, <2>2
    <3>3. want' \in [RegName \union {"pc"} -> Int]
      BY <1>3, <2>1, <2>2
    <3> QED
      BY <1>1, <2>1, <3>1, <3>2, <3>3 DEF Typed
  <2>4. /\ reg["t1"] = want["t1"] /\ reg["a7"] = want["a7"] /\ reg["a0"] = want["a0"]
        /\ want["t0"] # AnyValue => reg["t0"] = want["t0"]
        /\ csr["KS5"] = SyscallParameter
    BY <1>1, <2>1 DEF Seen, InUser, Here, T0, T1
  <2>5. want'["pc"] = 0 /\ \A q \in RegName : want'[q] = IF q = r THEN v ELSE want[q]
    BY <1>3, <2>1, <2>2
  <2>6. \A q \in RegName : reg'[q] = IF q = r THEN v ELSE reg[q]
    BY <1>3, <2>1, <2>2
  <2>7. Here' = <<"user", 0>> /\ T0' = reg'["t0"] /\ T1' = reg'["t1"]
    BY <2>1 DEF Here, T0, T1
  <2>8. InUser(Here, T0)'
    BY <1>3, <2>4, <2>5, <2>6, <2>7 DEF InUser
  <2>9. csr' = csr /\ T1' = want'["t1"] /\ reg'["a7"] = want'["a7"]
    BY <1>3, <2>1, <2>4, <2>5, <2>6, <2>7
  <2>10. Seen(Here, T0, T1)'
    BY <2>4, <2>7, <2>8, <2>9 DEF Seen
  <2> QED
    BY <1>2, <2>3, <2>10 DEF ProgramInv
<1>7. CASE ProgramCalls
  <2>1. /\ at[1] = "user" /\ at[2] = 0 /\ at' = <<"sys", 1>>
        /\ csr' = [csr EXCEPT !["EPC"] = 0] /\ UNCHANGED <<reg, block, want>>
    BY <1>7 DEF ProgramCalls, Quiet
  <2>2. /\ reg["t1"] = want["t1"] /\ reg["a7"] = want["a7"] /\ reg["a0"] = want["a0"]
        /\ csr["KS5"] = SyscallParameter
    BY <1>1, <2>1 DEF Seen, InUser, Here, T0, T1
  <2>3. csr'["EPC"] = 0 /\ \A c \in CsrName \ {"EPC"} : csr'[c] = csr[c]
    BY <1>3, <2>1
  <2>4. csr'["KS5"] = csr["KS5"] /\ csr'["TLBREPC"] = csr["TLBREPC"]
    BY <2>3 DEF CsrName
  <2>5. Typed'
    <3>1. at' \in SysPlace
      BY <2>1 DEF SysPlace
    <3> QED
      BY <1>1, <2>1, <2>3, <2>4, <3>1 DEF Typed
  <2>6. Here' = <<"sys", 1>> /\ T0' = reg["t0"] /\ T1' = reg["t1"]
    BY <2>1 DEF Here, T0, T1
  <2>7. Seen(Here, T0, T1)'
    BY <2>1, <2>2, <2>3, <2>4, <2>6 DEF Seen, InCall
  <2> QED
    BY <1>2, <2>5, <2>7 DEF ProgramInv
<1>8. ASSUME NEW r \in Value, HostAnswers(r)
      PROVE  ProgramInv'
  <2>1. /\ at = <<"host", 5>> /\ at' = <<"sys", 6>> /\ csr' = csr
        /\ block' = [block EXCEPT !["a0"] = r] /\ reg' = [reg EXCEPT !["a0"] = 0]
        /\ want' = [want EXCEPT !["a0"] = r, !["t0"] = AnyValue, !["pc"] = 4]
    <3>1. at[1] = "host"
      BY <1>8 DEF HostAnswers
    <3>2. at = <<"host", 5>>
      BY <1>1, <3>1 DEF Typed, UserPlace, SysPlace
    <3> QED
      BY <1>8, <3>2 DEF HostAnswers
  <2>2. /\ reg["t1"] = want["t1"] /\ reg["a7"] = want["a7"]
        /\ reg["t0"] = SyscallParameter /\ csr["EPC"] = 0
        /\ csr["KS5"] = SyscallParameter
    BY <1>1, <2>1 DEF Seen, InCall, Here, T0, T1
  <2>3. /\ reg'["a0"] = 0 /\ \A q \in {"t0", "t1", "a7"} : reg'[q] = reg[q]
        /\ want'["a0"] = r /\ want'["t0"] = AnyValue /\ want'["pc"] = 4
        /\ \A q \in {"t1", "a7"} : want'[q] = want[q]
        /\ block'["a0"] = r
    <3>1. block \in [{"a0", "a7"} -> Int]
      BY <1>1 DEF Typed
    <3> QED
      BY <1>3, <2>1, <3>1
  <2>4. Typed'
    <3>1. at' \in SysPlace /\ csr' = csr
      BY <2>1 DEF SysPlace
    <3>2. \A q \in RegName : reg'[q] \in Int
      BY <1>3, <2>1
    <3>3. block' \in [{"a0", "a7"} -> Int]
      BY <1>1, <2>1, ValueAssumption DEF Typed
    <3>4. want' \in [RegName \union {"pc"} -> Int]
      BY <1>3, <2>1, ValueAssumption DEF AnyValue
    <3> QED
      BY <1>1, <3>1, <3>2, <3>3, <3>4 DEF Typed
  <2>5. Here' = <<"sys", 6>> /\ T0' = reg'["t0"] /\ T1' = reg'["t1"]
    BY <2>1 DEF Here, T0, T1
  <2>6. Seen(Here, T0, T1)'
    BY <2>1, <2>2, <2>3, <2>5 DEF Seen, InCall
  <2> QED
    BY <1>2, <2>4, <2>6 DEF ProgramInv
<1> QED
  BY <1>4, <1>5, <1>6, <1>7, <1>8 DEF Program

\* Every step keeps ProgramInv.
LEMMA NextProgram == ProgramInv /\ [Next]_vars => ProgramInv'
<1> SUFFICES ASSUME ProgramInv, [Next]_vars PROVE ProgramInv'
  OBVIOUS
<1>1. CASE Instruction
  <2>1. at[1] \in {"sys", "refill"}
    BY <1>1, Decode
  <2> QED
    BY <1>1, <2>1, SyscallProgram, RefillProgram
<1>2. CASE Miss
  BY <1>2, MissProgram
<1>3. CASE \/ AccessDone \/ Program
           \/ \E r \in Value : HostAnswers(r)
           \/ \E e \in tlb : Evict(e)
  BY <1>3, OutsideProgram
<1>4. CASE UNCHANGED vars
  <2>1. EntryInv'
    BY <1>4, NextEntry DEF ProgramInv
  <2> QED
    BY <1>4, <2>1 DEF vars, ProgramInv, Typed, Seen, InUser, InCall, Here, T0, T1
<1> QED
  BY <1>1, <1>2, <1>3, <1>4 DEF Next

\* Every reachable state satisfies ProgramInv.
LEMMA ProgramCorrect == Spec => []ProgramInv
BY InitProgram, NextProgram, PTL DEF Spec

\* Where the vcpu is and what its registers hold is always defined, at every
\* instruction of the two handlers of entry.S:12-67.
THEOREM TypeCorrect == Spec => []TypeOK
<1>1. ProgramInv => TypeOK
  <2> SUFFICES ASSUME ProgramInv PROVE TypeOK
    OBVIOUS
  <2>1. Typed /\ Shape
    BY DEF ProgramInv, EntryInv
  <2>2. Len(syscall_entry) = 10 /\ Len(tlb_refill_entry) = 18
    BY DEF syscall_entry, SyscallCode, tlb_refill_entry, RefillCode
  <2>3. DOMAIN reg = RegName /\ DOMAIN csr = CsrName
    BY <2>1 DEF Shape
  <2>4. csr["TLBREPC"][1] \in {"user", "sys"}
    BY <2>1 DEF Typed, UserPlace, SysPlace
  <2> QED
    BY <2>1, <2>2, <2>3, <2>4 DEF TypeOK, Typed, Shape, UserPlace, SysPlace, RegName
<1> QED
  BY <1>1, ProgramCorrect, PTL

\* The program finds its registers and its pc as it left them, whatever misses
\* its accesses, its calls and the system call handler had (entry.S:12-67), and
\* after a call the host's answer, for every program and every place of the
\* handler.
THEOREM NothingNoticed == Spec => []ProgramUndisturbed
<1>1. ProgramInv => ProgramUndisturbed
  <2> SUFFICES ASSUME ProgramInv, at[1] = "user"
               PROVE  /\ \A r \in DOMAIN reg : want[r] # AnyValue => reg[r] = want[r]
                      /\ at[2] = want.pc
    BY DEF ProgramUndisturbed
  <2>1. Seen(at, reg["t0"], reg["t1"])
    BY DEF ProgramInv, Here, T0, T1
  <2>2. DOMAIN reg = {"t0", "t1", "a0", "a7"}
    BY DEF ProgramInv, EntryInv, Shape, RegName
  <2> QED
    BY <2>1, <2>2 DEF Seen, InUser
<1> QED
  BY <1>1, ProgramCorrect, PTL

\* When the system call handler leaves the guest, the block holds the program's
\* arguments (entry.S:44-60), also when refills came between the stores.
THEOREM ArgsAreDelivered == Spec => []ArgsDelivered
<1>1. ProgramInv => ArgsDelivered
  <2> SUFFICES ASSUME ProgramInv, at[1] = "host"
               PROVE  block["a0"] = want.a0 /\ block["a7"] = want.a7
    BY DEF ArgsDelivered
  <2>1. at[2] = 5
    BY DEF ProgramInv, EntryInv, Shape, Place
  <2>2. Seen(at, reg["t0"], reg["t1"])
    BY DEF ProgramInv, Here, T0, T1
  <2> QED
    BY <2>1, <2>2 DEF Seen, InCall
<1> QED
  BY <1>1, ProgramCorrect, PTL
=============================================================================

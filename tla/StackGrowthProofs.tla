------------------------- MODULE StackGrowthProofs -------------------------
(***************************************************************************)
(* Theorems about StackGrowth: for every page size, address space, limit   *)
(* and place of the stack, what expand_stack maps is what the guest needs, *)
(* what it zeroes was not the program's, and when it can fail.             *)
(***************************************************************************)
EXTENDS StackGrowth, TLAPS

\* Quotient and remainder of an address.
LEMMA DivMod ==
  ASSUME NEW d \in Nat \ {0}, NEW n \in Int
  PROVE  /\ n \div d \in Int /\ n % d \in Int /\ n % d >= 0
         /\ n = (n \div d) * d + (n % d)
  OBVIOUS

\* The distance of two multiples is a multiple.
LEMMA Difference ==
  ASSUME NEW d \in Nat \ {0}, NEW m \in Nat, NEW n \in Nat,
         m % d = 0, n % d = 0, n <= m
  PROVE  (m - n) % d = 0
<1> DEFINE a == m \div d
           b == n \div d
<1>1. a \in Int /\ b \in Int /\ m = a * d /\ n = b * d
  <2>1. a \in Int /\ m = a * d + (m % d)
    BY DivMod
  <2>2. b \in Int /\ n = b * d + (n % d)
    BY DivMod
  <2>3. a * d \in Int /\ b * d \in Int
    BY <2>1, <2>2
  <2> HIDE DEF a, b
  <2> QED
    BY <2>1, <2>2, <2>3
<1> HIDE DEF a, b
<1>2. m - n = (a - b) * d /\ a - b \in Int
  BY <1>1
<1>3. \A q \in Int : (q * d) % d = 0
  OBVIOUS
<1> QED
  BY <1>2, <1>3

\* A page begins at or below its words, and at the first of them.
LEMMA PageFacts ==
  ASSUME NEW a \in Int
  PROVE  /\ Page(a) \in Int /\ Page(a) <= a
         /\ a % PageSize = 0 => Page(a) = a
<1>1. PageSize \in Nat \ {0}
  BY SpaceAssumption
<1>2. PICK q \in Int, r \in Int, m \in Int :
        q = a \div PageSize /\ r = a % PageSize /\ r >= 0 /\ m = q * PageSize /\ a = m + r
  BY <1>1, DivMod
<1> QED
  BY <1>2 DEF Page

\* top - limit, with or without a wrap.
LEMMA LowestFacts ==
  ASSUME top = Top, limit \in Word
  PROVE  /\ Lowest \in Word
         /\ limit <= Top => Lowest = Top - limit
         /\ limit > Top => Lowest > Top
<1>1. Space \in Nat /\ Top \in Nat /\ limit \in Nat /\ Top < Space
      /\ limit < Space
  BY SpaceAssumption DEF Word
<1>2. CASE limit <= Top
  <2>1. (Top - limit + Space) % Space = Top - limit
    BY <1>1, <1>2
  <2> QED
    BY <1>1, <1>2, <2>1 DEF Lowest, Word
<1>3. CASE limit > Top
  <2>1. (Top - limit + Space) % Space = Top - limit + Space
    BY <1>1, <1>3
  <2> QED
    BY <1>1, <1>3, <2>1 DEF Lowest, Word
<1> QED
  BY <1>1, <1>2, <1>3

-----------------------------------------------------------------------------
\* Until expand_stack nothing is zeroed, dune_enter's frames are above the
\* mapping's start, and its locals are what they are named for; behind it the
\* mapping reaches down to the limit, and the word zeroed is the last of it.
EntryInv ==
  /\ where \notin {"guest", "fault"} => zeroed = {}
  /\ where \in {"rlimit", "maps", "touch"} => sp > low
  /\ where \in {"maps", "touch"} => limit = rlimit
  /\ where = "touch" => top = Top
  /\ where \in {"guest", "fault"} => /\ low <= Top - limit
                                    /\ \A a \in zeroed : a >= sp => limit < Top - low

StackInv == TypeOK /\ EntryInv /\ StackServed /\ EnterSucceeds

LEMMA Numbers ==
  /\ Space \in Nat /\ PageSize \in Nat \ {0} /\ Top \in Nat /\ Top < Space
  /\ Floor \in Nat /\ Floor <= Top - PageSize /\ Frames \in Nat \ {0}
  /\ Word = 0 .. Space - 1 /\ Limits \subseteq Word
  BY SpaceAssumption, LimitsAssumption DEF Word

LEMMA InitInv == Init => StackInv
<1> SUFFICES ASSUME Init PROVE StackInv
  OBVIOUS
<1> QED
  BY Numbers DEF Init, StackInv, TypeOK, EntryInv, StackServed, EnterSucceeds

\* The types at work in every step.
LEMMA Typed ==
  ASSUME TypeOK
  PROVE  /\ low \in Nat /\ low >= Floor /\ low < Top
         /\ sp \in Nat /\ low <= sp /\ sp <= Top
         /\ rlimit \in Word /\ limit \in Word /\ limit \in Nat
  BY Numbers DEF TypeOK

LEMMA StepInv == StackInv /\ [Next]_vars => StackInv'
<1> SUFFICES ASSUME TypeOK, EntryInv, StackServed, EnterSucceeds, [Next]_vars
             PROVE  StackInv'
  BY DEF StackInv
<1> USE Numbers, Typed DEF StackInv
<1>0. CASE UNCHANGED vars
  BY <1>0 DEF vars, TypeOK, EntryInv, StackServed, EnterSucceeds, Allowed, Page
<1>1. CASE Push
  BY <1>1 DEF Push, Mapped, TypeOK, EntryInv, StackServed, EnterSucceeds
<1>2. CASE PushGrows
  <2>0. sp - 1 \in Int
    OBVIOUS
  <2>1. Page(sp - 1) \in Int /\ Page(sp - 1) <= sp - 1
    BY ONLY <2>0, PageFacts
  <2> QED
    BY <1>2, <2>1 DEF PushGrows, Grows, Allowed, TypeOK, EntryInv, StackServed, EnterSucceeds
<1>3. CASE Overflow
  BY <1>3 DEF Overflow, TypeOK, EntryInv, StackServed, EnterSucceeds
<1>4. CASE Pop
  BY <1>4 DEF Pop, TypeOK, EntryInv, StackServed, EnterSucceeds
<1>5. CASE dune_enter
  BY <1>5 DEF dune_enter, Mapped, TypeOK, EntryInv, StackServed, EnterSucceeds
<1>6. CASE expand_stack_getrlimit
  BY <1>6 DEF expand_stack_getrlimit, TypeOK, EntryInv, StackServed, EnterSucceeds
<1>7. CASE expand_stack_get_stack_top
  BY <1>7 DEF expand_stack_get_stack_top, TypeOK, EntryInv, StackServed, EnterSucceeds
<1>8. CASE expand_stack
  <2>1. top = Top /\ limit = rlimit /\ sp > low /\ zeroed = {}
    BY <1>8 DEF expand_stack, EntryInv
  <2>2. Lowest \in Word /\ (limit <= Top => Lowest = Top - limit)
        /\ (limit > Top => Lowest > Top)
    BY <2>1, LowestFacts
  <2>3. limit <= Top /\ Lowest = Top - limit
    BY <1>8, <2>2 DEF expand_stack, Mapped, Grows
  <2>6. Lowest \in Int
    BY <2>2
  <2>4. Page(Lowest) \in Int /\ Page(Lowest) <= Lowest
    BY ONLY <2>6, PageFacts
  <2>5. low' \in Int /\ low' <= low /\ low' <= Lowest /\ low' >= Floor
        /\ (Lowest >= sp => low' = low)
    BY <1>8, <2>1, <2>2, <2>4 DEF expand_stack, Mapped, Grows, Allowed
  <2> QED
    BY <1>8, <2>1, <2>2, <2>3, <2>5
       DEF expand_stack, TypeOK, EntryInv, StackServed, EnterSucceeds
<1>9. CASE ExpandFaults
  <2>1. top = Top /\ limit = rlimit
    BY <1>9 DEF ExpandFaults, EntryInv
  <2>2. ASSUME limit # 0, limit % PageSize = 0, limit <= Top - Floor PROVE FALSE
    <3>1. Lowest = Top - limit /\ Lowest >= Floor
      BY <2>1, <2>2, LowestFacts
    <3>2. Lowest % PageSize = 0
      <4>1. limit \in Nat /\ limit <= Top /\ Top % PageSize = 0
        BY <2>2, SpaceAssumption
      <4> QED
        BY <2>2, <3>1, <4>1, Difference
    <3>3. Page(Lowest) = Lowest
      BY <3>1, <3>2, PageFacts
    <3> QED
      BY <1>9, <2>1, <2>2, <3>1, <3>3 DEF ExpandFaults, Mapped, Grows, Allowed
  <2> QED
    BY <1>9, <2>2 DEF ExpandFaults, TypeOK, EntryInv, StackServed, EnterSucceeds
<1>10. CASE GuestPush
  BY <1>10 DEF GuestPush, Mapped, TypeOK, EntryInv, StackServed, EnterSucceeds
<1>11. CASE GuestFault
  <2>1. sp - 1 < Top - limit
    BY <1>11 DEF GuestFault, Mapped, EntryInv
  <2>0. sp - 1 \in Int
    OBVIOUS
  <2>2. Page(sp - 1) \in Int /\ Page(sp - 1) <= sp - 1
    BY ONLY <2>0, PageFacts
  <2>3. ~Allowed(sp - 1, limit)
    BY <2>1, <2>2 DEF Allowed
  <2> QED
    BY <1>11, <2>3 DEF GuestFault, TypeOK, EntryInv, StackServed, EnterSucceeds, Allowed, Page
<1>12. ASSUME NEW r \in Limits, Setrlimit(r) PROVE StackInv'
  BY <1>12 DEF Setrlimit, TypeOK, EntryInv, StackServed, EnterSucceeds
<1> QED
  BY <1>0, <1>1, <1>2, <1>3, <1>4, <1>5, <1>6, <1>7, <1>8, <1>9, <1>10, <1>11, <1>12
     DEF Next

LEMMA InvAlways == Spec => []StackInv
<1> QED
  BY InitInv, StepInv, PTL DEF Spec

-----------------------------------------------------------------------------
\* The stack's mapping, the program's part of it, the limit and expand_stack's
\* locals have their types.
THEOREM TypeCorrect == Spec => []TypeOK
<1>1. StackInv => TypeOK
  BY DEF StackInv
<1> QED
  BY <1>1, InvAlways, PTL

\* The guest runs out of stack only where the limit it entered with ends
\* (expand_stack, dune.c:310).
THEOREM GuestStackServed == Spec => []StackServed
<1>1. StackInv => StackServed
  BY DEF StackInv
<1> QED
  BY <1>1, InvAlways, PTL

\* expand_stack zeroes no word of the program, if the limit is not below what
\* the stack has (dune.c:315).
THEOREM ProgramStackKept == Spec => []StackKept
<1>1. StackInv => StackKept
  <2> SUFFICES ASSUME StackInv, NEW a \in sp .. Top - 1, a \in zeroed
               PROVE  limit < Top - low
    BY DEF StackKept
  <2> QED
    BY Numbers, Typed DEF StackInv, EntryInv
<1> QED
  BY <1>1, InvAlways, PTL

\* dune_enter succeeds under every limit but 0 that is a whole number of pages
\* there is room for (dune.c:315).
THEOREM DuneEnterSucceeds == Spec => []EnterSucceeds
<1>1. StackInv => EnterSucceeds
  BY DEF StackInv
<1> QED
  BY <1>1, InvAlways, PTL
=============================================================================

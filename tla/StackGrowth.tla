---------------------------- MODULE StackGrowth ----------------------------
(***************************************************************************)
(* The main thread's stack (expand_stack of src/dune/dune.c).  Natively    *)
(* the kernel grows it when the program touches the page below, down to    *)
(* RLIMIT_STACK.  In the guest nobody does: KVM fails for an address       *)
(* without a mapping.  So dune_enter touches the lowest word the limit     *)
(* allows, and the kernel maps the whole stack at once.                    *)
(*                                                                         *)
(* Addresses and limits count words, of which the C code writes one.       *)
(***************************************************************************)
EXTENDS Integers

CONSTANTS
  Space,         \* number of addresses: u64 arithmetic is modulo Space
  PageSize,      \* in words
  Top,           \* end of the stack's mapping
  Floor,         \* end of the next mapping below
  Frames,        \* stack that dune_enter itself needs down to expand_stack
  Limits         \* the values of RLIMIT_STACK

RLIM_INFINITY == Space - 1
Word          == 0 .. Space - 1
Page(a)       == (a \div PageSize) * PageSize

ASSUME SpaceAssumption ==
  /\ Space \in Nat /\ PageSize \in Nat \ {0} /\ Top \in Word /\ Floor \in 0 .. Top - PageSize
  /\ Top % PageSize = 0 /\ Floor % PageSize = 0 /\ Frames \in Nat \ {0}
ASSUME LimitsAssumption == Limits \subseteq Word

VARIABLES
  where,   \* "program" (native), "rlimit", "maps", "touch" (in expand_stack),
           \* "guest", "overflow" (killed, as natively), "fault" (in the guest),
           \* "segv" (in expand_stack)
  rlimit,  \* RLIMIT_STACK
  low,     \* start of the stack's mapping
  sp,      \* the program's stack: its words are sp .. Top - 1
  limit,   \* expand_stack's locals
  top,
  zeroed   \* the words it wrote

vars == <<where, rlimit, low, sp, limit, top, zeroed>>

Init ==
  /\ where = "program" /\ rlimit \in Limits
  /\ low = Top - PageSize /\ sp = Top
  /\ limit = 0 /\ top = 0 /\ zeroed = {}

-----------------------------------------------------------------------------
Mapped(a) == a \in low .. Top - 1

\* acct_stack_growth: the stack may grow to the page of a, if the limit and
\* the mappings below allow.
Allowed(a, r) == Top - Page(a) <= r /\ Page(a) >= Floor
Grows(a)      == a < low /\ Allowed(a, rlimit)

\* Raised, or lowered, even below what the stack has.
Setrlimit(r) ==
  /\ where \in {"program", "guest"}
  /\ rlimit' = r
  /\ UNCHANGED <<where, low, sp, limit, top, zeroed>>

\* A word is pushed.
Push ==
  /\ where = "program" /\ Mapped(sp - 1)
  /\ sp' = sp - 1
  /\ zeroed' = zeroed \ {sp - 1}
  /\ UNCHANGED <<where, rlimit, low, limit, top>>

PushGrows ==
  /\ where = "program" /\ Grows(sp - 1)
  /\ sp' = sp - 1 /\ low' = Page(sp - 1)
  /\ UNCHANGED <<where, rlimit, limit, top, zeroed>>

Overflow ==
  /\ where = "program" /\ ~Mapped(sp - 1) /\ ~Grows(sp - 1)
  /\ where' = "overflow"
  /\ UNCHANGED <<rlimit, low, sp, limit, top, zeroed>>

Pop ==
  /\ where \in {"program", "guest"} /\ sp < Top
  /\ sp' = sp + 1
  /\ UNCHANGED <<where, rlimit, low, limit, top, zeroed>>

-----------------------------------------------------------------------------
\* dune_enter is called where its own frames fit.
dune_enter ==
  /\ where = "program" /\ Mapped(sp - Frames)
  /\ where' = "rlimit"
  /\ UNCHANGED <<rlimit, low, sp, limit, top, zeroed>>

expand_stack_getrlimit ==
  /\ where = "rlimit" /\ where' = "maps"
  /\ limit' = rlimit
  /\ UNCHANGED <<rlimit, low, sp, top, zeroed>>

\* The line of /proc/self/maps that ends in [stack].
expand_stack_get_stack_top ==
  /\ where = "maps" /\ where' = "touch"
  /\ top' = Top
  /\ UNCHANGED <<rlimit, low, sp, limit, zeroed>>

\* *(int *)(top - limit) = 0: with the limit 0 the word behind the stack's last.
\* (variants) One page short of the limit; one page
\* below the top; the word below.
LowestShort == (top - limit + PageSize + Space) % Space
HighestPage == (top - PageSize + Space) % Space
LowestBelow == (top - limit - 1 + Space) % Space
Lowest == (top - limit + Space) % Space

expand_stack ==
  /\ where = "touch" /\ (Mapped(Lowest) \/ Grows(Lowest))
  /\ where' = "guest"
  /\ low' = IF Mapped(Lowest) THEN low ELSE Page(Lowest)
  /\ zeroed' = zeroed \union {Lowest}
  /\ UNCHANGED <<rlimit, sp, limit, top>>

\* No mapping there, and none to grow: SIGSEGV.
ExpandFaults ==
  /\ where = "touch" /\ ~Mapped(Lowest) /\ ~Grows(Lowest)
  /\ where' = "segv"
  /\ UNCHANGED <<rlimit, low, sp, limit, top, zeroed>>

-----------------------------------------------------------------------------
(* In the guest.                                                           *)

GuestPush ==
  /\ where = "guest" /\ Mapped(sp - 1)
  /\ sp' = sp - 1
  /\ zeroed' = zeroed \ {sp - 1}
  /\ UNCHANGED <<where, rlimit, low, limit, top>>

\* "Failed to find VMA for hva": KVM_RUN fails, host_loop dies.
GuestFault ==
  /\ where = "guest" /\ ~Mapped(sp - 1)
  /\ where' = "fault"
  /\ UNCHANGED <<rlimit, low, sp, limit, top, zeroed>>

Next ==
  \/ Push \/ PushGrows \/ Overflow \/ Pop
  \/ dune_enter \/ expand_stack_getrlimit \/ expand_stack_get_stack_top
  \/ expand_stack \/ ExpandFaults
  \/ GuestPush \/ GuestFault
  \/ \E r \in Limits : Setrlimit(r)

Spec == Init /\ [][Next]_vars

-----------------------------------------------------------------------------
(* Properties.                                                             *)

TypeOK ==
  /\ where \in {"program", "rlimit", "maps", "touch", "guest", "overflow", "fault", "segv"}
  /\ rlimit \in Limits /\ low \in Floor .. Top - 1 /\ sp \in low .. Top
  /\ limit \in Word /\ top \in Word /\ zeroed \subseteq Word

\* The guest runs out of stack only where the kernel would have refused to
\* grow it under the limit it entered with: expand_stack has mapped it all.
StackServed == where = "fault" => ~Allowed(sp - 1, limit)

\* The word that expand_stack zeroes is none of the program's, unless the limit
\* had been lowered below the size the stack already had.
StackKept == (\E a \in sp .. Top - 1 : a \in zeroed) => limit < Top - low

\* "Process can enter dune [...] whenever it wants to" (Readme.md:17): it can
\* unless the limit is 0 (the stack it has may be in use, but dune.c:315 touches
\* the word behind it), no whole number of pages, or more than there is room for.
EnterSucceeds ==
  where = "segv" => limit = 0 \/ limit % PageSize # 0 \/ limit > Top - Floor
=============================================================================

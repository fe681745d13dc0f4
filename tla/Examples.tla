------------------------------ MODULE Examples ------------------------------
(***************************************************************************)
(* The example programs that make threads (src/example/pthread.c and       *)
(* clone.c) as guests of DuneVm: which calls each of their threads makes,  *)
(* in which order, and which of them waits for another thread.             *)
(*                                                                         *)
(* "any" is any program instead, with DuneVm's guest.                      *)
(*                                                                         *)
(* A printf, a sleep and an mmap are one call "sys".  pthread_join and     *)
(* waitpid are calls that the host answers only when the thread has ended. *)
(* A clone of theirs may fail: Dune answers that with a positive number, so *)
(* they go on as if they had the thread (pthread.c:22 and clone.c:59 test   *)
(* for errors they never see).  Their other calls succeed, and they do not  *)
(* fault.                                                                   *)
(***************************************************************************)
EXTENDS DuneVmRefinement, Sequences

CONSTANT thread_cnt  \* the threads that pthread.c creates

ASSUME CountAssumption == thread_cnt \in Nat

VARIABLES
  example,  \* the program that runs
  name,     \* name[t]: which of its threads task t was made for, 0 for main
  made,     \* made[i]: how many calls thread i has made
  over,     \* the threads the kernel has ended
  failed    \* the threads whose clone failed

progVars == <<example, name, made, over, failed>>

-----------------------------------------------------------------------------
(* The programs.                                                           *)

\* A call, and the thread it waits for.
Plain(nr) == [nr |-> nr, for |-> 0]
Await(i)  == [nr |-> "sys", for |-> i]

safe_pthread_create(i) == Plain("clone_thread")
safe_pthread_join(i)   == Await(i)

\* How many threads the program creates.
Count(p) == IF p = "pthread" THEN thread_cnt ELSE 1

spawn_threads == [i \in 1 .. thread_cnt |-> safe_pthread_create(i)]
wait_threads  == [i \in 1 .. thread_cnt |-> safe_pthread_join(i)]

\* With the end of main.
test01 == spawn_threads \o wait_threads \o <<Plain("exit_group")>>

\* It sleeps, prints and returns.
thread_fn_01 == <<Plain("sys"), Plain("sys"), Plain("exit")>>

\* Stacks and messages, a clone with CLONE_VM alone, and the wait for it.
guest_clone ==
  <<Plain("sys"), Plain("clone_process"), Plain("sys"), Await(1), Plain("exit_group")>>

\* It prints; the C library's clone makes the call exit when it returns.
childFunc == <<Plain("sys"), Plain("exit")>>

Text(i) == IF example = "pthread"
             THEN (IF i = 0 THEN test01 ELSE thread_fn_01)
             ELSE (IF i = 0 THEN guest_clone ELSE childFunc)

-----------------------------------------------------------------------------
ExampleInit ==
  /\ Init
  /\ example \in {"any", "pthread", "clone"}
  /\ name = [t \in Thread |-> 0]
  /\ made = [i \in 0 .. Count(example) |-> 0]
  /\ over = {} /\ failed = {}

\* The thread in task t's vcpu makes the next call of its text.
ProgramCalls(t) ==
  LET i == name[who[vcpu[t]]] IN
  /\ example # "any" /\ pc[t] = "guest" /\ who[vcpu[t]] \in Thread
  /\ made[i] < Len(Text(i))
  /\ GuestSyscall(t, Text(i)[made[i] + 1].nr)
  /\ made' = [made EXCEPT ![i] = @ + 1]
  /\ UNCHANGED <<example, name, over, failed>>

\* The thread that the call of task t waits for.
AwaitedBy(t) == LET i == name[req[t].by] IN Text(i)[made[i]].for

Joins(t) == example # "any" /\ pc[t] = "syscall" /\ req[t].nr = "sys" /\ AwaitedBy(t) # 0

\* The host's call waits for a thread.
Waits(t) == Joins(t) /\ AwaitedBy(t) \notin over \union failed

\* waitpid fails when there is no child.  Whether pthread_join comes back when
\* there never was a thread is up to the C library: it may wait for ever.
JoinsNone(t) == example = "pthread" /\ Joins(t) /\ AwaitedBy(t) \in failed

\* The thread that main has asked for last.
Newest == Cardinality({n \in 1 .. made[0] : Text(0)[n].nr \in Clones})

\* What Dune does meanwhile: threads are born and end with their tasks.
DuneSteps(t) ==
  LET born == {u \in Thread \ Live : pc'[u] # "none"} IN
  /\ ~Waits(t)
  /\ \/ HostStep(t) \/ FreeLock(t) \/ AllocLock(t) \/ SetUpFails(t)
     \/ GuestReturn(t) \/ GuestInterrupted(t)
  /\ over' = over \union {name[u] : u \in {w \in Live : pc'[w] = "none"}}
  /\ name' = [u \in Thread |-> IF u \in born THEN Newest ELSE name[u]]
  /\ failed' = IF pc[t] = "clone" /\ pc'[t] = "store_clone" /\ born = {}
                 THEN failed \union {Newest} ELSE failed
  /\ UNCHANGED <<example, made>>

ExampleNext ==
  \/ example = "any" /\ Next /\ UNCHANGED progVars
  \/ example # "any" /\ \E t \in Thread : ProgramCalls(t) \/ DuneSteps(t)
  \/ example # "any" /\ Finished /\ UNCHANGED progVars

\* DuneVm's fairness, but for calls that may wait; and a program comes to its next
\* call, however often signals interrupt it.
ExampleSpec ==
  /\ ExampleInit /\ [][ExampleNext]_<<vars, progVars>>
  /\ \A t \in Thread :
       /\ WF_vars(~Waits(t) /\ ~JoinsNone(t) /\ HostStep(t))
       /\ SF_vars(FreeLock(t) \/ AllocLock(t))
       /\ SF_vars(GuestReturn(t) \/ ProgramCalls(t))

-----------------------------------------------------------------------------
(* Properties.                                                             *)

\* While main runs a thread has ended only by its own exit, behind all its
\* calls, and main is past a wait only when the thread it waited for has ended
\* so, or was never made: nothing is joined too early, nothing answered without
\* having been done.
JoinedWhenDone ==
  example # "any" =>
    /\ 0 \notin over => \A i \in over : made[i] = Len(Text(i))
    /\ \A n \in 1 .. made[0] - 1 :
         LET i == Text(0)[n].for
         IN  i \notin failed \union {0} => i \in over /\ made[i] = Len(Text(i))

\* Every call a guest makes is performed, or ends the thread; but for the join
\* of a thread that was never made.
CallsPerformed ==
  \A t \in Thread : stBar[t] = "called" ~> stBar[t] # "called" \/ JoinsNone(t)

\* "all child returned": the examples come to their end, and leave no task,
\* whatever fails in Dune; but for a pthread.c that joins a thread whose clone
\* failed behind the answer of a pid (arch.c:540).
ExamplesEnd ==
  <>(example = "any" \/ Live = {} \/ (example = "pthread" /\ failed # {}))
=============================================================================

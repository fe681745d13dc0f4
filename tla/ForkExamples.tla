---------------------------- MODULE ForkExamples ----------------------------
(***************************************************************************)
(* The example programs that make processes (src/example/fork.c and        *)
(* clone2.c) as guests of ForkTree.  fork.c sends a signal to each child   *)
(* as soon as it has it: it meets the child anywhere on its way into a VM  *)
(* of its own, and in the guest.                                           *)
(*                                                                         *)
(* "any" is any program instead, with ForkTree's guest.                    *)
(***************************************************************************)
EXTENDS ForkTree, Sequences

CONSTANT num  \* how many children guest_fork forks

ASSUME NumAssumption == num \in Nat

VARIABLES
  example, \* the program that runs
  made,    \* made[t]: how many calls task t has made
  alarm    \* the tasks that have a SIGALRM pending

progVars == <<example, made, alarm>>

-----------------------------------------------------------------------------
(* The programs, as the calls they make.                                   *)

\* One turn of the loop in the parent: fork, the printf, kill.
Turn == <<"fork_old", "write", "kill">>

guest_fork[n \in Nat] == IF n = 0 THEN <<>> ELSE Turn \o guest_fork[n - 1]

k_sigaction == <<"sigaction">>
main_fork   == k_sigaction \o guest_fork[num] \o <<"exit_group">>

\* With SIGCHLD and a stack: a fork.
ltp_clone   == <<"fork_new">>
main_clone2 == ltp_clone \o <<"write", "exit_group">>

\* What a child does in either: printf and exit.
do_child == <<"write", "exit_group">>

Text(t) == CASE t # Root        -> do_child
             [] example = "fork" -> main_fork
             [] OTHER            -> main_clone2

-----------------------------------------------------------------------------
ExampleInit ==
  /\ Init
  /\ example \in {"any", "fork", "clone2"}
  /\ made = [t \in Task |-> 0]
  /\ alarm = {}

\* The child that was born last: what fork has returned.
LastChild(u) == pc[u] # "unborn" /\ \A w \in Task : w > u => pc[w] = "unborn"

kill(t) == \E u \in Task : LastChild(u) /\ alarm' = alarm \union ({u} \intersect Live)

ProgramCalls(t) ==
  /\ pc[t] = "guest" /\ made[t] < Len(Text(t))
  /\ made' = [made EXCEPT ![t] = @ + 1]
  /\ LET nr == Text(t)[made[t] + 1] IN
       \/ nr \in ForkKinds /\ Call(t, nr) /\ UNCHANGED alarm
       \/ nr = "exit_group" /\ ExitGroup(t) /\ alarm' = alarm \ {t}
       \/ nr = "kill" /\ kill(t) /\ UNCHANGED vars
       \/ nr \in {"sigaction", "write"} /\ UNCHANGED <<vars, alarm>>
  /\ UNCHANGED example

\* set_create_procs runs, in the host or between two KVM_RUNs.
set_create_procs(t) ==
  /\ t \in alarm
  /\ alarm' = alarm \ {t}
  /\ UNCHANGED <<vars, example, made>>

\* Dune at work; it takes a signal for KVM_CREATE_VM to be interrupted.
DuneSteps(t) ==
  /\ SetUpStep(t) \/ CloneStep(t)
  /\ pc'[t] = "eintr" => t \in alarm
  /\ alarm' = IF pc'[t] \in {"eintr", "dead"} THEN alarm \ {t} ELSE alarm
  /\ UNCHANGED <<example, made>>

ExampleNext ==
  \/ example = "any" /\ Next /\ UNCHANGED progVars
  \/ /\ example # "any"
     /\ \E t \in Task : ProgramCalls(t) \/ set_create_procs(t) \/ DuneSteps(t)

\* ForkTree's fairness, and programs that come to their next call.
ExampleSpec ==
  /\ ExampleInit /\ [][ExampleNext]_<<vars, progVars>>
  /\ Fairness
  /\ \A t \in Task : WF_<<vars, progVars>>(example # "any" /\ ProgramCalls(t))

-----------------------------------------------------------------------------
(* Properties.                                                             *)

\* fork.c and clone2.c come to their end, with every child they are to fork,
\* all calls made: neither the signal that meets a child on its way into the
\* guest ("if the parent happens to send a signal, KVM_CREATE_VM fails",
\* dune.c:207-209, in Chinese) nor what it inherited ends a process before.
Children == IF example = "fork" THEN num ELSE 1
ProcessesEnd ==
  <>(\/ example = "any"
     \/ Cardinality({t \in Task : pc[t] = "dead" /\ made[t] = Len(Text(t))}) = 1 + Children)
=============================================================================

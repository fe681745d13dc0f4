----------------------------- MODULE HostErrno -----------------------------
(***************************************************************************)
(* errno, as host_loop and the guest share it (src/dune/dune.c).  Dune is  *)
(* linked into the program: both use one C library, and because a clone    *)
(* gives the guest's tls to the host task too, one thread area.  host_loop *)
(* reads errno after KVM_RUN; the program finds there what the last of its *)
(* calls that failed has left.  The calls that host_loop makes for the     *)
(* guest go past the library and leave errno alone; but the program's      *)
(* signal handlers run in the host (src/Readme.md:57), between any two     *)
(* steps of host_loop, and call the library too.                           *)
(***************************************************************************)
EXTENDS Integers

CONSTANTS
  Task,     \* the tasks of one VM, positive
  Root,     \* the one that called dune_enter
  Errno     \* the errors of the guest's own calls

EINTR  == 4
EAGAIN == 11

ASSUME TaskAssumption == Task \subseteq Nat \ {0} /\ Root \in Task
ASSUME ErrnoAssumption == Errno \subseteq Nat \ {0, EINTR, EAGAIN}

VARIABLES
  pc,     \* "none", "guest", "ioctl" (KVM_RUN failed, in the library's ioctl),
          \* "check" (behind it, in host_loop) or "dead"
  area,   \* the thread area of the task
  errno,  \* per thread area, errno
  late    \* the tasks where a handler has left an error since KVM_RUN's

vars == <<pc, area, errno, late>>

Live == {t \in Task : pc[t] \notin {"none", "dead"}}

Init ==
  /\ pc    = [t \in Task |-> IF t = Root THEN "guest" ELSE "none"]
  /\ area  = [t \in Task |-> t]
  /\ errno = [t \in Task |-> 0]
  /\ late  = {}

Transition(t, from, to) ==
  /\ pc[t] = from
  /\ pc' = [pc EXCEPT ![t] = to]

\* A call of the guest fails: its library stores the error.
GuestFails(t, e) ==
  /\ pc[t] = "guest"
  /\ errno' = [errno EXCEPT ![area[t]] = e]
  /\ UNCHANGED <<pc, area, late>>

\* So does one of a signal's handler, while the host task is on its way from
\* KVM_RUN to its look at errno.  The handler of the signal that made KVM_RUN
\* fail is done before the library has the result (pc = "ioctl"); that of a
\* later signal may run behind it.  A handler that puts errno back is no step.
HandlerFails(t, e) ==
  /\ pc[t] \in {"ioctl", "check"}
  /\ errno' = [errno EXCEPT ![area[t]] = e]
  /\ late'  = IF pc[t] = "check" THEN late \union {t} ELSE late
  /\ UNCHANGED <<pc, area>>

\* A clone with CLONE_VM, with CLONE_SETTLS or without: init_child_thread_info
\* and do_simulate_clone give tls, if there is one, to the guest and to the
\* host task.
ChildArea(t, u, settls) == IF settls THEN u ELSE area[t]

Clone(t, u, settls) ==
  /\ pc[t] = "guest" /\ pc[u] = "none"
  /\ pc'   = [pc EXCEPT ![u] = "guest"]
  /\ area' = [area EXCEPT ![u] = ChildArea(t, u, settls)]
  /\ UNCHANGED <<errno, late>>

\* A signal makes KVM_RUN fail ...
\* (variant) KVM_RUN is made past the library, like the calls of the guest.
KvmRunBare(t) ==
  /\ Transition(t, "guest", "check")
  /\ UNCHANGED <<area, errno, late>>
KvmRunInterrupted(t) ==
  /\ Transition(t, "guest", "ioctl")
  /\ UNCHANGED <<area, errno, late>>

\* ... and the library's ioctl stores EINTR.
IoctlFails(t) ==
  /\ Transition(t, "ioctl", "check")
  /\ errno' = [errno EXCEPT ![area[t]] = EINTR]
  /\ UNCHANGED <<area, late>>

\* host_loop looks at errno: EINTR and EAGAIN make it run the guest again ...
RunAgain(t) ==
  /\ errno[area[t]] \in {EINTR, EAGAIN} /\ Transition(t, "check", "guest")
  /\ late' = late \ {t}
  /\ UNCHANGED <<area, errno>>

\* ... all else is an error, and ends the process.
Dies(t) ==
  /\ pc[t] = "check" /\ errno[area[t]] \notin {EINTR, EAGAIN}
  /\ pc' = [u \in Task |-> IF u \in Live THEN "dead" ELSE pc[u]]
  /\ UNCHANGED <<area, errno, late>>

Next ==
  \E t \in Task :
    \/ \E e \in Errno : GuestFails(t, e) \/ HandlerFails(t, e)
    \/ \E u \in Task, settls \in BOOLEAN : Clone(t, u, settls)
    \/ KvmRunInterrupted(t) \/ IoctlFails(t) \/ RunAgain(t) \/ Dies(t)

Spec == Init /\ [][Next]_vars

-----------------------------------------------------------------------------
(* Properties.                                                             *)

TypeOK ==
  /\ pc \in [Task -> {"none", "guest", "ioctl", "check", "dead"}]
  /\ area \in [Task -> Task]
  /\ errno \in [Task -> Nat]
  /\ late \subseteq Task

\* A signal is no error of KVM_RUN (dune.c:445): host_loop dies of one only if
\* another task has the same thread area, or the handler of a further signal
\* has left an error of its own behind KVM_RUN's.  What the program's calls
\* left before, and what the handler of the interrupting signal leaves, does
\* no harm.
SignalsSurvived ==
  \A t \in Task :
    pc[t] = "check" /\ errno[area[t]] \notin {EINTR, EAGAIN}
      => t \in late \/ \E u \in Task \ {t} : area[u] = area[t]
=============================================================================

-------------------------- MODULE ContainerMonitor --------------------------
(***************************************************************************)
(* container_monitor: the runtime, a child subreaper with every signal     *)
(* blocked, reads them from a signalfd, reaps the processes that die under *)
(* it, forwards what it receives to the one process it monitors, and takes *)
(* that process' exit code for its own.                                    *)
(*                                                                         *)
(* The kernel's side is here as well: a process table, reparenting to the  *)
(* subreaper, and pending signals, which are a set: a second SIGCHLD that  *)
(* finds one pending is not delivered.                                     *)
(*                                                                         *)
(* Files: container_monitor.cpp, os/process.cpp.                           *)
(***************************************************************************)
EXTENDS Integers

CONSTANTS
  Procs,       \* the processes that may come to be below the runtime
  Runtime,     \* the runtime process
  ExitCodes,   \* what a program may exit with
  MaxSignals   \* bound: signals other than SIGCHLD sent to the runtime

KilledCode == 137     \* os::get_exit_code: 128 + SIGKILL

ASSUME RuntimeAssumption == Runtime \notin Procs
ASSUME ExitCodesAssumption == ExitCodes \subseteq Nat
ASSUME MaxSignalsAssumption == MaxSignals \in Nat

VARIABLES
  proc,        \* process -> what has become of it, and of its pid
  parent,      \* process -> its parent
  code,        \* process -> its wait status
  pending,     \* signals pending in the runtime
  received,    \* signals sent to the runtime so far
  mpc,         \* where the monitor is
  pid,         \* the process it monitors, Runtime before there is a monitor
  childExited, \* child_exited
  exitCode     \* exit_code

kernel  == <<proc, parent, code, received>>
monitor == <<mpc, pid, childExited, exitCode>>
monitorVars == <<kernel, pending, monitor>>

MonitorInit ==
  /\ proc = [p \in Procs |-> "unborn"]
  /\ parent = [p \in Procs |-> Runtime]
  /\ code = [p \in Procs |-> 0]
  /\ pending = {}
  /\ received = 0
  /\ mpc = "off"
  /\ pid = Runtime
  /\ childExited = FALSE
  /\ exitCode = 0

-----------------------------------------------------------------------------
(* The kernel.                                                             *)

Blocked == mpc # "off"      \* before that, SIGCHLD is discarded

Fork(p, q) ==
  /\ proc[q] = "unborn"
  /\ proc' = [proc EXCEPT ![q] = "alive"]
  /\ parent' = [parent EXCEPT ![q] = p]

(* p dies with status c; its children, dead or alive, become the runtime's.*)
Die(p, c) ==
  LET left == {q \in Procs : parent[q] = p}
  IN  /\ proc[p] = "alive"
      /\ proc' = [proc EXCEPT ![p] = "zombie"]
      /\ code' = [code EXCEPT ![p] = c]
      /\ parent' = [q \in Procs |-> IF q \in left THEN Runtime ELSE parent[q]]
      /\ pending' =
           IF Blocked /\ (\/ parent[p] = Runtime
                          \/ \E q \in left : proc[q] = "zombie")
           THEN pending \cup {"CHLD"} ELSE pending

(* The pid of a process that was waited for goes to an unrelated process.  *)
Recycle(p) ==
  /\ proc[p] = "reaped"
  /\ proc' = [proc EXCEPT ![p] = "recycled"]
  /\ UNCHANGED <<parent, code, received, pending, monitor>>

(* Someone sends the runtime a signal that is neither SIGCHLD nor SIGWINCH.*)
SignalRuntime ==
  /\ Blocked
  /\ received < MaxSignals
  /\ received' = received + 1
  /\ pending' = pending \cup {"TERM"}
  /\ UNCHANGED <<proc, parent, code, monitor>>

Zombies == {p \in Procs : proc[p] = "zombie" /\ parent[p] = Runtime}

-----------------------------------------------------------------------------
(* Mutant: whoever is reaped, the monitored process is taken to have exited.*)
ReapAny(p) ==
  /\ proc' = [proc EXCEPT ![p] = "reaped"]
  /\ childExited' = TRUE
  /\ exitCode' = code[p]

(* What a successful waitpid(-1, WNOHANG) is followed by.                  *)
Reap(p) ==
  /\ proc' = [proc EXCEPT ![p] = "reaped"]
  /\ IF p = pid
     THEN childExited' = TRUE /\ exitCode' = code[p]
     ELSE UNCHANGED <<childExited, exitCode>>

(* The constructor, then enable_signal_forwarding: block the signals ...   *)
EnableSignalForwarding(p) ==
  /\ mpc = "off"
  /\ mpc' = "reap"
  /\ pid' = p
  /\ UNCHANGED <<kernel, pending, childExited, exitCode>>

(* Mutant: the processes reaped early are not compared with pid.           *)
ReapEarlyUnrecorded ==
  /\ mpc = "reap"
  /\ \/ \E p \in Zombies :
          /\ proc' = [proc EXCEPT ![p] = "reaped"]
          /\ UNCHANGED <<mpc, childExited, exitCode>>
     \/ Zombies = {} /\ mpc' = "ready" /\ UNCHANGED <<proc, childExited, exitCode>>
     \/ Zombies = {} /\ mpc' = "thrown" /\ UNCHANGED <<proc, childExited, exitCode>>
  /\ UNCHANGED <<parent, code, received, pending, pid>>

(* ... reap whoever is dead, and add the signalfd to epoll, or throw.      *)
ReapEarly ==
  /\ mpc = "reap"
  /\ \/ \E p \in Zombies : Reap(p) /\ UNCHANGED mpc
     \/ Zombies = {} /\ mpc' = "ready" /\ UNCHANGED <<proc, childExited, exitCode>>
     \/ Zombies = {} /\ mpc' = "thrown" /\ UNCHANGED <<proc, childExited, exitCode>>
  /\ UNCHANGED <<parent, code, received, pending, pid>>

(* The head of wait_container_exit's loop, and its epoll wait on the       *)
(* signalfd; what the forwarders do besides is module Forwarder's.         *)
EpollWait ==
  /\ mpc = "loop"
  /\ \/ childExited /\ mpc' = "returned"
     \/ ~childExited /\ pending # {} /\ mpc' = "signals"
  /\ UNCHANGED <<kernel, pending, pid, childExited, exitCode>>

(* Mutant: SIGCHLD has no case of its own in handle_signals.               *)
ChldForwarded ==
  /\ mpc = "signals"
  /\ \/ pending = {} /\ mpc' = "loop" /\ UNCHANGED pending
     \/ \E s \in pending : pending' = pending \ {s} /\ UNCHANGED mpc
  /\ UNCHANGED <<kernel, pid, childExited, exitCode>>

(* handle_signals reads one signal after the other.  What is neither       *)
(* SIGCHLD nor SIGWINCH goes to the process, unless it has been reaped: the *)
(* process then dies or not, as it may at any time.                        *)
ReadSignal ==
  /\ mpc = "signals"
  /\ \/ /\ pending = {}
        /\ mpc' = "loop"
        /\ UNCHANGED pending
     \/ /\ "CHLD" \in pending
        /\ pending' = pending \ {"CHLD"}
        /\ mpc' = "chld"
     \/ /\ "TERM" \in pending
        /\ pending' = pending \ {"TERM"}
        /\ UNCHANGED mpc
  /\ UNCHANGED <<kernel, pid, childExited, exitCode>>

(* For a SIGCHLD, one waitpid.                                             *)
WaitOne ==
  /\ mpc = "chld"
  /\ mpc' = "signals"
  /\ \/ \E p \in Zombies : Reap(p)
     \/ Zombies = {} /\ UNCHANGED <<proc, childExited, exitCode>>
  /\ UNCHANGED <<parent, code, received, pending, pid>>

(* kill_child: SIGKILL and a blocking waitpid, which fails when the process *)
(* is not, or not yet, a child of the runtime.  A pid that was reaped has  *)
(* nobody to kill, or someone else.                                        *)
KillChild ==
  /\ proc' = IF proc[pid] \notin {"alive", "zombie"} THEN proc
             ELSE [proc EXCEPT ![pid] = IF parent[pid] = Runtime
                                        THEN "reaped" ELSE "zombie"]
  /\ code' = IF proc[pid] = "alive" THEN [code EXCEPT ![pid] = KilledCode]
             ELSE code
  /\ mpc' = "thrown"
  /\ UNCHANGED <<parent, received, pending, pid, childExited, exitCode>>

-----------------------------------------------------------------------------
(* A forwarded signal goes to a pid the runtime has not released: while    *)
(* child_exited is unset, the monitored process has not been waited for.   *)
UnreapedWhileForwarding ==
  mpc \in {"ready", "loop", "signals", "chld"} /\ ~childExited =>
    proc[pid] \in {"alive", "zombie"}

(* The exit code is the monitored process' own, never that of another      *)
(* process that was reaped on the way.                                     *)
ExitCodeIsTheChilds ==
  childExited => proc[pid] \in {"reaped", "recycled"} /\ exitCode = code[pid]
=============================================================================

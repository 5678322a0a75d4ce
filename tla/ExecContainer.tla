---------------------------- MODULE ExecContainer ----------------------------
(***************************************************************************)
(* "ll-box exec": the runtime forks a process that joins the container's   *)
(* namespaces and, to enter its PID namespace, forks once more and leaves. *)
(* The last of them asks to proceed, sets itself up and executes the       *)
(* command, while the runtime puts a container_monitor on it.  The three   *)
(* share one SOCK_SEQPACKET socket pair.                                   *)
(*                                                                         *)
(* Files: container_ref.cpp, protocol/message_channel.cpp,                 *)
(* container_monitor.cpp.                                                  *)
(***************************************************************************)
EXTENDS ContainerMonitor, Sequences

CONSTANTS
  Child,       \* the process fork() makes
  Grandchild,  \* the one it forks into the PID namespace
  Capacity     \* datagrams one direction of the socket pair holds

ASSUME ProcsAssumption == Procs = {Child, Grandchild} /\ Child # Grandchild
ASSUME CapacityAssumption == Capacity \in Nat \ {0}

VARIABLES
  pidNs,       \* the container has a PID namespace to join
  terminal,    \* proc.terminal
  ppc,         \* where the runtime is
  pc,          \* process -> where it is
  toParent,    \* datagrams to the runtime not yet received
  toChild,     \* datagrams from the runtime not yet received
  sawFatal,    \* wait_for_close's saw_log
  inTry        \* exec_parent_process has entered its try block

options == <<pidNs, terminal>>
channel == <<toParent, toChild>>
vars == <<options, ppc, pc, channel, sawFatal, inTry, monitorVars>>

(* The process that executes the command.                                  *)
Command == IF pidNs THEN Grandchild ELSE Child

Logs      == {"fatal"}
ChildMsgs == {"pid_report", "console_fd", "exec_ready"} \cup Logs

ParentFinal == {"returned", "thrown"}
(* The children's end is closed when none of them holds it any more.       *)
HoldsSocket(p) == proc[p] = "alive" /\ pc[p] # "running"
EndClosed == \A p \in Procs : ~HoldsSocket(p)

Init ==
  /\ pidNs \in BOOLEAN
  /\ terminal \in BOOLEAN
  /\ ppc = "fork"
  /\ pc = [p \in Procs |-> "none"]
  /\ toParent = <<>>
  /\ toChild = <<>>
  /\ sawFatal = FALSE
  /\ inTry = FALSE
  /\ MonitorInit

-----------------------------------------------------------------------------
(* The runtime: container_ref::exec and exec_parent_process.               *)

(* An exception leaves exec, except in the try block, which kills.         *)
Throw == ppc' = IF inTry THEN "caught" ELSE "thrown"

ForkChild ==
  /\ ppc = "fork"
  /\ \/ Fork(Runtime, Child) /\ pc' = [pc EXCEPT ![Child] = "join"]
        /\ ppc' = "pid_report"
     \/ Throw /\ UNCHANGED <<proc, parent, pc>>
  /\ UNCHANGED <<options, channel, sawFatal, inTry, code, received, pending,
                 monitor>>

(* The peer has closed, with nothing left to read or with unread data.     *)
ParentEof == EndClosed /\ (toParent = <<>> \/ toChild # <<>>)

(* drain_logs and wait_for_stage.                                          *)
AwaitMsg(at, expected, next) ==
  /\ ppc = at
  /\ \/ ParentEof /\ Throw /\ UNCHANGED toParent
     \/ /\ ~ParentEof
        /\ toParent # <<>>
        /\ toParent' = Tail(toParent)
        /\ \/ Head(toParent) \in Logs /\ ppc' = at
           \/ Head(toParent) = expected /\ ppc' = next
           \/ Head(toParent) \notin Logs \cup {expected} /\ Throw
  /\ UNCHANGED <<options, pc, toChild, sawFatal, inTry, monitorVars>>

TakePidReport == AwaitMsg("pid_report", "pid_report", "monitor")

(* The monitor is made for the reported pid; it may fail before the try.   *)
StartMonitor ==
  /\ ppc = "monitor"
  /\ \/ EnableSignalForwarding(Command) /\ UNCHANGED ppc
     \/ mpc = "ready" /\ ppc' = "proceed" /\ UNCHANGED monitorVars
     \/ mpc = "thrown" /\ Throw /\ UNCHANGED monitorVars
  /\ UNCHANGED <<options, pc, channel, sawFatal, inTry>>

SendProceed ==
  /\ ppc = "proceed"
  /\ \/ EndClosed /\ Throw /\ UNCHANGED toChild
     \/ ~EndClosed /\ toChild' = Append(toChild, "proceed") /\ ppc' = "flags"
  /\ UNCHANGED <<options, pc, toParent, sawFatal, inTry, monitorVars>>

(* in.flags() and out.flags() throw if stdin or stdout is closed.          *)
EnterTry ==
  /\ ppc = "flags"
  /\ \/ inTry' = TRUE /\ ppc' = IF terminal THEN "console" ELSE "exec_ready"
     \/ Throw /\ UNCHANGED inTry
  /\ UNCHANGED <<options, pc, channel, sawFatal, monitorVars>>

(* Then the terminal's master goes to the console socket or a forwarder.   *)
TakeConsole ==
  \/ AwaitMsg("console", "console_fd", "exec_ready")
  \/ /\ ppc = "console" /\ toParent # <<>> /\ Head(toParent) = "console_fd"
     /\ toParent' = Tail(toParent)
     /\ Throw
     /\ UNCHANGED <<options, pc, toChild, sawFatal, inTry, monitorVars>>

TakeExecReady == AwaitMsg("exec_ready", "exec_ready", "close")

WaitForClose ==
  /\ ppc = "close"
  /\ \/ ParentEof /\ ~sawFatal /\ ppc' = "wait" /\ mpc' = "loop"
        /\ UNCHANGED <<toParent, sawFatal>>
     \/ ParentEof /\ sawFatal /\ Throw /\ UNCHANGED <<toParent, sawFatal, mpc>>
     \/ /\ ~ParentEof
        /\ toParent # <<>>
        /\ toParent' = Tail(toParent)
        /\ sawFatal' = TRUE
        /\ IF Head(toParent) \in Logs THEN UNCHANGED ppc ELSE Throw
        /\ UNCHANGED mpc
  /\ UNCHANGED <<options, pc, toChild, inTry, kernel, pending, pid,
                 childExited, exitCode>>

(* wait_container_exit returns, or throws out of the forwarding.           *)
WaitExit ==
  /\ ppc = "wait"
  /\ \/ mpc = "returned" /\ ppc' = "returned"
     \/ terminal /\ mpc \in {"loop", "returned"} /\ Throw
  /\ UNCHANGED <<options, pc, channel, sawFatal, inTry, monitorVars>>

(* Mutant: the catch block rethrows without kill_child.                    *)
RethrowOnly ==
  /\ ppc = "caught"
  /\ ppc' = "thrown"
  /\ UNCHANGED <<options, pc, channel, sawFatal, inTry, monitorVars>>

CatchAndKill ==
  /\ ppc = "caught"
  /\ KillChild
  /\ ppc' = "thrown"
  /\ UNCHANGED <<options, pc, channel, sawFatal, inTry>>

(* The monitor runs in the runtime's thread.                               *)
RunMonitor ==
  /\ \/ ppc = "monitor" /\ ReapEarly
     \/ ppc = "wait" /\ (EpollWait \/ ReadSignal \/ WaitOne)
  /\ UNCHANGED <<options, ppc, pc, channel, sawFatal, inTry>>

Parent == ForkChild \/ TakePidReport \/ StartMonitor \/ SendProceed \/ EnterTry
          \/ TakeConsole \/ TakeExecReady \/ WaitForClose \/ WaitExit
          \/ CatchAndKill \/ RunMonitor

-----------------------------------------------------------------------------
(* The children: exec_child_process.                                       *)

At(p, at) == proc[p] = "alive" /\ pc[p] = at
GoTo(p, next) == pc' = [pc EXCEPT ![p] = next]
Fail(p) == GoTo(p, "failing")

parentSide == <<options, ppc, sawFatal, inTry, received, monitor>>

JoinNamespaces(p) ==
  /\ At(p, "join")
  /\ \/ Fail(p) /\ UNCHANGED <<proc, parent>>
     \/ ~pidNs /\ GoTo(p, "report") /\ UNCHANGED <<proc, parent>>
     \/ /\ pidNs
        /\ Fork(p, Grandchild)
        /\ pc' = [pc EXCEPT ![p] = "report", ![Grandchild] = "proceed"]
  /\ UNCHANGED <<parentSide, channel, code, pending>>

(* A send waits for room; the runtime never closes its end before it ends. *)
Send(p, msg, next) ==
  \/ /\ ppc \notin ParentFinal
     /\ Len(toParent) < Capacity
     /\ toParent' = Append(toParent, msg)
     /\ GoTo(p, next)
  \/ Fail(p) /\ UNCHANGED toParent

(* The forked process leaves; without a PID namespace it goes on itself.   *)
ReportPid(p) ==
  /\ At(p, "report")
  /\ Send(p, "pid_report", IF pidNs THEN "leave" ELSE "proceed")
  /\ UNCHANGED <<parentSide, toChild, proc, parent, code, pending>>

Leave(p) ==
  /\ At(p, "leave")
  /\ Die(p, 0)
  /\ UNCHANGED <<parentSide, channel, pc>>

(* Mutant: the process does not wait for the runtime's proceed.            *)
ProceedNotAwaited(p) ==
  /\ At(p, "proceed")
  /\ GoTo(p, IF terminal THEN "terminal" ELSE "setup")
  /\ UNCHANGED <<parentSide, channel, proc, parent, code, pending>>

ExpectProceed(p) ==
  /\ At(p, "proceed")
  /\ \/ /\ toChild # <<>>
        /\ toChild' = Tail(toChild)
        /\ GoTo(p, IF terminal THEN "terminal" ELSE "setup")
     \/ /\ toChild = <<>> /\ ppc \in ParentFinal
        /\ Fail(p)
        /\ UNCHANGED toChild
  /\ UNCHANGED <<parentSide, toParent, proc, parent, code, pending>>

SetupTerminal(p) ==
  /\ At(p, "terminal")
  /\ Send(p, "console_fd", "setup")
  /\ UNCHANGED <<parentSide, toChild, proc, parent, code, pending>>

(* Environment, limits, descriptors, privileges, directory: each may throw;*)
(* a limit that cannot be set ends the process without a word.             *)
SetUp(p) ==
  /\ At(p, "setup")
  /\ GoTo(p, "exec_ready") \/ Fail(p) \/ GoTo(p, "exit")
  /\ UNCHANGED <<parentSide, channel, proc, parent, code, pending>>

SendExecReady(p) ==
  /\ At(p, "exec_ready")
  /\ Send(p, "exec_ready", "exec")
  /\ UNCHANGED <<parentSide, toChild, proc, parent, code, pending>>

Execvpe(p) ==
  /\ At(p, "exec")
  /\ GoTo(p, "running") \/ Fail(p)
  /\ UNCHANGED <<parentSide, channel, proc, parent, code, pending>>

(* LOG_FATAL through the forwarder, which swallows its own failures.       *)
LogFatal(p) ==
  /\ At(p, "failing")
  /\ \/ ppc \in ParentFinal /\ UNCHANGED toParent
     \/ /\ ppc \notin ParentFinal
        /\ Len(toParent) < Capacity
        /\ toParent' = Append(toParent, "fatal")
  /\ GoTo(p, "exit")
  /\ UNCHANGED <<parentSide, toChild, proc, parent, code, pending>>

ExitFailure(p) ==
  /\ At(p, "exit")
  /\ Die(p, 1)
  /\ UNCHANGED <<parentSide, channel, pc>>

ChildStep(p) == JoinNamespaces(p) \/ ReportPid(p) \/ Leave(p) \/ ExpectProceed(p)
                \/ SetupTerminal(p) \/ SetUp(p) \/ SendExecReady(p) \/ Execvpe(p)
                \/ LogFatal(p) \/ ExitFailure(p)

-----------------------------------------------------------------------------
(* Outside: the command exits, processes are killed, signals arrive, pids  *)
(* are used again.                                                         *)

CommandExits(p) ==
  /\ At(p, "running")
  /\ \E c \in ExitCodes : Die(p, c)
  /\ UNCHANGED <<parentSide, channel, pc>>

Killed(p) ==
  /\ Die(p, KilledCode)
  /\ UNCHANGED <<parentSide, channel, pc>>

Outside ==
  \/ \E p \in Procs : CommandExits(p) \/ Killed(p)
  \/ (SignalRuntime \/ \E p \in Procs : Recycle(p))
     /\ ppc \notin ParentFinal
     /\ UNCHANGED <<options, ppc, pc, channel, sawFatal, inTry>>

Next == Parent \/ (\E p \in Procs : ChildStep(p)) \/ Outside

Spec == Init /\ [][Next]_vars

(* The processes run; nothing makes the command exit.                      *)
FairSpec == Spec /\ WF_vars(Parent) /\ \A p \in Procs : WF_vars(ChildStep(p))

-----------------------------------------------------------------------------
(* No process goes past expect_proceed before the runtime monitors it with *)
(* its signals blocked.                                                    *)
MonitoredBeforeProceeding ==
  \A p \in Procs :
    /\ proc[p] = "alive"
    /\ pc[p] \in {"terminal", "setup", "exec_ready", "exec", "running"}
    =>
      p = pid /\ mpc \notin {"off", "reap", "thrown"}

(* An exec that throws after its try block was entered leaves no command   *)
(* running.                                                                *)
FailureKillsCommand ==
  ppc = "thrown" /\ inTry => proc[Command] # "alive"

(* message_channel.cpp:164-165: the exit code is reaped later by           *)
(* wait_container_exit.                                                    *)
ExitCodeIsReaped ==
  (ppc = "wait" /\ proc[Command] = "zombie") ~> (childExited \/ ppc = "caught")

(* The same without a PID namespace, where no other process' SIGCHLD can   *)
(* hide the command's; and then the death of the process ends the exec,    *)
(* wherever both were.                                                     *)
ExecEnds ==
  (~pidNs /\ proc[Child] = "zombie") ~> (ppc \in ParentFinal)
=============================================================================

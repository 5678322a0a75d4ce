--------------------------- MODULE ContainerStart ---------------------------
(***************************************************************************)
(* The start of a container by "ll-box run": the runtime process (the      *)
(* parent, container::run) and the process it clones into the container's  *)
(* namespaces (the child, clone_fn) walk through the OCI lifecycle in      *)
(* lockstep over one SOCK_SEQPACKET socket pair, each running the hooks    *)
(* that belong to its side.  Any step of either may throw, the child may   *)
(* be killed at any moment, and the runtime itself may be killed.          *)
(*                                                                         *)
(* Files: container.cpp, protocol/message_channel.cpp,                     *)
(* container_monitor.cpp, status_directory.cpp.                            *)
(***************************************************************************)
EXTENDS Integers, Sequences

CONSTANTS
  HookCounts,     \* lengths a hook array may have; Absent: not in the config
  ExitCodes,      \* what the container's program may exit with
  Capacity,       \* datagrams one direction of the socket pair holds
  MaxLogs,        \* bound: non-fatal log messages the child forwards
  RuntimeMayDie   \* whether the runtime process itself may be killed

Absent == -1
ExitFailure == 1
KilledCode == 137     \* os::get_exit_code: 128 + SIGKILL

ASSUME HookCountsAssumption == HookCounts \subseteq Nat \cup {Absent}
ASSUME ExitCodesAssumption == ExitCodes \subseteq Nat
ASSUME CapacityAssumption == Capacity \in Nat \ {0}
ASSUME MaxLogsAssumption == MaxLogs \in Nat
ASSUME RuntimeMayDieAssumption == RuntimeMayDie \in BOOLEAN

VARIABLES
  hooks,       \* config.hooks: hook kind -> length of its array, or Absent
  terminal,    \* config.process->terminal
  ppc, cpc,    \* where the parent and the child are
  toParent,    \* datagrams from the child not yet received
  toChild,     \* datagrams from the parent not yet received
  configured,  \* id mappings and cgroup of the child are in place
  status,      \* status.json: "absent", "present", or "removed" with its directory
  ran,         \* hook kind -> hooks of that kind that have run
  ready,       \* history: exec_ready has been sent
  logs,        \* log messages the child has forwarded
  sawFatal,    \* wait_for_close's saw_log
  code,        \* wait status of the dead child
  reaped,      \* the child has been waited for (the monitor's child_exited)
  sigchld,     \* SIGCHLD is pending in the runtime, which blocks all signals
  result       \* container_process_exit_code

configVars == <<hooks, terminal>>
parentVars == <<ppc, configured, status, sawFatal, result>>
childVars  == <<cpc, ready, logs, code>>
vars == <<configVars, parentVars, childVars, toParent, toChild, ran, reaped,
          sigchld>>

-----------------------------------------------------------------------------
HookKinds == {"prestart", "createRuntime", "createContainer",
              "startContainer", "poststart", "poststop"}

Configured(k) == hooks[k] # Absent
Done(k) == Configured(k) => ran[k] = hooks[k]

(* The datagrams of message.h a start uses; both log levels are messages   *)
(* the child's logger forwards.                                            *)
Logs        == {"log", "fatal"}
ParentMsgs  == {"namespace_done", "prestart_done", "createruntime_done"}
ChildMsgs   == {"namespace_ready", "prestart_ready", "createruntime_ready",
                "createcontainer_done", "console_fd", "exec_ready"} \cup Logs

ParentFinal == {"returned", "thrown", "killed"}
ParentPCs == {"start", "clone", "write_status", "namespace", "configure",
              "prestart", "run_prestart", "createruntime", "run_createruntime",
              "createcontainer", "console", "exec_ready", "close",
              "poststart", "signals", "wait_exit", "poststop",
              "caught", "remove"} \cup ParentFinal

ChildDead  == {"failed", "killed", "exited"}
ChildSetup == {"namespace_ready", "wait_namespace", "mounts",
               "prestart", "wait_prestart", "createruntime",
               "wait_createruntime", "read_status", "createcontainer",
               "pivot_root", "terminal", "privileges", "startcontainer",
               "exec_ready", "exec"}
ChildAlive == ChildSetup \cup {"failing", "exiting", "running"}
ChildPCs   == ChildAlive \cup ChildDead \cup {"none"}

(* The child's socket is closed by O_CLOEXEC at exec, or by its death.     *)
EndClosed == cpc \in ChildDead \cup {"running"}

-----------------------------------------------------------------------------
Init ==
  /\ hooks \in [HookKinds -> HookCounts]
  /\ terminal \in BOOLEAN
  /\ ppc = "start"
  /\ cpc = "none"
  /\ toParent = <<>>
  /\ toChild = <<>>
  /\ configured = FALSE
  /\ status = "absent"
  /\ ran = [k \in HookKinds |-> 0]
  /\ ready = FALSE
  /\ logs = 0
  /\ sawFatal = FALSE
  /\ code = 0
  /\ reaped = FALSE
  /\ sigchld = FALSE
  /\ result = ExitFailure

-----------------------------------------------------------------------------
(* What the parent's steps are made of.  A thrown exception lands in the   *)
(* catch of container::run: ppc' = "caught".                               *)

(* channel_transport::recv gives nullopt when everything was read and the  *)
(* peer has closed, and also when the peer closed with unread data of ours *)
(* (ECONNRESET, reported before the datagrams still queued).               *)
ParentEof == EndClosed /\ (toParent = <<>> \/ toChild # <<>>)

(* wait_for_stage and drain_logs: log messages are dispatched and skipped, *)
(* the expected message moves on, anything else throws.                    *)
AwaitMsg(at, expected, next) ==
  /\ ppc = at
  /\ \/ ParentEof /\ ppc' = "caught" /\ UNCHANGED toParent
     \/ /\ ~ParentEof
        /\ toParent # <<>>
        /\ toParent' = Tail(toParent)
        /\ \/ Head(toParent) \in Logs /\ ppc' = at
           \/ Head(toParent) = expected /\ ppc' = next
           \/ Head(toParent) \notin Logs \cup {expected} /\ ppc' = "caught"
  /\ UNCHANGED <<configVars, childVars, toChild, configured, status, ran,
                 sawFatal, reaped, sigchld, result>>

(* send_stage: EPIPE once the child's end is closed, else it waits for room. *)
SendToChild(msg, next) ==
  \/ EndClosed /\ ppc' = "caught" /\ UNCHANGED toChild
  \/ /\ ~EndClosed
     /\ Len(toChild) < Capacity
     /\ toChild' = Append(toChild, msg)
     /\ ppc' = next

(* A stage whose hooks the configuration does not have: an early return.   *)
SkipStage(at, k, next) ==
  /\ ppc = at
  /\ ~Configured(k)
  /\ ppc' = next
  /\ UNCHANGED <<configVars, childVars, toParent, toChild, configured, status,
                 ran, sawFatal, reaped, sigchld, result>>

(* execute_hook in the runtime, for each hook of the stage; before the     *)
(* first, container.status() may throw as well.  A hook is a child of the  *)
(* runtime, so its death raises SIGCHLD; waitpid leaves the signal pending,*)
(* but a hook with a timeout is awaited by sigtimedwait, which takes       *)
(* SIGCHLD whoever raised it: the container's own may be gone afterwards.  *)
RunParentHook(at, k) ==
  /\ ppc = at
  /\ Configured(k)
  /\ sigchld' \in BOOLEAN
  /\ \/ /\ ran[k] < hooks[k]
        /\ ran' = [ran EXCEPT ![k] = @ + 1]
        /\ UNCHANGED ppc
     \/ /\ ran[k] < hooks[k] \/ ran[k] = 0
        /\ ppc' = "caught"
        /\ UNCHANGED ran
  /\ UNCHANGED <<configVars, childVars, toParent, toChild, configured, status,
                 sawFatal, reaped, result>>

(* All hooks of a stage the child waits for have run: tell it.             *)
ReportStage(at, k, msg, next) ==
  /\ ppc = at
  /\ ran[k] = hooks[k]
  /\ SendToChild(msg, next)
  /\ UNCHANGED <<configVars, childVars, toParent, configured, status, ran,
                 sawFatal, reaped, sigchld, result>>

-----------------------------------------------------------------------------
(* The parent, container::run, from the subreaper setting to its return.   *)

(* Before the try block: a failure leaves run without any clean-up.        *)
SetSubreaper ==
  /\ ppc = "start"
  /\ ppc' \in {"clone", "thrown"}
  /\ UNCHANGED <<configVars, childVars, toParent, toChild, configured, status,
                 ran, sawFatal, reaped, sigchld, result>>

(* start_container_process: socket pair, rlimits, clone; then the monitor. *)
StartContainerProcess ==
  /\ ppc = "clone"
  /\ \/ cpc' = "namespace_ready" /\ ppc' = "write_status"
     \/ ppc' = "caught" /\ UNCHANGED cpc
  /\ UNCHANGED <<configVars, toParent, toChild, configured, status, ran, ready,
                 logs, sawFatal, code, reaped, sigchld, result>>

WriteStatus ==
  /\ ppc = "write_status"
  /\ \/ status' = "present" /\ ppc' = "namespace"
     \/ ppc' = "caught" /\ UNCHANGED status
  /\ UNCHANGED <<configVars, childVars, toParent, toChild, configured, ran,
                 sawFatal, reaped, sigchld, result>>

(* configure_container_namespaces: wait for the request, write the id      *)
(* mappings, join the cgroup, answer.                                      *)
ConfigureNamespaces ==
  \/ AwaitMsg("namespace", "namespace_ready", "configure")
  \/ /\ ppc = "configure"
     /\ \/ configured' = TRUE /\ SendToChild("namespace_done", "prestart")
        \/ ppc' = "caught" /\ UNCHANGED <<toChild, configured>>
     /\ UNCHANGED <<configVars, childVars, toParent, status, ran, sawFatal,
                    reaped, sigchld, result>>

PrestartHooks ==
  \/ SkipStage("prestart", "prestart", "createruntime")
  \/ /\ Configured("prestart")
     /\ AwaitMsg("prestart", "prestart_ready", "run_prestart")
  \/ RunParentHook("run_prestart", "prestart")
  \/ ReportStage("run_prestart", "prestart", "prestart_done", "createruntime")

(* Mutant: the parent runs the hooks and forgets to report them.           *)
CreateRuntimeNotReported ==
  \/ SkipStage("createruntime", "createRuntime", "createcontainer")
  \/ /\ Configured("createRuntime")
     /\ AwaitMsg("createruntime", "createruntime_ready", "run_createruntime")
  \/ RunParentHook("run_createruntime", "createRuntime")
  \/ /\ ppc = "run_createruntime"
     /\ Done("createRuntime")
     /\ ppc' = "createcontainer"
     /\ UNCHANGED <<configVars, childVars, toParent, toChild, configured,
                    status, ran, sawFatal, reaped, sigchld, result>>

CreateRuntimeHooks ==
  \/ SkipStage("createruntime", "createRuntime", "createcontainer")
  \/ /\ Configured("createRuntime")
     /\ AwaitMsg("createruntime", "createruntime_ready", "run_createruntime")
  \/ RunParentHook("run_createruntime", "createRuntime")
  \/ ReportStage("run_createruntime", "createRuntime", "createruntime_done",
                 "createcontainer")

WaitCreateContainerResult ==
  \/ SkipStage("createcontainer", "createContainer", "console")
  \/ /\ Configured("createContainer")
     /\ AwaitMsg("createcontainer", "createcontainer_done", "console")

(* Only a terminal brings a console_fd; passing it on to the console       *)
(* socket may fail.                                                        *)
TakeConsole ==
  \/ /\ ppc = "console"
     /\ ~terminal
     /\ ppc' = "exec_ready"
     /\ UNCHANGED <<configVars, childVars, toParent, toChild, configured,
                    status, ran, sawFatal, reaped, sigchld, result>>
  \/ /\ terminal
     /\ \E next \in {"exec_ready", "caught"} :
          AwaitMsg("console", "console_fd", next)

(* Mutant: the FATAL log is dispatched like any other, and forgotten.      *)
FatalIgnored ==
  /\ ppc = "close"
  /\ \/ /\ ParentEof
        /\ ppc' = "poststart"
        /\ UNCHANGED toParent
     \/ /\ ~ParentEof
        /\ toParent # <<>>
        /\ toParent' = Tail(toParent)
        /\ ppc' = IF Head(toParent) \in Logs THEN "close" ELSE "caught"
  /\ UNCHANGED <<configVars, childVars, toChild, configured, status, ran,
                 sawFatal, reaped, sigchld, result>>

(* wait_for_close: the end of the stream is success unless a FATAL came.   *)
WaitForClose ==
  /\ ppc = "close"
  /\ \/ /\ ParentEof
        /\ ppc' = IF sawFatal THEN "caught" ELSE "poststart"
        /\ UNCHANGED <<toParent, sawFatal>>
     \/ /\ ~ParentEof
        /\ toParent # <<>>
        /\ toParent' = Tail(toParent)
        /\ sawFatal' = IF Head(toParent) = "fatal" THEN TRUE ELSE sawFatal
        /\ ppc' = IF Head(toParent) \in Logs THEN "close" ELSE "caught"
  /\ UNCHANGED <<configVars, childVars, toChild, configured, status, ran,
                 reaped, sigchld, result>>

WaitContainerStarted ==
  \/ AwaitMsg("exec_ready", "exec_ready", "close")
  \/ WaitForClose

PoststartHooks ==
  \/ RunParentHook("poststart", "poststart")
  \/ /\ ppc = "poststart"
     /\ Done("poststart")
     /\ ppc' = "signals"
     /\ UNCHANGED <<configVars, childVars, toParent, toChild, configured,
                    status, ran, sawFatal, reaped, sigchld, result>>

(* Mutant: without the waitpid loop, only the signalfd is set up.          *)
NoInitialReap ==
  /\ ppc = "signals"
  /\ ppc' = "wait_exit"
  /\ UNCHANGED <<configVars, childVars, toParent, toChild, configured, status,
                 ran, sawFatal, reaped, sigchld, result>>

(* enable_signal_forwarding: the signalfd, then a waitpid loop for what    *)
(* exited before it existed.                                               *)
EnableSignalForwarding ==
  /\ ppc = "signals"
  /\ \/ reaped' = (cpc \in ChildDead) /\ ppc' = "wait_exit"
     \/ ppc' = "caught" /\ UNCHANGED reaped
  /\ UNCHANGED <<configVars, childVars, toParent, toChild, configured, status,
                 ran, sawFatal, sigchld, result>>

(* Mutant: any SIGCHLD is taken for the container's.                       *)
AnySigchldEndsWait ==
  /\ ppc = "wait_exit"
  /\ reaped \/ sigchld
  /\ sigchld' = FALSE
  /\ reaped' = (cpc \in ChildDead)
  /\ result' = code
  /\ ppc' = "poststop"
  /\ UNCHANGED <<configVars, childVars, toParent, toChild, configured, status,
                 ran, sawFatal>>

(* wait_container_exit: sleep in epoll until a signal; handle_signals      *)
(* takes the pending SIGCHLD and waits for one child.                      *)
WaitContainerExit ==
  /\ ppc = "wait_exit"
  /\ \/ /\ reaped
        /\ result' = code
        /\ ppc' = "poststop"
        /\ UNCHANGED <<reaped, sigchld>>
     \/ /\ ~reaped
        /\ sigchld
        /\ sigchld' = FALSE
        /\ reaped' = (cpc \in ChildDead)
        /\ UNCHANGED <<ppc, result>>
  /\ UNCHANGED <<configVars, childVars, toParent, toChild, configured, status,
                 ran, sawFatal>>

(* From reading the flags of stdin and stdout to the last byte forwarded   *)
(* (write_span) or signal read, something may throw.                       *)
ForwardingThrows ==
  /\ ppc = "wait_exit"
  /\ ppc' = "caught"
  /\ UNCHANGED <<configVars, childVars, toParent, toChild, configured, status,
                 ran, sawFatal, reaped, sigchld, result>>

(* poststop_hooks: a failing hook is logged and the next one still runs,   *)
(* but container.status() throwing in this noexcept function ends the      *)
(* runtime.                                                                *)
PoststopHooks ==
  /\ ppc = "poststop"
  /\ \/ /\ Configured("poststop")
        /\ ran["poststop"] < hooks["poststop"]
        /\ ran' = [ran EXCEPT !["poststop"] = @ + 1]
        /\ sigchld' \in BOOLEAN
        /\ UNCHANGED ppc
     \/ /\ Configured("poststop")
        /\ ran["poststop"] = 0
        /\ ppc' = "killed"
        /\ UNCHANGED <<ran, sigchld>>
     \/ /\ Done("poststop")
        /\ ppc' = "remove"
        /\ UNCHANGED <<ran, sigchld>>
  /\ UNCHANGED <<configVars, childVars, toParent, toChild, configured, status,
                 sawFatal, reaped, result>>

(* Mutant: the child is killed but not waited for.                         *)
KilledNotReaped ==
  /\ ppc = "caught"
  /\ ppc' = "remove"
  /\ IF cpc \in ChildDead \cup {"none"}
     THEN UNCHANGED <<cpc, code, sigchld>>
     ELSE cpc' = "killed" /\ code' = KilledCode /\ sigchld' = TRUE
  /\ UNCHANGED <<configVars, toParent, toChild, configured, status, ran, ready,
                 logs, sawFatal, reaped, result>>

(* The catch block: kill_child sends SIGKILL and waits, if the monitor was *)
(* set up; a child already reaped gives ESRCH.                             *)
KillChild ==
  /\ ppc = "caught"
  /\ ppc' = "remove"
  /\ IF cpc = "none" \/ reaped
     THEN UNCHANGED <<cpc, code, reaped, sigchld>>
     ELSE /\ cpc' = IF cpc \in ChildDead THEN cpc ELSE "killed"
          /\ code' = IF cpc \in ChildDead THEN code ELSE KilledCode
          /\ reaped' = TRUE
          /\ sigchld' = TRUE
  /\ UNCHANGED <<configVars, toParent, toChild, configured, status, ran, ready,
                 logs, sawFatal, result>>

(* status_dir().remove() throws when remove_all fails.                     *)
RemoveStatus ==
  /\ ppc = "remove"
  /\ \/ status' = "removed" /\ ppc' = "returned"
     \/ ppc' = "thrown" /\ UNCHANGED status
  /\ UNCHANGED <<configVars, childVars, toParent, toChild, configured, ran,
                 sawFatal, reaped, sigchld, result>>

Parent ==
  \/ SetSubreaper \/ StartContainerProcess \/ WriteStatus
  \/ ConfigureNamespaces \/ PrestartHooks \/ CreateRuntimeHooks
  \/ WaitCreateContainerResult \/ TakeConsole \/ WaitContainerStarted
  \/ PoststartHooks \/ EnableSignalForwarding \/ WaitContainerExit
  \/ PoststopHooks \/ KillChild \/ RemoveStatus

-----------------------------------------------------------------------------
(* The child, clone_fn.  A thrown exception lands in its catch blocks:     *)
(* cpc' = "failing".  The child holds a copy of the parent's end of the    *)
(* socket pair, so it never sees that end closed: with the runtime gone it *)
(* waits, or sends until the socket is full.                               *)

SendToParent(msg) ==
  /\ Len(toParent) < Capacity
  /\ toParent' = Append(toParent, msg)

(* send_stage, at the place "at" of the child.                             *)
Announce(at, msg, next) ==
  /\ cpc = at
  /\ SendToParent(msg)
  /\ cpc' = next
  /\ UNCHANGED <<configVars, parentVars, toChild, ran, ready, logs, code,
                 reaped, sigchld>>

(* expect_stage: exactly one datagram, and it must be the stage.           *)
ExpectStage(at, expected, next) ==
  /\ cpc = at
  /\ toChild # <<>>
  /\ toChild' = Tail(toChild)
  /\ cpc' = IF Head(toChild) = expected THEN next ELSE "failing"
  /\ UNCHANGED <<configVars, parentVars, toParent, ran, ready, logs, code,
                 reaped, sigchld>>

(* A part of the set-up that talks to nobody, and may throw.               *)
SetUp(at, next) ==
  /\ cpc = at
  /\ cpc' \in {next, "failing"}
  /\ UNCHANGED <<configVars, parentVars, toParent, toChild, ran, ready, logs,
                 code, reaped, sigchld>>

(* The early return of a stage whose hooks are not configured.             *)
ChildSkips(at, k, next) == ~Configured(k) /\ cpc = at /\ cpc' = next
  /\ UNCHANGED <<configVars, parentVars, toParent, toChild, ran, ready, logs,
                 code, reaped, sigchld>>

RunChildHook(at, k) ==
  /\ cpc = at
  /\ Configured(k)
  /\ ran[k] < hooks[k]
  /\ \/ ran' = [ran EXCEPT ![k] = @ + 1] /\ UNCHANGED cpc
     \/ cpc' = "failing" /\ UNCHANGED ran
  /\ UNCHANGED <<configVars, parentVars, toParent, toChild, ready, logs, code,
                 reaped, sigchld>>

(* Mutant: the child goes on before its namespaces are configured.         *)
NamespacesNotAwaited == Announce("namespace_ready", "namespace_ready", "mounts")

InitializeContainer ==
  \/ Announce("namespace_ready", "namespace_ready", "wait_namespace")
  \/ ExpectStage("wait_namespace", "namespace_done", "mounts")

ConfigureMounts == SetUp("mounts", "prestart")

(* Mutant: the same for the prestart stage.                                *)
PrestartNotAwaited ==
  \/ ChildSkips("prestart", "prestart", "createruntime")
  \/ /\ Configured("prestart")
     /\ Announce("prestart", "prestart_ready", "createruntime")

WaitPrestartHooksResult ==
  \/ ChildSkips("prestart", "prestart", "createruntime")
  \/ /\ Configured("prestart")
     /\ Announce("prestart", "prestart_ready", "wait_prestart")
  \/ ExpectStage("wait_prestart", "prestart_done", "createruntime")

(* Mutant: the child announces the stage and does not wait for the answer. *)
CreateRuntimeNotAwaited ==
  \/ ChildSkips("createruntime", "createRuntime", "read_status")
  \/ /\ Configured("createRuntime")
     /\ Announce("createruntime", "createruntime_ready", "read_status")

WaitCreateRuntimeResult ==
  \/ ChildSkips("createruntime", "createRuntime", "read_status")
  \/ /\ Configured("createRuntime")
     /\ Announce("createruntime", "createruntime_ready", "wait_createruntime")
  \/ ExpectStage("wait_createruntime", "createruntime_done", "read_status")

(* container.status(): reads the status.json the parent wrote.             *)
ReadStatus ==
  /\ cpc = "read_status"
  /\ \/ status = "present" /\ cpc' = "createcontainer"
     \/ cpc' = "failing"
  /\ UNCHANGED <<configVars, parentVars, toParent, toChild, ran, ready, logs,
                 code, reaped, sigchld>>

CreateContainerHooks ==
  \/ ChildSkips("createcontainer", "createContainer", "pivot_root")
  \/ RunChildHook("createcontainer", "createContainer")
  \/ /\ ran["createContainer"] = hooks["createContainer"]
     /\ Announce("createcontainer", "createcontainer_done", "pivot_root")

PivotRoot == SetUp("pivot_root", "terminal")

(* configure_terminal, when the process has a terminal.                    *)
ConfigureTerminal ==
  \/ ~terminal /\ SetUp("terminal", "privileges")
  \/ terminal /\ \/ Announce("terminal", "console_fd", "privileges")
                 \/ SetUp("terminal", "failing")

(* umask, the annotation extensions, privilege_context::apply.             *)
ApplyPrivileges == SetUp("privileges", "startcontainer")

StartContainerHooks ==
  \/ RunChildHook("startcontainer", "startContainer")
  \/ Done("startContainer") /\ SetUp("startcontainer", "exec_ready")

SendExecReady ==
  /\ cpc = "exec_ready"
  /\ SendToParent("exec_ready")
  /\ ready' = TRUE
  /\ cpc' = "exec"
  /\ UNCHANGED <<configVars, parentVars, toChild, ran, logs, code, reaped,
                 sigchld>>

ExecuteProcess == SetUp("exec", "running")

(* The catch blocks: LOG_FATAL goes through the forwarder, then _exit.     *)
LogFatal == Announce("failing", "fatal", "exiting")

ChildDies(from, to, status_code) ==
  /\ cpc \in from
  /\ cpc' = to
  /\ code' = status_code
  /\ sigchld' = TRUE
  /\ UNCHANGED <<configVars, parentVars, toParent, toChild, ran, ready, logs,
                 reaped>>

ExitFailed == ChildDies({"exiting"}, "failed", ExitFailure)

(* The container's program, by itself or by a signal.                      *)
ContainerExits ==
  \E c \in ExitCodes \cup {KilledCode} : ChildDies({"running"}, "exited", c)

(* A log message of the set-up, which sync_socket_forwarder sends.         *)
ForwardLog ==
  /\ cpc \in ChildSetup
  /\ logs < MaxLogs
  /\ SendToParent("log")
  /\ logs' = logs + 1
  /\ UNCHANGED <<configVars, parentVars, cpc, toChild, ran, ready, code,
                 reaped, sigchld>>

(* SIGKILL, an out-of-memory kill: the child vanishes without a word.      *)
ChildKilled == ChildDies(ChildAlive \ {"running"}, "killed", KilledCode)

(* What clone_fn does by itself.                                           *)
Child ==
  \/ InitializeContainer \/ ConfigureMounts \/ WaitPrestartHooksResult
  \/ WaitCreateRuntimeResult \/ ReadStatus \/ CreateContainerHooks
  \/ PivotRoot \/ ConfigureTerminal \/ ApplyPrivileges
  \/ StartContainerHooks \/ SendExecReady \/ ExecuteProcess
  \/ LogFatal \/ ExitFailed

(* The runtime is killed: nothing is cleaned up.                           *)
RuntimeKilled ==
  /\ RuntimeMayDie
  /\ ppc \notin ParentFinal
  /\ ppc' = "killed"
  /\ UNCHANGED <<configVars, childVars, toParent, toChild, configured, status,
                 ran, sawFatal, reaped, sigchld, result>>

(* The runtime is gone, and the child with it or waiting for good.         *)
Terminated ==
  /\ ppc \in ParentFinal
  /\ UNCHANGED vars

Next == \/ Parent \/ Child \/ ForwardingThrows \/ ContainerExits \/ ForwardLog
        \/ ChildKilled \/ RuntimeKilled \/ Terminated

(* Each process runs on and a hook always ends: the code blocks nowhere    *)
(* else than modelled.  Whether the container's program ever exits, and    *)
(* everything that kills or fails from outside, is not forced.             *)
Spec == Init /\ [][Next]_vars
FairSpec == Spec /\ WF_vars(Parent) /\ WF_vars(Child)

-----------------------------------------------------------------------------
(* Properties.                                                             *)

(* Every variable keeps its type.                                          *)
TypeOK ==
  /\ hooks \in [HookKinds -> HookCounts]
  /\ terminal \in BOOLEAN
  /\ ppc \in ParentPCs
  /\ cpc \in ChildPCs
  /\ toParent \in Seq(ChildMsgs)
  /\ toChild \in Seq(ParentMsgs)
  /\ Len(toParent) <= Capacity
  /\ Len(toChild) <= Capacity
  /\ configured \in BOOLEAN
  /\ status \in {"absent", "present", "removed"}
  /\ ran \in [HookKinds -> Nat]
  /\ ready \in BOOLEAN
  /\ logs \in 0..MaxLogs
  /\ sawFatal \in BOOLEAN
  /\ code \in ExitCodes \cup {0, ExitFailure, KilledCode}
  /\ reaped \in BOOLEAN
  /\ sigchld \in BOOLEAN
  /\ result \in ExitCodes \cup {0, ExitFailure, KilledCode}

Stages == <<"prestart", "createRuntime", "createContainer", "startContainer",
            "poststart", "poststop">>
SetUpStages == {"prestart", "createRuntime", "createContainer", "startContainer"}

(* The OCI order across the two processes: no hook of a stage runs before  *)
(* every configured hook of every earlier stage has run, although the      *)
(* stages alternate between the runtime and the child and only datagrams   *)
(* tie them together.                                                      *)
HooksInOrder ==
  \A i \in 1..6 : ran[Stages[i]] > 0 => \A j \in 1..(i-1) : Done(Stages[j])

(* The child reaches exec only after the runtime put its id mappings and   *)
(* cgroup in place and every hook that precedes the start has succeeded.   *)
NoUnpreparedExec ==
  cpc \in {"exec_ready", "exec", "running", "exited"} =>
    configured /\ \A k \in SetUpStages : Done(k)

(* poststart hooks run only for a child that announced exec_ready and then *)
(* closed its socket, and never for one that reported a failure: a failed  *)
(* exec is not mistaken for a started container.                           *)
NoPoststartAfterFailure ==
  ran["poststart"] > 0 =>
    ready /\ EndClosed /\ cpc # "failed"

(* status.json covers the container's life: a child past its namespace     *)
(* set-up finds it, and it is gone only when no process is left behind,    *)
(* neither running nor a zombie.                                           *)
RecordCoversContainer ==
  /\ cpc \in ChildAlive \ {"namespace_ready", "wait_namespace", "failing", "exiting"}
       => status = "present"
  /\ status = "removed" => cpc = "none" \/ reaped

(* run returns 0 only for a container whose program ran and exited with 0, *)
(* after all its poststart and poststop hooks; and any code that is not    *)
(* EXIT_FAILURE is the one the container left.                             *)
FaithfulExitCode ==
  ppc = "returned" =>
    /\ result = 0 => cpc = "exited" /\ Done("poststart") /\ Done("poststop")
    /\ result # ExitFailure => reaped /\ result = code

(* Whatever throws or dies, the start does not hang: the runtime ends or   *)
(* the container's program is running.                                     *)
StartSettles == <>(ppc \in ParentFinal \/ cpc = "running")

(* The runtime notices the end of the container, also when a hook's        *)
(* sigtimedwait swallowed the SIGCHLD that announced it.                   *)
EndIsNoticed == (cpc \in ChildDead) ~> (ppc \in ParentFinal)

(* The lifecycle ContainerLifecycle promises, seen through the state of    *)
(* the two processes.                                                      *)
Lifecycle == INSTANCE ContainerLifecycle WITH
  phase <- IF cpc \in {"exec", "running"} THEN "launched"
           ELSE IF cpc \in {"failing", "exiting"} \cup ChildDead THEN "over"
           ELSE "creating",
  outcome <- IF ppc # "returned" THEN "pending"
             ELSE IF result = 0 THEN "success" ELSE "failure"
LifecycleSpec == Lifecycle!Spec
=============================================================================
